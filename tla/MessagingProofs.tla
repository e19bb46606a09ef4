-------------------------- MODULE MessagingProofs --------------------------
(***************************************************************************)
(* The events and the messages.  For any set of events and any number of   *)
(* references of the application, the core gives up its reference to an    *)
(* event exactly when it is over.  For any messages, any identifiers and   *)
(* any number of them remembered, an answer always finds its message, a    *)
(* message leaves the transient list with its answer, and a MESSAGE that   *)
(* is sent again is given to the application once.                         *)
(***************************************************************************)
EXTENDS Events, Chat, SequenceTheorems, TLAPS

-----------------------------------------------------------------------------
(* Events                                                                  *)

\* What the balance rests on: a PUBLISH has no subscription, a subscription no
\* publication, and answers come only to what can have been sent.
Kind(x) ==
  /\ x.dir \in {"unused", "Incoming"} => x.sent = "none" /\ x.pub = "None"
  /\ x.dir = "Outgoing" => x.sent # "publish" /\ x.pub = "None"
  /\ x.dir = "Publish" => x.sent \in {"none", "publish"} /\ x.sub = "None"
  /\ x.dir = "unused" => x.refs = 0

Sound(x) == x \in EventType /\ BalancedEvent(x) /\ Kind(x)

\* A destroyed event is sent nothing any more.
Silent(x) == x.refs = 0 => x.sent = "none"

EventInv == \A e \in Event : Sound(ev[e]) /\ Silent(ev[e])

IInv == EventsTypeOK /\ EventInv

-----------------------------------------------------------------------------
\* linphone_event_set_state() keeps the balance of a live subscription.
LEMMA SetSubscriptionSound ==
  ASSUME NEW x, NEW state \in SubscriptionState,
         Sound(x), x.refs > 0, x.dir \in {"Incoming", "Outgoing"}
  PROVE  Sound(SetSubscription(x, state))
<1> DEFINE y == [x EXCEPT !.sub = state, !.revived = @ \/ EventOver(x)]
<1>1. x \in EventType /\ BalancedEvent(x) /\ Kind(x)
  BY DEF Sound
<1>2. x.refs \in Nat \ {0} /\ x.app \in Nat /\ x.dir # "Publish" /\ x.dir # "unused"
  BY <1>1 DEF EventType
<1>3. EventOver(x) \in BOOLEAN
  BY <1>2 DEF EventOver
<1>4. /\ y \in EventType
      /\ y.refs = x.refs /\ y.app = x.app /\ y.dir = x.dir /\ y.sub = state
      /\ y.sent = x.sent /\ y.pub = x.pub
      /\ ~y.revived => ~x.revived /\ ~EventOver(x)
  BY <1>1, <1>2, <1>3 DEF EventType
<1> HIDE DEF y
<1>5. CASE x.sub = state
  BY <1>5 DEF SetSubscription, Sound
<1>6. CASE x.sub # state /\ state = "Terminated"
  <2>1. SetSubscription(x, state) = [y EXCEPT !.refs = @ - 1]
    BY <1>6 DEF SetSubscription, EventUnref, y
  <2>2. [y EXCEPT !.refs = @ - 1] \in EventType
    BY <1>2, <1>4 DEF EventType
  <2>3. BalancedEvent([y EXCEPT !.refs = @ - 1])
    BY <1>1, <1>2, <1>4, <1>6 DEF BalancedEvent, EventOver, EventType
  <2>4. Kind([y EXCEPT !.refs = @ - 1])
    BY <1>1, <1>2, <1>4 DEF Kind, EventType
  <2> QED BY <2>1, <2>2, <2>3, <2>4 DEF Sound
<1>7. CASE x.sub # state /\ state # "Terminated"
  <2>1. SetSubscription(x, state) = y
    BY <1>7 DEF SetSubscription, y
  <2>2. BalancedEvent(y)
    BY <1>1, <1>2, <1>4, <1>7 DEF BalancedEvent, EventOver
  <2>3. Kind(y)
    BY <1>1, <1>2, <1>4 DEF Kind
  <2> QED BY <1>4, <2>1, <2>2, <2>3 DEF Sound
<1> QED BY <1>5, <1>6, <1>7

\* linphone_event_set_publish_state() keeps the balance of a live PUBLISH.
LEMMA SetPublishSound ==
  ASSUME NEW x, NEW state \in PublishState,
         Sound(x), x.refs > 0, x.dir = "Publish"
  PROVE  Sound(SetPublish(x, state))
<1> DEFINE y == [x EXCEPT !.pub = state, !.revived = @ \/ EventOver(x)]
<1>1. x \in EventType /\ BalancedEvent(x) /\ Kind(x)
  BY DEF Sound
<1>2. x.refs \in Nat \ {0} /\ x.app \in Nat /\ x.oneShot \in BOOLEAN
  BY <1>1 DEF EventType
<1>3. EventOver(x) \in BOOLEAN
  BY <1>2 DEF EventOver
<1>4. /\ y \in EventType
      /\ y.refs = x.refs /\ y.app = x.app /\ y.dir = x.dir /\ y.sub = x.sub
      /\ y.sent = x.sent /\ y.pub = state /\ y.oneShot = x.oneShot
      /\ ~y.revived => ~x.revived /\ ~EventOver(x)
  BY <1>1, <1>2, <1>3 DEF EventType
<1> HIDE DEF y
<1>5. CASE x.pub = state
  BY <1>5 DEF SetPublish, Sound
<1>6. CASE x.pub # state /\ EventOver(y)
  <2>1. SetPublish(x, state) = [y EXCEPT !.refs = @ - 1]
    BY <1>6 DEF SetPublish, EventUnref, y
  <2>2. [y EXCEPT !.refs = @ - 1] \in EventType
    BY <1>2, <1>4 DEF EventType
  <2>3. EventOver([y EXCEPT !.refs = @ - 1])
    BY <1>4, <1>6 DEF EventOver, EventType
  <2>4. BalancedEvent([y EXCEPT !.refs = @ - 1])
    BY <1>1, <1>2, <1>4, <2>3 DEF BalancedEvent, EventType
  <2>5. Kind([y EXCEPT !.refs = @ - 1])
    BY <1>1, <1>2, <1>4 DEF Kind, EventType
  <2> QED BY <2>1, <2>2, <2>4, <2>5 DEF Sound
<1>7. CASE x.pub # state /\ ~EventOver(y)
  <2>1. SetPublish(x, state) = y
    BY <1>7 DEF SetPublish, y
  <2>2. BalancedEvent(y)
    BY <1>1, <1>2, <1>4, <1>7 DEF BalancedEvent
  <2>3. Kind(y)
    BY <1>1, <1>2, <1>4 DEF Kind
  <2> QED BY <1>4, <2>1, <2>2, <2>3 DEF Sound
<1> QED BY <1>5, <1>6, <1>7

LEMMA NoEventSound == Sound(NoEvent) /\ Silent(NoEvent)
<1>1. NoEvent \in EventType
  BY DEF NoEvent, NewEvent, EventType, SubscriptionState, PublishState
<1>2. NoEvent.dir = "unused" /\ NoEvent.refs = 0 /\ NoEvent.sent = "none" /\ NoEvent.pub = "None"
  BY DEF NoEvent, NewEvent
<1> QED BY <1>1, <1>2 DEF Sound, Silent, BalancedEvent, Kind

\* linphone_event_destroy(): nothing is sent for a destroyed event.
LEMMA SettledSound ==
  ASSUME NEW x, Sound(x)
  PROVE  Sound(Settled(x)) /\ Silent(Settled(x))
<1>1. x \in EventType /\ BalancedEvent(x) /\ Kind(x)
  BY DEF Sound
<1>2. CASE x.refs = 0 /\ x.app = 0
  BY <1>2, NoEventSound DEF Settled
<1>3. CASE x.refs = 0 /\ x.app # 0
  <2> DEFINE y == [x EXCEPT !.sent = "none", !.refresher = "off"]
  <2>1. Settled(x) = y
    BY <1>3 DEF Settled
  <2>2. /\ y \in EventType
        /\ y.dir = x.dir /\ y.sub = x.sub /\ y.pub = x.pub /\ y.oneShot = x.oneShot
        /\ y.refs = x.refs /\ y.app = x.app /\ y.revived = x.revived /\ y.sent = "none"
    BY <1>1 DEF EventType
  <2>3. BalancedEvent(y)
    BY <1>1, <2>2 DEF BalancedEvent, EventOver
  <2>4. Kind(y)
    BY <1>1, <2>2 DEF Kind
  <2> QED BY <2>1, <2>2, <2>3, <2>4 DEF Sound, Silent
<1>4. CASE x.refs # 0
  BY <1>4 DEF Settled, Silent
<1> QED BY <1>2, <1>3, <1>4

\* What changes neither state and keeps the references counted is sound.
LEMMA QuietSound ==
  ASSUME NEW x, NEW y, Sound(x), y \in EventType, Kind(y),
         y.dir = x.dir, y.sub = x.sub, y.pub = x.pub, y.oneShot = x.oneShot,
         y.revived = x.revived, y.refs + x.app = x.refs + y.app
  PROVE  Sound(y)
<1>1. EventOver(y) = EventOver(x)
  BY DEF EventOver
<1>2. x.refs \in Nat /\ x.app \in Nat /\ y.refs \in Nat /\ y.app \in Nat
  BY DEF Sound, EventType
<1>3. BalancedEvent(y)
  BY <1>1, <1>2 DEF Sound, BalancedEvent
<1> QED BY <1>3 DEF Sound

\* Another request, refresher or flag.
Quiet(x, y) ==
  /\ y.dir = x.dir /\ y.sub = x.sub /\ y.pub = x.pub /\ y.oneShot = x.oneShot
  /\ y.revived = x.revived /\ y.refs = x.refs /\ y.app = x.app
  /\ \/ y.sent = "none" \/ y.sent = x.sent
     \/ x.dir = "Outgoing" /\ y.sent \in {"subscribe", "unsubscribe"}
     \/ x.dir = "Publish" /\ y.sent = "publish"

LEMMA QuietKeeps ==
  ASSUME NEW x, NEW y, Sound(x), y \in EventType, Quiet(x, y)
  PROVE  Sound(y)
<1>1. x \in EventType /\ Kind(x)
  BY DEF Sound
<1>2. Kind(y)
  BY <1>1 DEF Kind, Quiet
<1>3. x.refs \in Nat /\ x.app \in Nat
  BY <1>1 DEF EventType
<1> QED BY <1>2, <1>3, QuietSound DEF Quiet

\* linphone_event_new()
LEMMA NewEventSound ==
  ASSUME NEW dir \in {"Incoming", "Outgoing", "Publish"}, NEW oneShot \in BOOLEAN,
         NEW manual \in BOOLEAN
  PROVE  LET x == NewEvent(dir, oneShot, manual)
         IN  Sound(x) /\ x.refs = 1 /\ x.dir = dir /\ x.sub = "None" /\ x.pub = "None"
<1> DEFINE x == NewEvent(dir, oneShot, manual)
<1>1. x \in EventType
  BY DEF NewEvent, EventType, SubscriptionState, PublishState
<1>2. /\ x.dir = dir /\ x.sub = "None" /\ x.pub = "None" /\ x.refs = 1 /\ x.app = 0
      /\ x.sent = "none"
  BY DEF NewEvent
<1> HIDE DEF x
<1>3. ~EventOver(x)
  BY <1>2 DEF EventOver
<1>4. BalancedEvent(x)
  BY <1>2, <1>3 DEF BalancedEvent
<1>5. Kind(x)
  BY <1>2 DEF Kind
<1>6. Sound(x)
  BY <1>1, <1>4, <1>5 DEF Sound
<1> QED BY <1>2, <1>6 DEF x

\* A handler that leaves a sound event keeps the invariant.
LEMMA ChangeKeeps ==
  ASSUME NEW e \in Event, NEW y, IInv, Sound(y), Change(e, y)
  PROVE  IInv'
<1>1. Sound(Settled(y)) /\ Silent(Settled(y))
  BY SettledSound
<1>2. ev \in [Event -> EventType] /\ ev' = [ev EXCEPT ![e] = Settled(y)]
  BY DEF IInv, EventsTypeOK, Change
<1>3. ev' \in [Event -> EventType]
  BY <1>1, <1>2 DEF Sound
<1>4. ASSUME NEW d \in Event
      PROVE  Sound(ev'[d]) /\ Silent(ev'[d])
  BY <1>1, <1>2 DEF IInv, EventInv
<1> QED BY <1>3, <1>4 DEF IInv, EventInv, EventsTypeOK

-----------------------------------------------------------------------------
(* What a handler computes before it changes a state is quiet.             *)

LEMMA SendRefreshedQuiet ==
  ASSUME NEW x, NEW request \in {"subscribe", "publish"}, x \in EventType,
         request = "subscribe" => x.dir = "Outgoing",
         request = "publish" => x.dir = "Publish"
  PROVE  SendRefreshed(x, request) \in EventType /\ Quiet(x, SendRefreshed(x, request))
BY DEF SendRefreshed, EventType, Quiet

LEMMA PublishedQuiet ==
  ASSUME NEW x, x \in EventType, x.dir = "Publish"
  PROVE  Published(x) \in EventType /\ Quiet(x, Published(x))
<1>1. CASE x.oneShot
  BY <1>1 DEF Published, EventType, Quiet
<1>2. CASE ~x.oneShot
  BY <1>2, SendRefreshedQuiet DEF Published
<1> QED BY <1>1, <1>2

LEMMA UnsentQuiet ==
  ASSUME NEW x, NEW request \in {"unsubscribe", "publish"}, x \in EventType,
         request = "unsubscribe" => x.dir = "Outgoing",
         request = "publish" => x.dir = "Publish"
  PROVE  Unsent(x, request) \in EventType /\ Quiet(x, Unsent(x, request))
BY DEF Unsent, EventType, Quiet

LEMMA NotRefreshedQuiet ==
  ASSUME NEW x, x \in EventType
  PROVE  NotRefreshed(x) \in EventType /\ Quiet(x, NotRefreshed(x))
BY DEF NotRefreshed, EventType, Quiet

LEMMA RefusedRefreshQuiet ==
  ASSUME NEW x, NEW how \in EventFailure, x \in EventType
  PROVE  RefusedRefresh(x, how) \in EventType /\ Quiet(x, RefusedRefresh(x, how))
BY DEF RefusedRefresh, EventType, Quiet

\* A quiet change, and one that sets the subscription after it.
LEMMA QuietChange ==
  ASSUME NEW e \in Event, NEW y, IInv, y \in EventType, Quiet(ev[e], y), Change(e, y)
  PROVE  IInv'
<1>1. Sound(ev[e])
  BY DEF IInv, EventInv
<1> QED BY <1>1, QuietKeeps, ChangeKeeps

LEMMA QuietSubscription ==
  ASSUME NEW e \in Event, NEW y, NEW state \in SubscriptionState, IInv,
         Alive(e), ev[e].dir \in {"Incoming", "Outgoing"},
         y \in EventType, Quiet(ev[e], y), Change(e, SetSubscription(y, state))
  PROVE  IInv'
<1>1. Sound(ev[e]) /\ Sound(y)
  BY QuietKeeps DEF IInv, EventInv
<1>2. y.refs > 0 /\ y.dir \in {"Incoming", "Outgoing"}
  BY DEF Alive, Quiet
<1>3. Sound(SetSubscription(y, state))
  BY <1>1, <1>2, SetSubscriptionSound
<1> QED BY <1>3, ChangeKeeps

LEMMA QuietPublish ==
  ASSUME NEW e \in Event, NEW y, NEW state \in PublishState, IInv,
         Alive(e), ev[e].dir = "Publish",
         y \in EventType, Quiet(ev[e], y), Change(e, SetPublish(y, state))
  PROVE  IInv'
<1>1. Sound(ev[e]) /\ Sound(y)
  BY QuietKeeps DEF IInv, EventInv
<1>2. y.refs > 0 /\ y.dir = "Publish"
  BY DEF Alive, Quiet
<1>3. Sound(SetPublish(y, state))
  BY <1>1, <1>2, SetPublishSound
<1> QED BY <1>3, ChangeKeeps

\* What an event is when a handler finds it.
LEMMA EventFound ==
  ASSUME NEW e \in Event, IInv
  PROVE  /\ ev[e] \in EventType /\ Sound(ev[e]) /\ Kind(ev[e]) /\ Quiet(ev[e], ev[e])
         /\ ev[e].sent # "none" => Alive(e)
         /\ ev[e].sent \in {"subscribe", "unsubscribe"} => ev[e].dir = "Outgoing"
         /\ ev[e].sent = "publish" => ev[e].dir = "Publish"
<1>1. Sound(ev[e]) /\ Silent(ev[e])
  BY DEF IInv, EventInv
<1>2. ev[e] \in EventType /\ Kind(ev[e])
  BY <1>1 DEF Sound
<1>3. ev[e].dir \in {"unused", "Incoming", "Outgoing", "Publish"} /\ ev[e].refs \in Nat
  BY <1>2 DEF EventType
<1>4. ev[e].sent \in {"none", "subscribe", "unsubscribe", "publish"}
  BY <1>2 DEF EventType
<1>5. ev[e].sent # "none" => Alive(e)
  BY <1>1, <1>2, <1>3 DEF Silent, Kind, Alive, Unused
<1>6. Quiet(ev[e], ev[e])
  BY DEF Quiet
<1> QED BY <1>1, <1>2, <1>3, <1>4, <1>5, <1>6 DEF Kind

-----------------------------------------------------------------------------
(* The steps of the application                                            *)

LEMMA EventCreateKeeps ==
  ASSUME NEW e \in Event, IInv, CreateSubscribe(e) \/ CreatePublish(e)
  PROVE  IInv'
<1>1. CASE CreateSubscribe(e)
  <2>1. PICK manual \in BOOLEAN : Change(e, NewEvent("Outgoing", FALSE, manual))
    BY <1>1 DEF CreateSubscribe
  <2>2. Sound(NewEvent("Outgoing", FALSE, manual))
    BY NewEventSound
  <2> QED BY <2>1, <2>2, ChangeKeeps
<1>2. CASE CreatePublish(e)
  <2>1. PICK oneShot \in BOOLEAN, manual \in BOOLEAN :
          Change(e, NewEvent("Publish", oneShot, manual))
    BY <1>2 DEF CreatePublish
  <2>2. Sound(NewEvent("Publish", oneShot, manual))
    BY NewEventSound
  <2> QED BY <2>1, <2>2, ChangeKeeps
<1> QED BY <1>1, <1>2

LEMMA SendSubscribeKeeps ==
  ASSUME NEW e \in Event, IInv, SendSubscribe(e)
  PROVE  IInv'
<1> DEFINE y == SendRefreshed(ev[e], "subscribe")
<1>1. Alive(e) /\ ev[e].dir = "Outgoing" /\ ev[e] \in EventType
  BY EventFound DEF SendSubscribe
<1>2. y \in EventType /\ Quiet(ev[e], y)
  BY <1>1, SendRefreshedQuiet
<1>3. Change(e, SetSubscription(y, "OutgoingInit")) \/ Change(e, y)
  BY DEF SendSubscribe
<1> HIDE DEF y
<1>4. "OutgoingInit" \in SubscriptionState
  BY DEF SubscriptionState
<1> QED BY <1>1, <1>2, <1>3, <1>4, QuietChange, QuietSubscription

LEMMA AnswerSubscriptionKeeps ==
  ASSUME NEW e \in Event, IInv, AnswerSubscription(e)
  PROVE  IInv'
<1>1. Alive(e) /\ ev[e].sub = "IncomingReceived"
  BY DEF AnswerSubscription
<1>2. PICK state \in {"Active", "Terminated"} : Change(e, SetSubscription(ev[e], state))
  BY DEF AnswerSubscription
<1>3. ev[e] \in EventType /\ Kind(ev[e]) /\ Quiet(ev[e], ev[e])
  BY EventFound
<1>4. ev[e].dir \in {"Incoming", "Outgoing"}
  BY <1>1, <1>3 DEF Kind, EventType, Alive, Unused
<1>5. state \in SubscriptionState
  BY DEF SubscriptionState
<1> QED BY <1>1, <1>2, <1>3, <1>4, <1>5, QuietSubscription

LEMMA SendEventPublishKeeps ==
  ASSUME NEW e \in Event, NEW built \in BOOLEAN, IInv, SendEventPublish(e, built)
  PROVE  IInv'
<1>1. Alive(e) /\ ev[e].dir = "Publish" /\ ev[e] \in EventType /\ Quiet(ev[e], ev[e])
  BY EventFound DEF SendEventPublish
<1>2. \/ Change(e, SetPublish(Published(ev[e]), "Progress"))
      \/ Change(e, SetPublish(ev[e], "Error"))
  BY DEF SendEventPublish
<1>3. Published(ev[e]) \in EventType /\ Quiet(ev[e], Published(ev[e]))
  BY <1>1, PublishedQuiet
<1>4. "Progress" \in PublishState /\ "Error" \in PublishState
  BY DEF PublishState
<1> QED BY <1>1, <1>2, <1>3, <1>4, QuietPublish

LEMMA PublishNowKeeps ==
  ASSUME NEW e \in Event, NEW built \in BOOLEAN, IInv, PublishNow(e, built)
  PROVE  IInv'
<1>1. PICK oneShot \in BOOLEAN, manual \in BOOLEAN :
        LET x == NewEvent("Publish", oneShot, manual)
        IN  \/ Change(e, SetPublish(Published(x), "Progress"))
            \/ Change(e, EventUnref(x))
  BY DEF PublishNow
<1> DEFINE x == NewEvent("Publish", oneShot, manual)
<1>2. Sound(x) /\ x.refs = 1 /\ x.dir = "Publish" /\ x.pub = "None"
  BY NewEventSound
<1>3. Change(e, SetPublish(Published(x), "Progress")) \/ Change(e, EventUnref(x))
  BY <1>1
<1>4. x.app = 0 /\ x.sent = "none" /\ x.sub = "None"
  BY DEF NewEvent
<1> HIDE DEF x
<1>5. x \in EventType
  BY <1>2 DEF Sound
<1>6. CASE Change(e, SetPublish(Published(x), "Progress"))
  <2>1. Published(x) \in EventType /\ Quiet(x, Published(x))
    BY <1>2, <1>5, PublishedQuiet
  <2>2. Sound(Published(x))
    BY <1>2, <2>1, QuietKeeps
  <2>3. Published(x).refs > 0 /\ Published(x).dir = "Publish"
    BY <1>2, <2>1 DEF Quiet
  <2>4. "Progress" \in PublishState
    BY DEF PublishState
  <2>5. Sound(SetPublish(Published(x), "Progress"))
    BY <2>2, <2>3, <2>4, SetPublishSound
  <2> QED BY <1>6, <2>5, ChangeKeeps
<1>7. CASE Change(e, EventUnref(x))
  <2>1. Settled(EventUnref(x)) = NoEvent
    BY <1>2, <1>4, <1>5 DEF Settled, EventUnref, EventType
  <2>2. Settled(NoEvent) = NoEvent
    BY DEF Settled, NoEvent, NewEvent
  <2>3. Change(e, NoEvent)
    BY <1>7, <2>1, <2>2 DEF Change
  <2> QED BY <2>3, NoEventSound, ChangeKeeps
<1> QED BY <1>3, <1>6, <1>7

\* What linphone_event_terminate() sends before it changes a state.
LEMMA TerminateQuiet ==
  ASSUME NEW e \in Event, IInv, TerminateEvent(e)
  PROVE  \E y \in EventType :
           /\ Quiet(ev[e], y)
           /\ Change(e, CASE y.pub # "None" -> SetPublish(y, "Cleared")
                          [] y.pub = "None" /\ y.sub # "None" ->
                               SetSubscription(y, "Terminated")
                          [] OTHER -> y)
<1> DEFINE x == [ev[e] EXCEPT !.terminating = TRUE]
           y == CASE x.dir = "Outgoing" -> Unsent(x, "unsubscribe")
                  [] x.dir = "Publish" /\ x.pub = "Ok" /\ ~x.oneShot ->
                       Unsent(x, "publish")
                  [] x.dir = "Publish" /\ x.pub # "None" /\ ~(x.pub = "Ok" /\ ~x.oneShot) ->
                       NotRefreshed(x)
                  [] OTHER -> x
<1>1. Alive(e) /\ ev[e] \in EventType /\ Sound(ev[e]) /\ Kind(ev[e])
  BY EventFound DEF TerminateEvent
<1>2. x \in EventType /\ Quiet(ev[e], x)
  BY <1>1 DEF EventType, Quiet
<1>3. Change(e, CASE y.pub # "None" -> SetPublish(y, "Cleared")
                  [] y.pub = "None" /\ y.sub # "None" -> SetSubscription(y, "Terminated")
                  [] OTHER -> y)
  BY DEF TerminateEvent
<1> HIDE DEF x
<1>4. x.dir = "Outgoing" =>
        Unsent(x, "unsubscribe") \in EventType /\ Quiet(x, Unsent(x, "unsubscribe"))
  BY <1>2, UnsentQuiet
<1>5. x.dir = "Publish" =>
        Unsent(x, "publish") \in EventType /\ Quiet(x, Unsent(x, "publish"))
  BY <1>2, UnsentQuiet
<1>6. NotRefreshed(x) \in EventType /\ Quiet(x, NotRefreshed(x))
  BY <1>2, NotRefreshedQuiet
<1>7. Quiet(x, x)
  BY DEF Quiet
<1>8. y \in EventType /\ Quiet(x, y)
  <2>1. CASE x.dir = "Outgoing"
    BY <1>4, <2>1
  <2>2. CASE x.dir = "Publish" /\ x.pub = "Ok" /\ ~x.oneShot
    BY <1>5, <2>2
  <2>3. CASE x.dir = "Publish" /\ x.pub # "None" /\ ~(x.pub = "Ok" /\ ~x.oneShot)
    BY <1>6, <2>3
  <2>4. CASE x.dir # "Outgoing" /\ ~(x.dir = "Publish" /\ x.pub # "None")
    <3>1. y = x
      BY <2>4
    <3> QED BY <1>2, <1>7, <3>1
  <2> QED BY <2>1, <2>2, <2>3, <2>4
<1> HIDE DEF y
<1>9. Quiet(ev[e], y)
  BY <1>2, <1>8 DEF Quiet
<1> QED BY <1>3, <1>8, <1>9

LEMMA TerminateKeeps ==
  ASSUME NEW e \in Event, IInv, TerminateEvent(e)
  PROVE  IInv'
<1>1. Alive(e) /\ ev[e] \in EventType /\ Kind(ev[e])
  BY EventFound DEF TerminateEvent
<1>2. PICK y \in EventType :
        /\ Quiet(ev[e], y)
        /\ Change(e, CASE y.pub # "None" -> SetPublish(y, "Cleared")
                       [] y.pub = "None" /\ y.sub # "None" ->
                            SetSubscription(y, "Terminated")
                       [] OTHER -> y)
  BY TerminateQuiet
<1>3. "Cleared" \in PublishState /\ "Terminated" \in SubscriptionState
  BY DEF PublishState, SubscriptionState
<1>4. CASE y.pub # "None"
  <2>1. ev[e].dir = "Publish"
    BY <1>1, <1>2, <1>4 DEF Quiet, Kind, EventType
  <2>2. Change(e, SetPublish(y, "Cleared"))
    BY <1>2, <1>4
  <2> QED BY <1>1, <1>2, <1>3, <2>1, <2>2, QuietPublish
<1>5. CASE y.pub = "None" /\ y.sub # "None"
  <2>1. ev[e].dir \in {"Incoming", "Outgoing"}
    BY <1>1, <1>2, <1>5 DEF Quiet, Kind, EventType, Alive, Unused
  <2>2. Change(e, SetSubscription(y, "Terminated"))
    BY <1>2, <1>5
  <2> QED BY <1>1, <1>2, <1>3, <2>1, <2>2, QuietSubscription
<1>6. CASE y.pub = "None" /\ y.sub = "None"
  <2>1. Change(e, y)
    BY <1>2, <1>6
  <2> QED BY <1>2, <2>1, QuietChange
<1> QED BY <1>4, <1>5, <1>6

\* A reference of the application, and its return.
LEMMA CountedSound ==
  ASSUME NEW x, NEW refs \in Nat, NEW app \in Nat, Sound(x),
         x.dir # "unused", refs + x.app = x.refs + app
  PROVE  Sound([x EXCEPT !.refs = refs, !.app = app])
<1> DEFINE y == [x EXCEPT !.refs = refs, !.app = app]
<1>1. x \in EventType /\ Kind(x)
  BY DEF Sound
<1>2. y \in EventType
  BY <1>1 DEF EventType
<1>3. /\ y.dir = x.dir /\ y.sub = x.sub /\ y.pub = x.pub /\ y.oneShot = x.oneShot
      /\ y.revived = x.revived /\ y.sent = x.sent /\ y.refs = refs /\ y.app = app
  BY <1>1 DEF EventType
<1>4. Kind(y)
  BY <1>1, <1>3 DEF Kind
<1> HIDE DEF y
<1>5. Sound(y)
  BY <1>2, <1>3, <1>4, QuietSound
<1> QED BY <1>5 DEF y

LEMMA EventRefKeeps ==
  ASSUME NEW e \in Event, IInv, RefEvent(e) \/ UnrefEvent(e)
  PROVE  IInv'
<1>1. ev[e] \in EventType /\ Sound(ev[e]) /\ Alive(e)
  BY EventFound DEF RefEvent, UnrefEvent
<1>2. ev[e].refs \in Nat \ {0} /\ ev[e].app \in Nat /\ ev[e].dir # "unused"
  BY <1>1 DEF EventType, Alive, Unused
<1>3. CASE RefEvent(e)
  <2> DEFINE refs == ev[e].refs + 1
             app == ev[e].app + 1
  <2>1. Change(e, [ev[e] EXCEPT !.refs = refs, !.app = app])
    BY <1>3 DEF RefEvent
  <2>2. refs \in Nat /\ app \in Nat /\ refs + ev[e].app = ev[e].refs + app
    BY <1>2
  <2> HIDE DEF refs, app
  <2>3. Sound([ev[e] EXCEPT !.refs = refs, !.app = app])
    BY <1>1, <1>2, <2>2, CountedSound
  <2> QED BY <2>1, <2>3, ChangeKeeps
<1>4. CASE UnrefEvent(e)
  <2> DEFINE refs == ev[e].refs - 1
             app == ev[e].app - 1
  <2>1. Change(e, [ev[e] EXCEPT !.refs = refs, !.app = app]) /\ ev[e].app > 0
    <3>1. ev[e].app > 0 /\ Change(e, EventUnref([ev[e] EXCEPT !.app = @ - 1]))
      BY <1>4 DEF UnrefEvent
    <3>2. EventUnref([ev[e] EXCEPT !.app = @ - 1])
            = [ev[e] EXCEPT !.refs = ev[e].refs - 1, !.app = ev[e].app - 1]
      BY <1>1 DEF EventUnref, EventType
    <3> QED BY <3>1, <3>2
  <2>2. refs \in Nat /\ app \in Nat /\ refs + ev[e].app = ev[e].refs + app
    BY <1>2, <2>1
  <2> HIDE DEF refs, app
  <2>3. Sound([ev[e] EXCEPT !.refs = refs, !.app = app])
    BY <1>1, <1>2, <2>2, CountedSound
  <2> QED BY <2>1, <2>3, ChangeKeeps
<1> QED BY <1>3, <1>4

-----------------------------------------------------------------------------
(* The steps of the SAL                                                    *)

LEMMA SubscribeAnsweredKeeps ==
  ASSUME NEW e \in Event, IInv, SubscribeAnswered(e)
  PROVE  IInv'
<1> DEFINE y == [ev[e] EXCEPT !.sent = "none", !.dialog = TRUE]
<1>1. /\ Alive(e) /\ ev[e].dir = "Outgoing" /\ ev[e] \in EventType
  BY EventFound DEF SubscribeAnswered
<1>2. y \in EventType /\ Quiet(ev[e], y)
  BY <1>1 DEF EventType, Quiet
<1>3. \/ \E state \in {"Active", "Pending"} : Change(e, SetSubscription(y, state))
      \/ \E how \in EventFailure :
           Change(e, SubscribeFailed(RefusedRefresh(ev[e], how)))
  BY DEF SubscribeAnswered
<1> HIDE DEF y
<1>4. ASSUME NEW state \in {"Active", "Pending"}, Change(e, SetSubscription(y, state))
      PROVE  IInv'
  BY <1>1, <1>2, <1>4, QuietSubscription DEF SubscriptionState
<1>5. ASSUME NEW how \in EventFailure,
             Change(e, SubscribeFailed(RefusedRefresh(ev[e], how)))
      PROVE  IInv'
  <2> DEFINE z == RefusedRefresh(ev[e], how)
  <2>1. z \in EventType /\ Quiet(ev[e], z)
    BY <1>1, RefusedRefreshQuiet
  <2>2. Change(e, SubscribeFailed(z))
    BY <1>5
  <2> HIDE DEF z
  <2>3. PICK state \in SubscriptionState : Change(e, SetSubscription(z, state))
    BY <2>2 DEF SubscribeFailed, SubscriptionState
  <2> QED BY <1>1, <2>1, <2>3, QuietSubscription
<1> QED BY <1>3, <1>4, <1>5

LEMMA NotifiedKeeps ==
  ASSUME NEW e \in Event, IInv, EventNotified(e) \/ NotifiedOutOfDialog(e)
  PROVE  IInv'
<1>1. CASE EventNotified(e)
  <2>1. Alive(e) /\ ev[e].dir = "Outgoing" /\ ev[e] \in EventType /\ Quiet(ev[e], ev[e])
    BY <1>1, EventFound DEF EventNotified
  <2>2. PICK state \in {"Active", "Terminated"} : Change(e, SetSubscription(ev[e], state))
    BY <1>1 DEF EventNotified
  <2>3. state \in SubscriptionState
    BY DEF SubscriptionState
  <2> QED BY <2>1, <2>2, <2>3, QuietSubscription
<1>2. CASE NotifiedOutOfDialog(e)
  <2> DEFINE x == NewEvent("Outgoing", FALSE, FALSE)
  <2>1. PICK state \in {"Active", "Terminated"} : Change(e, SetSubscription(x, state))
    BY <1>2 DEF NotifiedOutOfDialog
  <2>2. Sound(x) /\ x.refs = 1 /\ x.dir = "Outgoing"
    BY NewEventSound
  <2> HIDE DEF x
  <2>3. state \in SubscriptionState
    BY DEF SubscriptionState
  <2>4. Sound(SetSubscription(x, state))
    BY <2>2, <2>3, SetSubscriptionSound
  <2> QED BY <2>1, <2>4, ChangeKeeps
<1> QED BY <1>1, <1>2

LEMMA IncomingKeeps ==
  ASSUME NEW e \in Event, IInv, SubscriptionReceived(e) \/ SubscriptionClosed(e)
  PROVE  IInv'
<1>1. CASE SubscriptionReceived(e)
  <2> DEFINE x == NewEvent("Incoming", FALSE, FALSE)
             y == [x EXCEPT !.dialog = TRUE]
  <2>1. Change(e, SetSubscription(y, "IncomingReceived"))
    BY <1>1 DEF SubscriptionReceived
  <2>2. Sound(x) /\ x.refs = 1 /\ x.dir = "Incoming"
    BY NewEventSound
  <2> HIDE DEF x
  <2>3. x \in EventType
    BY <2>2 DEF Sound
  <2>4. y \in EventType /\ Quiet(x, y)
    BY <2>3 DEF EventType, Quiet
  <2>5. y.refs > 0 /\ y.dir = "Incoming"
    BY <2>2, <2>4 DEF Quiet
  <2> HIDE DEF y
  <2>6. Sound(y)
    BY <2>2, <2>4, QuietKeeps
  <2>7. Sound(SetSubscription(y, "IncomingReceived"))
    BY <2>5, <2>6, SetSubscriptionSound DEF SubscriptionState
  <2> QED BY <2>1, <2>7, ChangeKeeps
<1>2. CASE SubscriptionClosed(e)
  <2>1. /\ Alive(e) /\ ev[e].dir = "Incoming" /\ ev[e] \in EventType
        /\ Quiet(ev[e], ev[e]) /\ Change(e, SetSubscription(ev[e], "Terminated"))
    BY <1>2, EventFound DEF SubscriptionClosed
  <2>2. "Terminated" \in SubscriptionState
    BY DEF SubscriptionState
  <2> QED BY <2>1, <2>2, QuietSubscription
<1> QED BY <1>1, <1>2

LEMMA RefreshKeeps ==
  ASSUME NEW e \in Event, IInv, EventDialogTerminated(e) \/ EventRefreshed(e)
  PROVE  IInv'
<1>1. ev[e] \in EventType /\ Kind(ev[e]) /\ Alive(e)
  BY EventFound DEF EventDialogTerminated, EventRefreshed
<1>2. CASE EventDialogTerminated(e)
  <2> DEFINE y == [ev[e] EXCEPT !.dialog = FALSE]
  <2>1. y \in EventType /\ Quiet(ev[e], y)
    BY <1>1 DEF EventType, Quiet
  <2>2. Change(e, y)
    BY <1>2 DEF EventDialogTerminated
  <2> QED BY <2>1, <2>2, QuietChange
<1>3. CASE EventRefreshed(e)
  <2> DEFINE sent == IF ev[e].dir = "Publish" THEN "publish" ELSE "subscribe"
             y == [ev[e] EXCEPT !.sent = sent]
  <2>1. ev[e].dir \in {"Outgoing", "Publish"}
    BY <1>1, <1>3 DEF EventRefreshed, EventType, Alive, Unused
  <2>2. y \in EventType /\ Quiet(ev[e], y)
    BY <1>1, <2>1 DEF EventType, Quiet
  <2>3. Change(e, y)
    BY <1>3 DEF EventRefreshed
  <2> QED BY <2>2, <2>3, QuietChange
<1> QED BY <1>2, <1>3

LEMMA PublishAnsweredKeeps ==
  ASSUME NEW e \in Event, IInv, PublishAnswered(e)
  PROVE  IInv'
<1> DEFINE y == [ev[e] EXCEPT !.sent = "none"]
<1>1. Alive(e) /\ ev[e].dir = "Publish" /\ ev[e] \in EventType
  BY EventFound DEF PublishAnswered
<1>2. y \in EventType /\ Quiet(ev[e], y)
  BY <1>1 DEF EventType, Quiet
<1>3. \/ \E state \in PublishState : Change(e, SetPublish(y, state))
      \/ \E how \in EventFailure, state \in PublishState :
           Change(e, SetPublish(RefusedRefresh(ev[e], how), state))
  BY DEF PublishAnswered, PublishState
<1> HIDE DEF y
<1>4. ASSUME NEW state \in PublishState, Change(e, SetPublish(y, state))
      PROVE  IInv'
  BY <1>1, <1>2, <1>4, QuietPublish
<1>5. ASSUME NEW how \in EventFailure, NEW state \in PublishState,
             Change(e, SetPublish(RefusedRefresh(ev[e], how), state))
      PROVE  IInv'
  BY <1>1, <1>5, RefusedRefreshQuiet, QuietPublish
<1> QED BY <1>3, <1>4, <1>5

LEMMA ExpiresKeeps ==
  ASSUME NEW e \in Event, IInv, EventExpires(e)
  PROVE  IInv'
<1>1. /\ Alive(e) /\ ev[e] \in EventType /\ Kind(ev[e]) /\ Quiet(ev[e], ev[e])
      /\ ev[e].dir \in {"Outgoing", "Publish"}
  BY EventFound DEF EventExpires
<1>2. "Expiring" \in PublishState /\ "Expiring" \in SubscriptionState
  BY DEF PublishState, SubscriptionState
<1>3. Change(e, CASE ev[e].pub = "Ok" -> SetPublish(ev[e], "Expiring")
                  [] ev[e].pub # "Ok" /\ ev[e].sub = "Active" ->
                       SetSubscription(ev[e], "Expiring")
                  [] OTHER -> ev[e])
  BY DEF EventExpires
<1>4. CASE ev[e].pub = "Ok"
  <2>1. ev[e].dir = "Publish" /\ Change(e, SetPublish(ev[e], "Expiring"))
    BY <1>1, <1>3, <1>4 DEF Kind
  <2> QED BY <1>1, <1>2, <2>1, QuietPublish
<1>5. CASE ev[e].pub # "Ok" /\ ev[e].sub = "Active"
  <2>1. ev[e].dir = "Outgoing" /\ Change(e, SetSubscription(ev[e], "Expiring"))
    BY <1>1, <1>3, <1>5 DEF Kind
  <2> QED BY <1>1, <1>2, <2>1, QuietSubscription
<1>6. CASE ev[e].pub # "Ok" /\ ev[e].sub # "Active"
  <2>1. Change(e, ev[e])
    BY <1>3, <1>6
  <2> QED BY <1>1, <2>1, QuietChange
<1> QED BY <1>4, <1>5, <1>6

-----------------------------------------------------------------------------
\* No event exists when the core is created.
LEMMA InitIInv == EventsInit => IInv
<1> SUFFICES ASSUME EventsInit PROVE IInv
  OBVIOUS
<1>1. Sound(NoEvent) /\ Silent(NoEvent) /\ NoEvent \in EventType
  BY NoEventSound DEF Sound
<1> QED BY <1>1 DEF EventsInit, IInv, EventsTypeOK, EventInv

\* Every step of the application and of the SAL keeps the invariant.
LEMMA NextIInv == IInv /\ [EventsNext]_ev => IInv'
<1> SUFFICES ASSUME IInv, [EventsNext]_ev PROVE IInv'
  OBVIOUS
<1>1. ASSUME NEW e \in Event, EventByApplication(e)
      PROVE  IInv'
  <2>1. CASE CreateSubscribe(e) \/ CreatePublish(e)
    BY <2>1, EventCreateKeeps
  <2>2. CASE SendSubscribe(e)
    BY <2>2, SendSubscribeKeeps
  <2>3. CASE AnswerSubscription(e)
    BY <2>3, AnswerSubscriptionKeeps
  <2>4. CASE TerminateEvent(e)
    BY <2>4, TerminateKeeps
  <2>5. CASE RefEvent(e) \/ UnrefEvent(e)
    BY <2>5, EventRefKeeps
  <2>6. ASSUME NEW built \in BOOLEAN, SendEventPublish(e, built) PROVE IInv'
    BY <2>6, SendEventPublishKeeps
  <2>7. ASSUME NEW built \in BOOLEAN, PublishNow(e, built) PROVE IInv'
    BY <2>7, PublishNowKeeps
  <2> QED BY <1>1, <2>1, <2>2, <2>3, <2>4, <2>5, <2>6, <2>7 DEF EventByApplication
<1>2. ASSUME NEW e \in Event, EventBySip(e)
      PROVE  IInv'
  <2>1. CASE SubscribeAnswered(e)
    BY <2>1, SubscribeAnsweredKeeps
  <2>2. CASE EventNotified(e) \/ NotifiedOutOfDialog(e)
    BY <2>2, NotifiedKeeps
  <2>3. CASE SubscriptionReceived(e) \/ SubscriptionClosed(e)
    BY <2>3, IncomingKeeps
  <2>4. CASE EventDialogTerminated(e) \/ EventRefreshed(e)
    BY <2>4, RefreshKeeps
  <2>5. CASE PublishAnswered(e)
    BY <2>5, PublishAnsweredKeeps
  <2>6. CASE EventExpires(e)
    BY <2>6, ExpiresKeeps
  <2> QED BY <1>2, <2>1, <2>2, <2>3, <2>4, <2>5, <2>6 DEF EventBySip
<1>3. CASE UNCHANGED ev
  BY <1>3 DEF IInv, EventInv, EventsTypeOK
<1> QED BY <1>1, <1>2, <1>3 DEF EventsNext

LEMMA Inductive == EventsSpec => []IInv
<1> QED BY InitIInv, NextIInv, PTL DEF EventsSpec

-----------------------------------------------------------------------------
(* A subscription in OutgoingInit waits for an answer.                     *)

\* What keeps a subscription from being in OutgoingInit for ever: it is there only
\* from its first SUBSCRIBE, and an event that was over does not come back to it.
Going(x) ==
  /\ x.sub = "OutgoingInit" => x.dir = "Outgoing" /\ x.sent = "subscribe" /\ ~x.revived
  /\ x.dir = "Outgoing" /\ x.sub = "None" => ~x.revived

GoingInv == \A e \in Event : Going(ev[e])

\* The state of a subscription after its first SUBSCRIBE.
Later == SubscriptionState \ {"None", "OutgoingInit"}

LEMMA SetSubscriptionGoing ==
  ASSUME NEW x, NEW state \in Later, x \in EventType, x.refs > 0
  PROVE  SetSubscription(x, state) \in EventType /\ Going(SetSubscription(x, state))
<1> DEFINE y == [x EXCEPT !.sub = state, !.revived = @ \/ EventOver(x)]
<1>1. EventOver(x) \in BOOLEAN /\ x.refs \in Nat \ {0} /\ state \in SubscriptionState
  BY DEF EventOver, EventType, Later
<1>2. y \in EventType /\ y.sub = state /\ y.refs = x.refs
  BY <1>1 DEF EventType
<1> HIDE DEF y
<1>3. [y EXCEPT !.refs = @ - 1] \in EventType /\ [y EXCEPT !.refs = @ - 1].sub = state
  BY <1>1, <1>2 DEF EventType
<1>4. SetSubscription(x, state) \in {x, y, [y EXCEPT !.refs = @ - 1]}
  BY DEF SetSubscription, EventUnref, y
<1>5. SetSubscription(x, state) = x => x.sub = state
  BY <1>2, <1>3, <1>4 DEF SetSubscription, EventUnref, y
<1> QED BY <1>2, <1>3, <1>4, <1>5 DEF Going, Later

\* A handler that leaves a going event keeps the invariant: it is not destroyed
\* while the core holds its reference.
LEMMA ChangeGoing ==
  ASSUME NEW e \in Event, NEW y, IInv, IInv', GoingInv, y \in EventType, Going(y),
         Change(e, y)
  PROVE  GoingInv'
<1>1. ev' = [ev EXCEPT ![e] = Settled(y)] /\ ev \in [Event -> EventType]
  BY DEF Change, IInv, EventsTypeOK
<1>2. ev'[e] = Settled(y) /\ BalancedEvent(Settled(y))
  BY <1>1 DEF IInv, EventInv, Sound
<1>3. Going(Settled(y))
  <2>1. CASE y.refs = 0 /\ y.app = 0
    BY <2>1 DEF Settled, Going, NoEvent, NewEvent
  <2>2. CASE y.refs = 0 /\ y.app # 0
    <3> DEFINE z == [y EXCEPT !.sent = "none", !.refresher = "off"]
    <3>1. /\ Settled(y) = z /\ z.dir = y.dir /\ z.sub = y.sub /\ z.refs = y.refs
          /\ z.app = y.app /\ z.revived = y.revived /\ y.app \in Nat
      BY <2>2 DEF Settled, EventType
    <3> HIDE DEF z
    <3>2. y.sub # "OutgoingInit"
      BY <1>2, <2>2, <3>1 DEF BalancedEvent, EventOver, Going
    <3> QED BY <3>1, <3>2 DEF Going
  <2>3. CASE y.refs # 0
    BY <2>3 DEF Settled
  <2> QED BY <2>1, <2>2, <2>3
<1> QED BY <1>1, <1>2, <1>3 DEF GoingInv

\* Each handler ends in a later state, has no subscription, or leaves the state and
\* the SUBSCRIBE that is unanswered.
LEMMA LaterGoing ==
  ASSUME NEW e \in Event, NEW x, NEW state \in Later, IInv, IInv', GoingInv,
         x \in EventType, x.refs > 0, Change(e, SetSubscription(x, state))
  PROVE  GoingInv'
BY SetSubscriptionGoing, ChangeGoing

LEMMA SameGoing ==
  ASSUME NEW e \in Event, NEW y, IInv, IInv', GoingInv, y \in EventType,
         Change(e, y), y.dir = ev[e].dir, y.sub = ev[e].sub, y.revived = ev[e].revived,
         ev[e].sub # "OutgoingInit" \/ y.sent = ev[e].sent
  PROVE  GoingInv'
<1>1. Going(y)
  BY DEF Going, GoingInv
<1> QED BY <1>1, ChangeGoing

\* A PUBLISH has no subscription.
LEMMA SetPublishGoing ==
  ASSUME NEW e \in Event, NEW x, NEW state \in PublishState, IInv, IInv', GoingInv,
         x \in EventType, x.refs > 0, x.dir = "Publish", x.sub = "None",
         Change(e, SetPublish(x, state))
  PROVE  GoingInv'
<1> DEFINE y == [x EXCEPT !.pub = state, !.revived = @ \/ EventOver(x)]
<1>1. EventOver(x) \in BOOLEAN /\ x.refs \in Nat \ {0}
  BY DEF EventOver, EventType
<1>2. y \in EventType /\ y.sub = "None" /\ y.dir = "Publish" /\ y.refs = x.refs
  BY <1>1 DEF EventType
<1> HIDE DEF y
<1> DEFINE z == [y EXCEPT !.refs = @ - 1]
<1>3. z \in EventType /\ z.sub = "None" /\ z.dir = "Publish"
  BY <1>1, <1>2 DEF EventType
<1>4. z = EventUnref(y)
  BY DEF EventUnref
<1> HIDE DEF z
<1>5. SetPublish(x, state) \in {x, y, z}
  BY <1>4 DEF SetPublish, y
<1>6. SetPublish(x, state) \in EventType /\ Going(SetPublish(x, state))
  BY <1>2, <1>3, <1>5 DEF Going
<1> QED BY <1>6, ChangeGoing

LEMMA ApplicationGoing ==
  ASSUME NEW e \in Event, IInv, IInv', GoingInv, EventByApplication(e)
  PROVE  GoingInv'
<1>1. ev[e] \in EventType /\ Kind(ev[e]) /\ Quiet(ev[e], ev[e])
  BY EventFound
<1>2. ASSUME NEW dir \in {"Incoming", "Outgoing", "Publish"}, NEW oneShot \in BOOLEAN,
             NEW manual \in BOOLEAN
      PROVE  LET x == NewEvent(dir, oneShot, manual)
             IN  /\ x \in EventType /\ x.refs = 1 /\ x.dir = dir /\ x.sub = "None"
                 /\ Going(x)
  BY NewEventSound DEF Sound, Going, NewEvent
<1>3. ASSUME CreateSubscribe(e) PROVE GoingInv'
  <2>1. PICK manual \in BOOLEAN : Change(e, NewEvent("Outgoing", FALSE, manual))
    BY <1>3 DEF CreateSubscribe
  <2> QED BY <1>2, <2>1, ChangeGoing
<1>4. ASSUME CreatePublish(e) PROVE GoingInv'
  <2>1. PICK oneShot \in BOOLEAN, manual \in BOOLEAN :
          Change(e, NewEvent("Publish", oneShot, manual))
    BY <1>4 DEF CreatePublish
  <2> QED BY <1>2, <2>1, ChangeGoing
<1>5. ASSUME SendSubscribe(e) PROVE GoingInv'
  <2> DEFINE x == SendRefreshed(ev[e], "subscribe")
             y == [x EXCEPT !.sub = "OutgoingInit", !.revived = @ \/ EventOver(x)]
  <2>1. ev[e].dir = "Outgoing" /\ ev[e].sub # "OutgoingInit"
    BY <1>5 DEF SendSubscribe
  <2>2. x \in EventType /\ Quiet(ev[e], x)
    BY <1>1, <2>1, SendRefreshedQuiet
  <2>3. x.sent = "subscribe"
    BY <1>1 DEF SendRefreshed, EventType
  <2>4. \/ ev[e].sub = "None" /\ Change(e, SetSubscription(x, "OutgoingInit"))
        \/ Change(e, x)
    BY <1>5 DEF SendSubscribe
  <2> HIDE DEF x
  <2>5. CASE ev[e].sub = "None" /\ Change(e, SetSubscription(x, "OutgoingInit"))
    <3>1. /\ x.sub = "None" /\ x.dir = "Outgoing" /\ ~x.revived /\ ~EventOver(x)
          /\ EventOver(x) \in BOOLEAN
      BY <2>1, <2>2, <2>5 DEF Quiet, GoingInv, Going, EventOver
    <3>2. /\ y \in EventType /\ y.sub = "OutgoingInit" /\ y.dir = "Outgoing"
          /\ y.sent = "subscribe" /\ ~y.revived
      BY <2>2, <2>3, <3>1 DEF EventType, SubscriptionState
    <3>3. SetSubscription(x, "OutgoingInit") = y
      BY <3>1 DEF SetSubscription
    <3> HIDE DEF y
    <3>4. Change(e, y) /\ Going(y)
      BY <2>5, <3>2, <3>3 DEF Going
    <3> QED BY <3>2, <3>4, ChangeGoing
  <2>6. CASE Change(e, x)
    BY <2>1, <2>2, <2>6, SameGoing DEF Quiet
  <2> QED BY <2>4, <2>5, <2>6
<1>6. ASSUME AnswerSubscription(e) PROVE GoingInv'
  <2>1. PICK state \in {"Active", "Terminated"} : Change(e, SetSubscription(ev[e], state))
    BY <1>6 DEF AnswerSubscription
  <2>2. ev[e].refs > 0 /\ state \in Later
    BY <1>6 DEF AnswerSubscription, Alive, Later, SubscriptionState
  <2> QED BY <1>1, <2>1, <2>2, LaterGoing
<1>7. ASSUME TerminateEvent(e) PROVE GoingInv'
  <2>1. PICK y \in EventType :
          /\ Quiet(ev[e], y)
          /\ Change(e, CASE y.pub # "None" -> SetPublish(y, "Cleared")
                         [] y.pub = "None" /\ y.sub # "None" ->
                              SetSubscription(y, "Terminated")
                         [] OTHER -> y)
    BY <1>7, TerminateQuiet
  <2>2. y.refs > 0 /\ ~Unused(e)
    BY <1>7, <2>1 DEF TerminateEvent, Alive, Quiet
  <2>3. CASE y.pub # "None"
    <3>1. y.dir = "Publish" /\ y.sub = "None"
      BY <1>1, <2>1, <2>2, <2>3 DEF Quiet, Kind, Unused, EventType
    <3>2. Change(e, SetPublish(y, "Cleared")) /\ "Cleared" \in PublishState
      BY <2>1, <2>3 DEF PublishState
    <3> QED BY <2>2, <3>1, <3>2, SetPublishGoing
  <2>4. CASE y.pub = "None" /\ y.sub # "None"
    <3>1. Change(e, SetSubscription(y, "Terminated")) /\ "Terminated" \in Later
      BY <2>1, <2>4 DEF Later, SubscriptionState
    <3> QED BY <2>2, <3>1, LaterGoing
  <2>5. CASE y.pub = "None" /\ y.sub = "None"
    <3>1. Change(e, y) /\ ev[e].sub # "OutgoingInit"
      BY <2>1, <2>5 DEF Quiet
    <3> QED BY <2>1, <3>1, SameGoing DEF Quiet
  <2> QED BY <2>3, <2>4, <2>5
<1>8. ASSUME RefEvent(e) \/ UnrefEvent(e) PROVE GoingInv'
  <2>1. ev[e].refs \in Nat \ {0} /\ ev[e].app \in Nat
    BY <1>1, <1>8 DEF RefEvent, UnrefEvent, Alive, EventType
  <2>2. PICK refs \in Nat, app \in Nat :
          Change(e, [ev[e] EXCEPT !.refs = refs, !.app = app])
    <3>1. CASE RefEvent(e)
      <4>1. Change(e, [ev[e] EXCEPT !.refs = ev[e].refs + 1, !.app = ev[e].app + 1])
        BY <3>1 DEF RefEvent
      <4>2. ev[e].refs + 1 \in Nat /\ ev[e].app + 1 \in Nat
        BY <2>1
      <4> QED BY <4>1, <4>2
    <3>2. CASE UnrefEvent(e)
      <4>1. ev[e].app > 0 /\ Change(e, EventUnref([ev[e] EXCEPT !.app = @ - 1]))
        BY <3>2 DEF UnrefEvent
      <4>2. EventUnref([ev[e] EXCEPT !.app = @ - 1])
              = [ev[e] EXCEPT !.refs = ev[e].refs - 1, !.app = ev[e].app - 1]
        BY <1>1 DEF EventUnref, EventType
      <4>3. ev[e].refs - 1 \in Nat /\ ev[e].app - 1 \in Nat
        BY <2>1, <4>1
      <4> QED BY <4>1, <4>2, <4>3
    <3> QED BY <1>8, <3>1, <3>2
  <2> DEFINE y == [ev[e] EXCEPT !.refs = refs, !.app = app]
  <2>3. /\ y \in EventType /\ y.dir = ev[e].dir /\ y.sub = ev[e].sub
        /\ y.revived = ev[e].revived /\ y.sent = ev[e].sent
    BY <1>1 DEF EventType
  <2>4. Change(e, y)
    BY <2>2
  <2> HIDE DEF y
  <2> QED BY <2>3, <2>4, SameGoing
<1>9. ASSUME NEW built \in BOOLEAN, SendEventPublish(e, built) PROVE GoingInv'
  <2>1. ev[e].dir = "Publish" /\ ev[e].sub = "None" /\ ev[e].refs > 0
    BY <1>1, <1>9 DEF SendEventPublish, Kind, Alive
  <2>2. Published(ev[e]) \in EventType /\ Quiet(ev[e], Published(ev[e]))
    BY <1>1, <2>1, PublishedQuiet
  <2>3. \/ Change(e, SetPublish(Published(ev[e]), "Progress"))
        \/ Change(e, SetPublish(ev[e], "Error"))
    BY <1>9 DEF SendEventPublish
  <2>4. "Progress" \in PublishState /\ "Error" \in PublishState
    BY DEF PublishState
  <2>5. /\ Published(ev[e]).dir = "Publish" /\ Published(ev[e]).sub = "None"
        /\ Published(ev[e]).refs > 0
    BY <2>1, <2>2 DEF Quiet
  <2> QED BY <1>1, <2>1, <2>2, <2>3, <2>4, <2>5, SetPublishGoing
<1>10. ASSUME NEW built \in BOOLEAN, PublishNow(e, built) PROVE GoingInv'
  <2>1. PICK oneShot \in BOOLEAN, manual \in BOOLEAN :
          LET x == NewEvent("Publish", oneShot, manual)
          IN  \/ Change(e, SetPublish(Published(x), "Progress"))
              \/ Change(e, EventUnref(x))
    BY <1>10 DEF PublishNow
  <2> DEFINE x == NewEvent("Publish", oneShot, manual)
  <2>2. x \in EventType /\ x.refs = 1 /\ x.dir = "Publish" /\ x.sub = "None"
    BY <1>2
  <2>3. Change(e, SetPublish(Published(x), "Progress")) \/ Change(e, EventUnref(x))
    BY <2>1
  <2> HIDE DEF x
  <2>4. Published(x) \in EventType /\ Quiet(x, Published(x)) /\ "Progress" \in PublishState
    BY <2>2, PublishedQuiet DEF PublishState
  <2>5. /\ Published(x).dir = "Publish" /\ Published(x).sub = "None"
        /\ Published(x).refs > 0
    BY <2>2, <2>4 DEF Quiet
  <2>6. EventUnref(x) \in EventType /\ Going(EventUnref(x))
    BY <2>2 DEF EventUnref, EventType, Going
  <2> QED BY <2>3, <2>4, <2>5, <2>6, SetPublishGoing, ChangeGoing
<1> QED BY <1>3, <1>4, <1>5, <1>6, <1>7, <1>8, <1>9, <1>10 DEF EventByApplication

LEMMA SipGoing ==
  ASSUME NEW e \in Event, IInv, IInv', GoingInv, EventBySip(e)
  PROVE  GoingInv'
<1>1. /\ ev[e] \in EventType /\ Kind(ev[e])
      /\ ev[e].sent # "none" => Alive(e)
      /\ ev[e].sent \in {"subscribe", "unsubscribe"} => ev[e].dir = "Outgoing"
      /\ ev[e].sent = "publish" => ev[e].dir = "Publish"
  BY EventFound
<1>2. Alive(e) => ev[e].refs > 0 /\ ev[e].dir # "unused"
  BY DEF Alive, Unused
<1>3. ASSUME SubscribeAnswered(e) PROVE GoingInv'
  <2> DEFINE y == [ev[e] EXCEPT !.sent = "none", !.dialog = TRUE]
  <2>1. ev[e].refs > 0
    BY <1>1, <1>2, <1>3 DEF SubscribeAnswered
  <2>2. y \in EventType /\ y.refs > 0
    BY <1>1, <2>1 DEF EventType
  <2>3. \/ \E state \in {"Active", "Pending"} : Change(e, SetSubscription(y, state))
        \/ \E how \in EventFailure :
             Change(e, SetSubscription(RefusedRefresh(ev[e], how), "Error"))
    BY <1>3 DEF SubscribeAnswered, SubscribeFailed
  <2> HIDE DEF y
  <2>4. {"Active", "Pending", "Error"} \subseteq Later
    BY DEF Later, SubscriptionState
  <2>5. ASSUME NEW how \in EventFailure
        PROVE  RefusedRefresh(ev[e], how) \in EventType /\ RefusedRefresh(ev[e], how).refs > 0
    BY <1>1, <2>1, RefusedRefreshQuiet DEF Quiet
  <2> QED BY <2>2, <2>3, <2>4, <2>5, LaterGoing
<1>4. ASSUME EventNotified(e) PROVE GoingInv'
  <2>1. PICK state \in {"Active", "Terminated"} : Change(e, SetSubscription(ev[e], state))
    BY <1>4 DEF EventNotified
  <2>2. ev[e].refs > 0 /\ state \in Later
    BY <1>2, <1>4 DEF EventNotified, Later, SubscriptionState
  <2> QED BY <1>1, <2>1, <2>2, LaterGoing
<1>5. ASSUME NotifiedOutOfDialog(e) PROVE GoingInv'
  <2> DEFINE x == NewEvent("Outgoing", FALSE, FALSE)
  <2>1. PICK state \in {"Active", "Terminated"} : Change(e, SetSubscription(x, state))
    BY <1>5 DEF NotifiedOutOfDialog
  <2>2. Sound(x) /\ x.refs = 1
    BY NewEventSound
  <2> HIDE DEF x
  <2>4. x \in EventType /\ x.refs > 0
    BY <2>2 DEF Sound
  <2>3. state \in Later
    BY DEF Later, SubscriptionState
  <2> QED BY <2>1, <2>3, <2>4, LaterGoing
<1>6. ASSUME SubscriptionReceived(e) PROVE GoingInv'
  <2> DEFINE x == NewEvent("Incoming", FALSE, FALSE)
             y == [x EXCEPT !.dialog = TRUE]
  <2>1. Change(e, SetSubscription(y, "IncomingReceived"))
    BY <1>6 DEF SubscriptionReceived
  <2>2. x \in EventType /\ x.refs = 1
    BY NewEventSound DEF Sound
  <2> HIDE DEF x
  <2>3. y \in EventType /\ y.refs = 1
    BY <2>2 DEF EventType
  <2>5. y.refs > 0
    BY <2>3
  <2> HIDE DEF y
  <2>4. "IncomingReceived" \in Later
    BY DEF Later, SubscriptionState
  <2> QED BY <2>1, <2>3, <2>4, <2>5, LaterGoing
<1>7. ASSUME SubscriptionClosed(e) PROVE GoingInv'
  <2>1. Change(e, SetSubscription(ev[e], "Terminated")) /\ ev[e].refs > 0
    BY <1>2, <1>7 DEF SubscriptionClosed
  <2>2. "Terminated" \in Later
    BY DEF Later, SubscriptionState
  <2> QED BY <1>1, <2>1, <2>2, LaterGoing
<1>8. ASSUME EventDialogTerminated(e) PROVE GoingInv'
  <2> DEFINE y == [ev[e] EXCEPT !.dialog = FALSE]
  <2>1. /\ y \in EventType /\ y.dir = ev[e].dir /\ y.sub = ev[e].sub
        /\ y.revived = ev[e].revived /\ y.sent = ev[e].sent
    BY <1>1 DEF EventType
  <2>2. Change(e, y)
    BY <1>8 DEF EventDialogTerminated
  <2> HIDE DEF y
  <2> QED BY <2>1, <2>2, SameGoing
<1>9. ASSUME PublishAnswered(e) PROVE GoingInv'
  <2> DEFINE y == [ev[e] EXCEPT !.sent = "none"]
  <2>1. ev[e].dir = "Publish" /\ ev[e].sub = "None" /\ ev[e].refs > 0
    BY <1>1, <1>2, <1>9 DEF PublishAnswered, Kind
  <2>2. y \in EventType /\ y.dir = "Publish" /\ y.sub = "None" /\ y.refs > 0
    BY <1>1, <2>1 DEF EventType
  <2>3. \/ \E state \in PublishState : Change(e, SetPublish(y, state))
        \/ \E how \in EventFailure, state \in PublishState :
             Change(e, SetPublish(RefusedRefresh(ev[e], how), state))
    BY <1>9 DEF PublishAnswered, PublishState
  <2> HIDE DEF y
  <2>4. ASSUME NEW how \in EventFailure
        PROVE  LET z == RefusedRefresh(ev[e], how)
               IN  z \in EventType /\ z.dir = "Publish" /\ z.sub = "None" /\ z.refs > 0
    BY <1>1, <2>1, RefusedRefreshQuiet DEF Quiet
  <2> QED BY <2>2, <2>3, <2>4, SetPublishGoing
<1>10. ASSUME EventExpires(e) PROVE GoingInv'
  <2>1. ev[e].refs > 0
    BY <1>2, <1>10 DEF EventExpires
  <2>2. Change(e, CASE ev[e].pub = "Ok" -> SetPublish(ev[e], "Expiring")
                    [] ev[e].pub # "Ok" /\ ev[e].sub = "Active" ->
                         SetSubscription(ev[e], "Expiring")
                    [] OTHER -> ev[e])
    BY <1>10 DEF EventExpires
  <2>3. CASE ev[e].pub = "Ok"
    <3>1. Change(e, SetPublish(ev[e], "Expiring")) /\ "Expiring" \in PublishState
      BY <2>2, <2>3 DEF PublishState
    <3>2. ev[e].dir = "Publish" /\ ev[e].sub = "None"
      BY <1>1, <1>2, <1>10, <2>3 DEF Kind, EventExpires
    <3> QED BY <1>1, <2>1, <3>1, <3>2, SetPublishGoing
  <2>4. CASE ev[e].pub # "Ok" /\ ev[e].sub = "Active"
    <3>1. Change(e, SetSubscription(ev[e], "Expiring")) /\ "Expiring" \in Later
      BY <2>2, <2>4 DEF Later, SubscriptionState
    <3> QED BY <1>1, <2>1, <3>1, LaterGoing
  <2>5. CASE ev[e].pub # "Ok" /\ ev[e].sub # "Active"
    <3>1. Change(e, ev[e])
      BY <2>2, <2>5
    <3> QED BY <1>1, <3>1, SameGoing
  <2> QED BY <2>3, <2>4, <2>5
<1>11. ASSUME EventRefreshed(e) PROVE GoingInv'
  <2> DEFINE sent == IF ev[e].dir = "Publish" THEN "publish" ELSE "subscribe"
             y == [ev[e] EXCEPT !.sent = sent]
  <2>1. /\ y \in EventType /\ y.dir = ev[e].dir /\ y.sub = ev[e].sub
        /\ y.revived = ev[e].revived
    BY <1>1 DEF EventType
  <2>2. Change(e, y) /\ ev[e].sent = "none"
    BY <1>11 DEF EventRefreshed
  <2>3. ev[e].sub # "OutgoingInit"
    BY <2>2 DEF GoingInv, Going
  <2> HIDE DEF y
  <2> QED BY <2>1, <2>2, <2>3, SameGoing
<1> QED BY <1>3, <1>4, <1>5, <1>6, <1>7, <1>8, <1>9, <1>10, <1>11 DEF EventBySip

LEMMA NextGoing == IInv /\ IInv' /\ GoingInv /\ [EventsNext]_ev => GoingInv'
<1> SUFFICES ASSUME IInv, IInv', GoingInv, [EventsNext]_ev PROVE GoingInv'
  OBVIOUS
<1>1. CASE UNCHANGED ev
  BY <1>1 DEF GoingInv, Going
<1> QED BY <1>1, ApplicationGoing, SipGoing DEF EventsNext

\* An event keeps its type, whatever the application and the far end do.
THEOREM EventsTypeCorrect == EventsSpec => []EventsTypeOK
<1>1. IInv => EventsTypeOK
  BY DEF IInv
<1> QED BY <1>1, Inductive, PTL

\* linphone_event_set_state() and linphone_event_set_publish_state() give up the
\* reference of the core exactly when the event is over.
THEOREM EventsBalanced == EventsSpec => []ReferenceBalance
<1>1. IInv => ReferenceBalance
  BY DEF IInv, EventInv, Sound, ReferenceBalance
<1> QED BY <1>1, Inductive, PTL

\* An event that refuses to be sent again, since its SUBSCRIBE is going on, has one
\* that is unanswered: subscribe_response() or notify() will take it out of there.
THEOREM EventsInitGoesOn == EventsSpec => []InitIsGoingOn
<1>1. EventsInit => GoingInv
  <2>1. NoEvent.sub = "None" /\ NoEvent.dir = "unused"
    BY DEF NoEvent, NewEvent
  <2> QED BY <2>1 DEF EventsInit, GoingInv, Going
<1>2. EventsSpec => []GoingInv
  BY <1>1, Inductive, NextGoing, PTL DEF EventsSpec
<1>3. GoingInv => InitIsGoingOn
  BY DEF GoingInv, Going, InitIsGoingOn
<1> QED BY <1>2, <1>3, PTL

-----------------------------------------------------------------------------
(* The memory of the identifiers                                           *)

\* What is remembered agrees with what was given, but for its last element, which a
\* duplicate may have taken away.
Agrees ==
  /\ ids \in Seq(MsgId) /\ Len(ids) <= MaxIds
  /\ accepted \in Seq(MsgId) /\ Len(accepted) <= MaxIds
  /\ \A i \in 1..Len(accepted) : i < MaxIds => i <= Len(ids) /\ ids[i] = accepted[i]

MemoryInv == Agrees /\ RecentAreDistinct

LEMMA FrontProperties ==
  ASSUME NEW S, NEW s \in Seq(S), Len(s) > 0
  PROVE  /\ Front(s) \in Seq(S) /\ Len(Front(s)) = Len(s) - 1
         /\ \A i \in 1..(Len(s) - 1) : Front(s)[i] = s[i]
<1> DEFINE n == Len(s) - 1
<1>1. n \in Nat /\ n + 1 = Len(s) /\ \A i \in 1..Len(s) : s[i] \in S
  BY LenProperties, ElementOfSeq
<1>2. Front(s) = SubSeq(s, 1, n)
  BY DEF Front
<1> HIDE DEF n
<1>3. \A i \in 1..n : s[i] \in S
  BY <1>1
<1>4. /\ SubSeq(s, 1, n) \in Seq(S)
      /\ Len(SubSeq(s, 1, n)) = IF 1 <= n THEN n - 1 + 1 ELSE 0
      /\ \A i \in 1..(n - 1 + 1) : SubSeq(s, 1, n)[i] = s[1 + i - 1]
  BY <1>1, <1>3, SubSeqProperties
<1>5. Len(SubSeq(s, 1, n)) = n
  BY <1>1, <1>4
<1>6. \A i \in 1..n : SubSeq(s, 1, n)[i] = s[i]
  BY <1>1, <1>4
<1> QED BY <1>1, <1>2, <1>4, <1>5, <1>6

\* The identifiers after one is put in front of them.
LEMMA PutInFront ==
  ASSUME NEW S, NEW s \in Seq(S), NEW id \in S
  PROVE  /\ <<id>> \o s \in Seq(S) /\ Len(<<id>> \o s) = Len(s) + 1
         /\ (<<id>> \o s)[1] = id
         /\ \A i \in 1..Len(s) : (<<id>> \o s)[i + 1] = s[i]
<1>1. <<id>> \in Seq(S) /\ Len(<<id>>) = 1 /\ <<id>>[1] = id /\ Len(s) \in Nat
  BY LenProperties
<1>2. /\ <<id>> \o s \in Seq(S) /\ Len(<<id>> \o s) = Len(<<id>>) + Len(s)
      /\ \A i \in 1..(Len(<<id>>) + Len(s)) :
           (<<id>> \o s)[i] = IF i <= Len(<<id>>) THEN <<id>>[i] ELSE s[i - Len(<<id>>)]
  BY <1>1, ConcatProperties
<1> QED BY <1>1, <1>2

\* What is_duplicate_msg() makes of a list of at most MaxIds identifiers.
Remembers(seen, known, id) ==
  /\ seen.known \in Seq(MsgId) /\ Len(seen.known) <= MaxIds
  /\ seen.duplicate =>
       \A i \in 1..Len(known) : i < MaxIds =>
         i <= Len(seen.known) /\ seen.known[i] = known[i]
  /\ ~seen.duplicate =>
       /\ \A i \in 1..Len(known) : known[i] # id
       /\ 1 <= Len(seen.known) /\ seen.known[1] = id
       /\ \A i \in 1..Len(known) : i + 1 <= MaxIds =>
            i + 1 <= Len(seen.known) /\ seen.known[i + 1] = known[i]

LEMMA LookedUpRemembers ==
  ASSUME NEW known \in Seq(MsgId), NEW id \in MsgId, Len(known) <= MaxIds
  PROVE  Remembers(LookedUp(known, id), known, id)
<1> DEFINE added == <<id>> \o known
<1>1. MaxIds \in Nat \ {0} /\ Len(known) \in Nat
  BY ChatAssumption, LenProperties
<1>2. /\ added \in Seq(MsgId) /\ Len(added) = Len(known) + 1 /\ added[1] = id
      /\ \A i \in 1..Len(known) : added[i + 1] = known[i]
  BY PutInFront
<1>3. /\ Front(added) \in Seq(MsgId) /\ Len(Front(added)) = Len(known)
      /\ \A i \in 1..Len(known) : Front(added)[i] = added[i]
  <2>1. Len(added) > 0 /\ Len(added) - 1 = Len(known)
    BY <1>1, <1>2
  <2> HIDE DEF added
  <2> QED BY <1>2, <2>1, FrontProperties
<1>4. Len(known) > 0 =>
        /\ Front(known) \in Seq(MsgId) /\ Len(Front(known)) = Len(known) - 1
        /\ \A i \in 1..(Len(known) - 1) : Front(known)[i] = known[i]
  BY FrontProperties
<1> DEFINE duplicate == \E i \in 1..Len(known) : known[i] = id
           seen == LookedUp(known, id)
<1>5. /\ seen.duplicate = duplicate
      /\ seen.known = IF Len(known) >= MaxIds
                      THEN Front(IF duplicate THEN known ELSE added)
                      ELSE IF duplicate THEN known ELSE added
  BY DEF LookedUp, Contains
<1> HIDE DEF added, seen
<1> SUFFICES Remembers(seen, known, id)
  BY DEF seen
<1>6. CASE duplicate /\ Len(known) >= MaxIds
  <2>1. seen.duplicate /\ seen.known = Front(known)
    BY <1>5, <1>6
  <2> QED BY <1>1, <1>4, <1>6, <2>1 DEF Remembers
<1>7. CASE duplicate /\ ~(Len(known) >= MaxIds)
  <2>1. seen.duplicate /\ seen.known = known
    BY <1>5, <1>7
  <2> QED BY <1>1, <2>1 DEF Remembers
<1>8. CASE ~duplicate /\ Len(known) >= MaxIds
  <2>1. ~seen.duplicate /\ seen.known = Front(added)
    BY <1>5, <1>8
  <2>2. \A i \in 1..Len(known) : known[i] # id
    BY <1>8
  <2> HIDE DEF duplicate
  <2> QED BY <1>1, <1>2, <1>3, <1>8, <2>1, <2>2 DEF Remembers
<1>9. CASE ~duplicate /\ ~(Len(known) >= MaxIds)
  <2>1. ~seen.duplicate /\ seen.known = added
    BY <1>5, <1>9
  <2>2. \A i \in 1..Len(known) : known[i] # id
    BY <1>9
  <2> HIDE DEF duplicate
  <2> QED BY <1>1, <1>2, <1>9, <2>1, <2>2 DEF Remembers
<1> QED BY <1>6, <1>7, <1>8, <1>9

\* text_received() of one more MESSAGE.
LEMMA ReceivedKeeps ==
  ASSUME NEW id \in MsgId, MemoryInv, Received(id)
  PROVE  MemoryInv'
<1> DEFINE seen == LookedUp(ids, id)
           given == <<id>> \o accepted
<1>1. /\ ids \in Seq(MsgId) /\ Len(ids) <= MaxIds /\ Len(ids) \in Nat
      /\ accepted \in Seq(MsgId) /\ Len(accepted) <= MaxIds /\ Len(accepted) \in Nat
      /\ MaxIds \in Nat \ {0}
  BY ChatAssumption, LenProperties DEF MemoryInv, Agrees
<1>2. \A i \in 1..Len(accepted) : i < MaxIds => i <= Len(ids) /\ ids[i] = accepted[i]
  BY DEF MemoryInv, Agrees
<1>3. \A i, j \in 1..Len(accepted) : accepted[i] = accepted[j] => i = j
  BY DEF MemoryInv, RecentAreDistinct
<1>4. Remembers(seen, ids, id)
  BY <1>1, LookedUpRemembers
<1>5. /\ given \in Seq(MsgId) /\ Len(given) = Len(accepted) + 1 /\ given[1] = id
      /\ \A i \in 1..Len(accepted) : given[i + 1] = accepted[i]
  BY <1>1, PutInFront
<1>6. /\ ids' = seen.known
      /\ accepted' = IF seen.duplicate THEN accepted
                     ELSE IF Len(given) > MaxIds THEN Front(given) ELSE given
  BY DEF Received
<1> HIDE DEF seen, given
<1>7. CASE seen.duplicate
  <2>1. accepted' = accepted
    BY <1>6, <1>7
  <2>2. \A i \in 1..Len(accepted) : i < MaxIds =>
          i <= Len(ids') /\ (ids')[i] = accepted[i]
    BY <1>1, <1>2, <1>4, <1>6, <1>7 DEF Remembers
  <2>3. ids' \in Seq(MsgId) /\ Len(ids') <= MaxIds
    BY <1>4, <1>6 DEF Remembers
  <2> QED BY <1>1, <1>3, <2>1, <2>2, <2>3 DEF MemoryInv, Agrees, RecentAreDistinct
<1>8. CASE ~seen.duplicate
  <2>1. /\ ids' \in Seq(MsgId) /\ Len(ids') <= MaxIds
        /\ \A i \in 1..Len(ids) : ids[i] # id
        /\ 1 <= Len(ids') /\ (ids')[1] = id
        /\ \A i \in 1..Len(ids) : i + 1 <= MaxIds =>
             i + 1 <= Len(ids') /\ (ids')[i + 1] = ids[i]
    BY <1>4, <1>6, <1>8 DEF Remembers
  <2>2. /\ accepted' \in Seq(MsgId) /\ Len(accepted') \in Nat /\ Len(accepted') <= MaxIds
        /\ Len(accepted') <= Len(accepted) + 1
        /\ \A i \in 1..Len(accepted') : (accepted')[i] = given[i]
    <3>1. CASE Len(given) > MaxIds
      <4>1. accepted' = Front(given) /\ Len(given) > 0
        BY <1>1, <1>6, <1>8, <3>1
      <4>2. /\ Front(given) \in Seq(MsgId) /\ Len(Front(given)) = Len(given) - 1
            /\ \A i \in 1..(Len(given) - 1) : Front(given)[i] = given[i]
        BY <1>5, <4>1, FrontProperties
      <4> QED BY <1>1, <1>5, <4>1, <4>2
    <3>2. CASE ~(Len(given) > MaxIds)
      <4>1. accepted' = given
        BY <1>6, <1>8, <3>2
      <4> QED BY <1>1, <1>5, <3>2, <4>1
    <3> QED BY <3>1, <3>2
  <2>3. \A i \in 1..Len(accepted') :
          i = 1 \/ (i - 1 \in 1..Len(accepted) /\ (accepted')[i] = accepted[i - 1])
    BY <1>1, <1>5, <2>2
  <2>4. 1 \in 1..Len(accepted') => (accepted')[1] = id
    BY <1>5, <2>2
  <2>5. ASSUME NEW i \in 1..Len(accepted'), i # 1
        PROVE  /\ i - 1 \in 1..Len(ids) /\ i - 1 < MaxIds
               /\ ids[i - 1] = accepted[i - 1] /\ (accepted')[i] = accepted[i - 1]
    <3>1. i - 1 \in 1..Len(accepted) /\ (accepted')[i] = accepted[i - 1]
      BY <2>3, <2>5
    <3>2. i - 1 < MaxIds
      BY <1>1, <2>2
    <3> QED BY <1>1, <1>2, <3>1, <3>2
  <2>6. \A i \in 1..Len(accepted') : i < MaxIds =>
          i <= Len(ids') /\ (ids')[i] = (accepted')[i]
    <3> SUFFICES ASSUME NEW i \in 1..Len(accepted'), i < MaxIds
                 PROVE  i <= Len(ids') /\ (ids')[i] = (accepted')[i]
      OBVIOUS
    <3>1. CASE i = 1
      BY <2>1, <2>4, <3>1
    <3>2. CASE i # 1
      <4>1. /\ i - 1 \in 1..Len(ids) /\ ids[i - 1] = (accepted')[i]
        BY <2>5, <3>2
      <4>2. (i - 1) + 1 = i
        BY <2>2
      <4> QED BY <1>1, <2>1, <4>1, <4>2
    <3> QED BY <3>1, <3>2
  <2>7. ASSUME NEW i \in 1..Len(accepted'), NEW j \in 1..Len(accepted'),
               (accepted')[i] = (accepted')[j]
        PROVE  i = j
    <3>1. CASE i = 1 /\ j # 1
      BY <2>1, <2>4, <2>5, <2>7, <3>1
    <3>2. CASE i # 1 /\ j = 1
      BY <2>1, <2>4, <2>5, <2>7, <3>2
    <3>3. CASE i # 1 /\ j # 1
      <4>1. i - 1 \in 1..Len(accepted) /\ j - 1 \in 1..Len(accepted)
        BY <2>3, <3>3
      <4>2. accepted[i - 1] = accepted[j - 1]
        BY <2>5, <2>7, <3>3
      <4>3. i - 1 = j - 1
        BY <1>3, <4>1, <4>2
      <4> QED BY <2>2, <4>3
    <3> QED BY <3>1, <3>2, <3>3
  <2> QED BY <2>1, <2>2, <2>6, <2>7 DEF MemoryInv, Agrees, RecentAreDistinct
<1> QED BY <1>7, <1>8

-----------------------------------------------------------------------------
(* The references of a message                                             *)

Uploading(x) == IF x.http \in {"first", "second"} THEN 1 ELSE 0

\* Beside what AwaitedIsHeld says, a message is in the list for each answer to come:
\* the answer gives back the reference of the list too.
Held(x) ==
  /\ x \in MessageType
  /\ x.listed >= x.awaited
  /\ x.refs >= x.app + x.listed + x.awaited + Uploading(x)

HeldInv == msg \in [Message -> MessageType] /\ \A m \in Message : Held(msg[m])

\* What a handler changes of a message.
Counts(x, refs, listed, awaited, app, http) ==
  /\ x \in MessageType /\ x.refs = refs /\ x.listed = listed /\ x.awaited = awaited
  /\ x.app = app /\ x.http = http

LessOne(n) == IF n = 0 THEN 0 ELSE n - 1

LEMMA CountsTyped ==
  ASSUME NEW x \in MessageType
  PROVE  /\ Counts(x, x.refs, x.listed, x.awaited, x.app, x.http)
         /\ x.refs \in Nat /\ x.listed \in Nat /\ x.awaited \in Nat /\ x.app \in Nat
BY DEF Counts, MessageType

LEMMA RefCounts ==
  ASSUME NEW x, NEW refs \in Nat, NEW listed, NEW awaited, NEW app, NEW http,
         Counts(x, refs, listed, awaited, app, http)
  PROVE  /\ Counts(MessageRef(x), refs + 1, listed, awaited, app, http)
         /\ refs > 0 => Counts(MessageUnref(x), refs - 1, listed, awaited, app, http)
BY DEF Counts, MessageRef, MessageUnref, MessageType

LEMMA DeliveredCounts ==
  ASSUME NEW x, NEW refs \in Nat, NEW listed \in Nat, NEW awaited, NEW app, NEW http,
         NEW state \in {"Delivered", "NotDelivered"},
         Counts(x, refs, listed, awaited, app, http), refs > 1
  PROVE  Counts(DeliveryUpdate(x, state), refs - 2, LessOne(listed), awaited, app, http)
<1> DEFINE y == [x EXCEPT !.state = state]
           z == [y EXCEPT !.listed = IF @ = 0 THEN 0 ELSE @ - 1]
<1>1. Counts(y, refs, listed, awaited, app, http) /\ y.state = state
  BY DEF Counts, MessageType, MessageState
<1> HIDE DEF y
<1>2. Counts(z, refs, LessOne(listed), awaited, app, http)
  BY <1>1 DEF Counts, MessageType, LessOne
<1>3. UpdateMessageState(y) = MessageUnref(z)
  BY <1>1 DEF UpdateMessageState
<1> HIDE DEF z
<1>4. Counts(MessageUnref(z), refs - 1, LessOne(listed), awaited, app, http)
  BY <1>2, RefCounts
<1>5. refs - 1 \in Nat /\ refs - 1 > 0 /\ (refs - 1) - 1 = refs - 2
  OBVIOUS
<1>6. Counts(MessageUnref(MessageUnref(z)), refs - 2, LessOne(listed), awaited, app, http)
  BY <1>4, <1>5, RefCounts
<1>7. DeliveryUpdate(x, state) = MessageUnref(MessageUnref(z))
  BY <1>3 DEF DeliveryUpdate, y
<1> QED BY <1>6, <1>7

LEMMA ProgressCounts ==
  ASSUME NEW x, NEW refs, NEW listed, NEW awaited, NEW app, NEW http,
         Counts(x, refs, listed, awaited, app, http)
  PROVE  Counts(DeliveryUpdate(x, "InProgress"), refs, listed, awaited, app, http)
BY DEF DeliveryUpdate, UpdateMessageState, Counts, MessageType, MessageState

\* A message that is to be sent: its request takes the place of the reference that was
\* handed over, or of the upload.
ToSend(x) ==
  /\ x \in MessageType /\ x.http = "none"
  /\ x.listed >= x.awaited
  /\ x.refs >= x.app + x.listed + x.awaited + 1

\* _linphone_chat_room_send_message(), whatever becomes of the MESSAGE.
LEMMA PostedHeld ==
  ASSUME NEW x, NEW lime \in BOOLEAN, NEW fate \in MessageFate, ToSend(x),
         fate = "unencrypted" => lime
  PROVE  Held(Posted(x, lime, fate))
<1> DEFINE more == IF lime THEN 1 ELSE 0
           held == MessageRef(IF lime THEN MessageRef(x) ELSE x)
           sent == CASE fate = "awaited" -> [held EXCEPT !.awaited = @ + 1]
                     [] fate = "lost" -> [held EXCEPT !.lost = TRUE]
                     [] fate = "unencrypted" ->
                          [DeliveryUpdate(held, "NotDelivered") EXCEPT !.lost = TRUE]
           kept == [sent EXCEPT !.listed = @ + 1]
<1>0. Posted(x, lime, fate) = MessageUnref(MessageRef(kept))
  BY DEF Posted
<1>1. /\ Counts(x, x.refs, x.listed, x.awaited, x.app, "none")
      /\ x.refs \in Nat /\ x.listed \in Nat /\ x.awaited \in Nat /\ x.app \in Nat
      /\ more \in {0, 1}
  BY CountsTyped DEF ToSend
<1>2. Counts(held, x.refs + 1 + more, x.listed, x.awaited, x.app, "none")
  <2>1. CASE lime
    <3>1. Counts(MessageRef(x), x.refs + 1, x.listed, x.awaited, x.app, "none")
      BY <1>1, RefCounts
    <3>2. x.refs + 1 \in Nat
      BY <1>1
    <3> QED BY <2>1, <3>1, <3>2, RefCounts
  <2>2. CASE ~lime
    <3>1. Counts(MessageRef(x), x.refs + 1, x.listed, x.awaited, x.app, "none")
      BY <1>1, RefCounts
    <3> QED BY <1>1, <2>2, <3>1
  <2> QED BY <2>1, <2>2
<1> HIDE DEF held, more
<1>3. PICK refs \in Nat, listed \in Nat, awaited \in Nat :
        /\ Counts(sent, refs, listed, awaited, x.app, "none")
        /\ listed + 1 >= awaited /\ refs >= x.app + listed + 1 + awaited
  <2>1. CASE fate = "awaited"
    <3>1. Counts(sent, x.refs + 1 + more, x.listed, x.awaited + 1, x.app, "none")
      BY <1>1, <1>2, <2>1 DEF Counts, MessageType
    <3>2. /\ x.refs + 1 + more \in Nat /\ x.awaited + 1 \in Nat
          /\ x.listed + 1 >= x.awaited + 1
          /\ x.refs + 1 + more >= x.app + x.listed + 1 + (x.awaited + 1)
      BY <1>1 DEF ToSend
    <3> QED BY <1>1, <3>1, <3>2
  <2>2. CASE fate = "lost"
    <3>1. Counts(sent, x.refs + 1 + more, x.listed, x.awaited, x.app, "none")
      BY <1>1, <1>2, <2>2 DEF Counts, MessageType
    <3>2. /\ x.refs + 1 + more \in Nat /\ x.listed + 1 >= x.awaited
          /\ x.refs + 1 + more >= x.app + x.listed + 1 + x.awaited
      BY <1>1 DEF ToSend
    <3> QED BY <1>1, <3>1, <3>2
  <2>3. CASE fate = "unencrypted"
    <3> DEFINE refs == x.refs + 1 + more
    <3>1. refs \in Nat /\ refs > 1 /\ refs - 2 \in Nat /\ LessOne(x.listed) \in Nat
      BY <1>1 DEF ToSend, LessOne
    <3> HIDE DEF refs
    <3>2. Counts(DeliveryUpdate(held, "NotDelivered"), refs - 2, LessOne(x.listed),
                 x.awaited, x.app, "none")
      BY <1>1, <1>2, <3>1, DeliveredCounts DEF refs
    <3>3. Counts(sent, refs - 2, LessOne(x.listed), x.awaited, x.app, "none")
      BY <2>3, <3>2 DEF Counts, MessageType
    <3>4. /\ LessOne(x.listed) + 1 >= x.awaited
          /\ refs - 2 >= x.app + LessOne(x.listed) + 1 + x.awaited
      BY <1>1, <2>3 DEF ToSend, LessOne, refs, more
    <3> QED BY <1>1, <3>1, <3>3, <3>4
  <2> QED BY <2>1, <2>2, <2>3 DEF MessageFate
<1> HIDE DEF sent
<1>4. Counts(kept, refs, listed + 1, awaited, x.app, "none")
  BY <1>3 DEF Counts, MessageType
<1> HIDE DEF kept
<1>5. Counts(MessageRef(kept), refs + 1, listed + 1, awaited, x.app, "none")
  BY <1>3, <1>4, RefCounts
<1>6. Counts(MessageUnref(MessageRef(kept)), refs, listed + 1, awaited, x.app, "none")
  <2>1. refs + 1 \in Nat /\ refs + 1 > 0 /\ (refs + 1) - 1 = refs
    BY <1>3
  <2> QED BY <1>5, <2>1, RefCounts
<1>7. Held(MessageUnref(MessageRef(kept)))
  BY <1>1, <1>3, <1>6 DEF Counts, Held, Uploading
<1> QED BY <1>0, <1>7

\* A handler that leaves a held message keeps the invariant.
LEMMA ShownKeeps ==
  ASSUME NEW m \in Message, NEW y, HeldInv, Held(y), Shown(m, y)
  PROVE  HeldInv'
<1>1. NoMessage \in MessageType
  BY DEF NoMessage, MessageType, MessageState
<1>2. Held(NoMessage)
  BY <1>1 DEF Held, NoMessage, Uploading
<1>3. Held(IF y.refs = 0 THEN NoMessage ELSE y)
  BY <1>2
<1> DEFINE z == IF y.refs = 0 THEN NoMessage ELSE y
<1>4. msg' = [msg EXCEPT ![m] = z] /\ msg \in [Message -> MessageType]
  BY DEF Shown, HeldInv
<1>5. Held(z) /\ z \in MessageType
  BY <1>3 DEF Held
<1> HIDE DEF z
<1> QED BY <1>4, <1>5 DEF HeldInv

\* The counts of a held message, and those that make one.
LEMMA HeldCounts ==
  ASSUME NEW m \in Message, HeldInv
  PROVE  LET x == msg[m]
         IN  /\ x \in MessageType /\ Held(x)
             /\ x.refs \in Nat /\ x.listed \in Nat /\ x.awaited \in Nat /\ x.app \in Nat
             /\ x.listed >= x.awaited
             /\ x.refs >= x.app + x.listed + x.awaited + Uploading(x)
             /\ Counts(x, x.refs, x.listed, x.awaited, x.app, x.http)
BY CountsTyped DEF HeldInv, Held

\* What leaves the counts, or ends a transfer, keeps the message held.
LEMMA SameHeld ==
  ASSUME NEW m \in Message, NEW y, NEW http, HeldInv,
         Counts(y, msg[m].refs, msg[m].listed, msg[m].awaited, msg[m].app, http),
         http \in {"none", "get"} \/ msg[m].http \in {"first", "second"},
         Shown(m, y)
  PROVE  HeldInv'
<1>1. Held(y)
  BY HeldCounts DEF Counts, Held, Uploading
<1> QED BY <1>1, ShownKeeps

\* _linphone_chat_room_send_message()
LEMMA SendsKeeps ==
  ASSUME NEW m \in Message, NEW x, HeldInv, ToSend(x), SendsMessage(m, x)
  PROVE  HeldInv'
<1>1. /\ Counts(x, x.refs, x.listed, x.awaited, x.app, "none")
      /\ x.refs \in Nat /\ x.listed \in Nat /\ x.awaited \in Nat /\ x.app \in Nat
  BY CountsTyped DEF ToSend
<1>2. CASE Shown(m, MessageRef(x))
  <2>1. Counts(MessageRef(x), x.refs + 1, x.listed, x.awaited, x.app, "none")
    BY <1>1, RefCounts
  <2>2. Held(MessageRef(x))
    BY <1>1, <2>1 DEF Counts, Held, ToSend, Uploading
  <2> QED BY <1>2, <2>2, ShownKeeps
<1>3. CASE Shown(m, [x EXCEPT !.http = "first", !.request = TRUE])
  <2> DEFINE y == [x EXCEPT !.http = "first", !.request = TRUE]
  <2>1. Counts(y, x.refs, x.listed, x.awaited, x.app, "first")
    BY <1>1 DEF Counts, MessageType
  <2> HIDE DEF y
  <2>2. Held(y)
    BY <1>1, <2>1 DEF Counts, Held, ToSend, Uploading
  <2> QED BY <1>3, <2>2, ShownKeeps DEF y
<1>4. ASSUME NEW fate \in MessageFate, NEW lime \in BOOLEAN, fate = "unencrypted" => lime,
             Shown(m, Posted(x, lime, fate))
      PROVE  HeldInv'
  BY <1>4, PostedHeld, ShownKeeps
<1> QED BY <1>2, <1>3, <1>4 DEF SendsMessage

-----------------------------------------------------------------------------
(* The steps                                                               *)

LEMMA CreateKeeps ==
  ASSUME NEW m \in Message, HeldInv, CreateMessage(m)
  PROVE  HeldInv'
<1>1. PICK kind \in {"text", "file"} : Shown(m, NewMessage(kind))
  BY DEF CreateMessage
<1>2. Counts(NewMessage(kind), 1, 0, 0, 1, "none")
  BY DEF Counts, NewMessage, NoMessage, MessageType, MessageState
<1>3. Held(NewMessage(kind))
  BY <1>2 DEF Counts, Held, Uploading
<1> QED BY <1>1, <1>3, ShownKeeps

LEMMA SendKeeps ==
  ASSUME NEW m \in Message, HeldInv, SendMessage(m)
  PROVE  HeldInv'
<1> DEFINE y == [msg[m] EXCEPT !.state = "InProgress", !.app = @ - 1, !.sends = @ + 1]
<1>1. msg[m].app > 0 /\ msg[m].http = "none" /\ SendsMessage(m, y)
  BY DEF SendMessage
<1>2. Counts(y, msg[m].refs, msg[m].listed, msg[m].awaited, msg[m].app - 1, "none")
  <2>1. msg[m] \in MessageType /\ msg[m].app - 1 \in Nat /\ msg[m].sends + 1 \in Nat
    BY <1>1, HeldCounts DEF MessageType
  <2>2. \A app, sends \in Nat :
          LET z == [msg[m] EXCEPT !.state = "InProgress", !.app = app, !.sends = sends]
          IN  Counts(z, msg[m].refs, msg[m].listed, msg[m].awaited, app, msg[m].http)
    BY <2>1 DEF Counts, MessageType, MessageState
  <2> QED BY <1>1, <2>1, <2>2
<1> HIDE DEF y
<1>3. ToSend(y)
  BY <1>1, <1>2, HeldCounts DEF Counts, ToSend, Uploading
<1> QED BY <1>1, <1>3, SendsKeeps

LEMMA RefKeeps ==
  ASSUME NEW m \in Message, HeldInv, RefMessage(m) \/ UnrefMessage(m)
  PROVE  HeldInv'
<1>1. CASE RefMessage(m)
  <2> DEFINE y == [msg[m] EXCEPT !.app = @ + 1]
  <2>1. Shown(m, MessageRef(y))
    BY <1>1 DEF RefMessage
  <2>2. Counts(y, msg[m].refs, msg[m].listed, msg[m].awaited, msg[m].app + 1, msg[m].http)
    BY HeldCounts DEF Counts, MessageType
  <2> HIDE DEF y
  <2>3. Counts(MessageRef(y), msg[m].refs + 1, msg[m].listed, msg[m].awaited,
               msg[m].app + 1, msg[m].http)
    BY <2>2, HeldCounts, RefCounts
  <2>4. Held(MessageRef(y))
    BY <2>3, HeldCounts DEF Counts, Held, Uploading
  <2> QED BY <2>1, <2>4, ShownKeeps
<1>2. CASE UnrefMessage(m)
  <2> DEFINE y == [msg[m] EXCEPT !.app = @ - 1]
  <2>1. Shown(m, MessageUnref(y)) /\ msg[m].app > 0
    BY <1>2 DEF UnrefMessage
  <2>2. Counts(y, msg[m].refs, msg[m].listed, msg[m].awaited, msg[m].app - 1, msg[m].http)
    BY <2>1, HeldCounts DEF Counts, MessageType
  <2> HIDE DEF y
  <2>3. msg[m].refs > 0
    BY <2>1, HeldCounts DEF Uploading
  <2>4. Counts(MessageUnref(y), msg[m].refs - 1, msg[m].listed, msg[m].awaited,
               msg[m].app - 1, msg[m].http)
    BY <2>2, <2>3, HeldCounts, RefCounts
  <2>5. Held(MessageUnref(y))
    BY <2>1, <2>4, HeldCounts DEF Counts, Held, Uploading
  <2> QED BY <2>1, <2>5, ShownKeeps
<1> QED BY <1>1, <1>2

LEMMA AnsweredKeeps ==
  ASSUME NEW m \in Message, HeldInv, MessageAnswered(m)
  PROVE  HeldInv'
<1>1. \/ Shown(m, DeliveryUpdate(msg[m], "InProgress"))
      \/ \E state \in {"Delivered", "NotDelivered"} :
           Shown(m, DeliveryUpdate([msg[m] EXCEPT !.awaited = @ - 1], state))
  BY DEF MessageAnswered
<1>2. CASE Shown(m, DeliveryUpdate(msg[m], "InProgress"))
  <2>1. Counts(DeliveryUpdate(msg[m], "InProgress"), msg[m].refs, msg[m].listed,
               msg[m].awaited, msg[m].app, msg[m].http)
    BY HeldCounts, ProgressCounts
  <2>2. Held(DeliveryUpdate(msg[m], "InProgress"))
    BY <2>1, HeldCounts DEF Counts, Held, Uploading
  <2> QED BY <1>2, <2>2, ShownKeeps
<1>3. ASSUME NEW state \in {"Delivered", "NotDelivered"},
             Shown(m, DeliveryUpdate([msg[m] EXCEPT !.awaited = @ - 1], state))
      PROVE  HeldInv'
  <2> DEFINE y == [msg[m] EXCEPT !.awaited = @ - 1]
             z == DeliveryUpdate(y, state)
  <2>1. msg[m].awaited > 0
    BY DEF MessageAnswered
  <2>2. Counts(y, msg[m].refs, msg[m].listed, msg[m].awaited - 1, msg[m].app, msg[m].http)
    BY <2>1, HeldCounts DEF Counts, MessageType
  <2> HIDE DEF y
  <2>3. msg[m].refs > 1 /\ LessOne(msg[m].listed) = msg[m].listed - 1
    BY <2>1, HeldCounts DEF Uploading, LessOne
  <2>4. Counts(z, msg[m].refs - 2, msg[m].listed - 1, msg[m].awaited - 1, msg[m].app,
               msg[m].http)
    BY <2>2, <2>3, HeldCounts, DeliveredCounts
  <2>5. Shown(m, z)
    BY <1>3 DEF y
  <2> HIDE DEF z
  <2>6. Held(z)
    BY <2>1, <2>4, HeldCounts DEF Counts, Held, Uploading
  <2> QED BY <2>5, <2>6, ShownKeeps
<1> QED BY <1>1, <1>2, <1>3

LEMMA UploadKeeps ==
  ASSUME NEW m \in Message, HeldInv, UploadProceeds(m)
  PROVE  HeldInv'
<1> DEFINE x == msg[m]
           sent == [x EXCEPT !.http = "none", !.request = FALSE, !.uploaded = TRUE,
                             !.state = "FileTransferDone"]
<1>1. x.http \in {"first", "second"}
  BY DEF UploadProceeds
<1>2. /\ x \in MessageType
      /\ Counts(x, x.refs, x.listed, x.awaited, x.app, x.http)
  BY HeldCounts
<1>3. \/ Shown(m, [x EXCEPT !.http = "second"])
      \/ SendsMessage(m, sent)
      \/ Shown(m, [x EXCEPT !.http = "none", !.lost = TRUE])
      \/ Shown(m, [x EXCEPT !.http = "none", !.state = "NotDelivered"])
  BY DEF UploadProceeds
<1>4. CASE Shown(m, [x EXCEPT !.http = "second"])
  <2>1. Counts([x EXCEPT !.http = "second"], x.refs, x.listed, x.awaited, x.app, "second")
    BY <1>2 DEF Counts, MessageType
  <2> QED BY <1>1, <1>4, <2>1, SameHeld
<1>5. CASE Shown(m, [x EXCEPT !.http = "none", !.lost = TRUE])
  <2>1. Counts([x EXCEPT !.http = "none", !.lost = TRUE], x.refs, x.listed, x.awaited,
               x.app, "none")
    BY <1>2 DEF Counts, MessageType
  <2> QED BY <1>5, <2>1, SameHeld
<1>6. CASE Shown(m, [x EXCEPT !.http = "none", !.state = "NotDelivered"])
  <2>1. Counts([x EXCEPT !.http = "none", !.state = "NotDelivered"], x.refs, x.listed,
               x.awaited, x.app, "none")
    BY <1>2 DEF Counts, MessageType, MessageState
  <2> QED BY <1>6, <2>1, SameHeld
<1>7. CASE SendsMessage(m, sent)
  <2>1. Counts(sent, x.refs, x.listed, x.awaited, x.app, "none")
    BY <1>2 DEF Counts, MessageType, MessageState
  <2> HIDE DEF sent
  <2>2. ToSend(sent)
    BY <1>1, <2>1, HeldCounts DEF Counts, ToSend, Uploading
  <2> QED BY <1>7, <2>2, SendsKeeps
<1> QED BY <1>3, <1>4, <1>5, <1>6, <1>7

LEMMA DownloadKeeps ==
  ASSUME NEW m \in Message, HeldInv,
         DownloadFile(m) \/ DownloadEnds(m) \/ CancelFileTransfer(m)
  PROVE  HeldInv'
<1> DEFINE x == msg[m]
<1>1. x \in MessageType /\ Counts(x, x.refs, x.listed, x.awaited, x.app, x.http)
  BY HeldCounts
<1>2. CASE DownloadFile(m)
  <2> DEFINE y == [x EXCEPT !.http = "get", !.request = TRUE, !.state = "InProgress"]
  <2>1. Counts(y, x.refs, x.listed, x.awaited, x.app, "get")
    BY <1>1 DEF Counts, MessageType, MessageState
  <2>2. Shown(m, y)
    BY <1>2 DEF DownloadFile
  <2> HIDE DEF y
  <2> QED BY <2>1, <2>2, SameHeld
<1>3. CASE DownloadEnds(m)
  <2>1. PICK state \in {"FileTransferDone", "FileTransferError", "InProgress"} :
          Shown(m, [x EXCEPT !.http = "none", !.state = state])
    BY <1>3 DEF DownloadEnds
  <2> DEFINE y == [x EXCEPT !.http = "none", !.state = state]
  <2>2. Counts(y, x.refs, x.listed, x.awaited, x.app, "none")
    BY <1>1 DEF Counts, MessageType, MessageState
  <2> HIDE DEF y
  <2> QED BY <2>1, <2>2, SameHeld DEF y
<1>4. CASE CancelFileTransfer(m)
  <2> DEFINE y == [x EXCEPT !.http = "none", !.request = FALSE, !.state = "NotDelivered"]
  <2>1. Counts(y, x.refs, x.listed, x.awaited, x.app, "none")
    BY <1>1 DEF Counts, MessageType, MessageState
  <2>2. Shown(m, y)
    BY <1>4 DEF CancelFileTransfer
  <2> HIDE DEF y
  <2> QED BY <2>1, <2>2, SameHeld
<1> QED BY <1>2, <1>3, <1>4

LEMMA FileReceivedKeeps ==
  ASSUME NEW m \in Message, NEW id \in MsgId, HeldInv, FileReceived(m, id)
  PROVE  HeldInv'
<1> DEFINE y == [NewMessage("received") EXCEPT !.state = "Delivered"]
<1>1. Shown(m, y)
  BY DEF FileReceived
<1>2. Counts(y, 1, 0, 0, 1, "none")
  BY DEF Counts, NewMessage, NoMessage, MessageType, MessageState
<1> HIDE DEF y
<1>3. Held(y)
  BY <1>2 DEF Counts, Held, Uploading
<1> QED BY <1>1, <1>3, ShownKeeps

LEMMA NextHeld == HeldInv /\ [ChatNext]_chatVars => HeldInv'
<1> SUFFICES ASSUME HeldInv, [ChatNext]_chatVars PROVE HeldInv'
  OBVIOUS
<1>1. CASE UNCHANGED msg
  BY <1>1 DEF HeldInv, Held
<1>2. ASSUME NEW m \in Message, MessageStep(m) PROVE HeldInv'
  BY <1>2, CreateKeeps, SendKeeps, RefKeeps, AnsweredKeeps, UploadKeeps, DownloadKeeps
     DEF MessageStep
<1>3. CASE ComposingStep
  BY <1>1, <1>3 DEF ComposingStep, Compose, StopComposing, IsComposingReceived,
     RemoteComposingExpires
<1>4. ASSUME NEW id \in MsgId, TextReceived(id) PROVE HeldInv'
  BY <1>1, <1>4 DEF TextReceived
<1> QED BY <1>1, <1>2, <1>3, <1>4, FileReceivedKeeps DEF ChatNext, chatVars

LEMMA NextMemory == MemoryInv /\ [ChatNext]_chatVars => MemoryInv'
<1> SUFFICES ASSUME MemoryInv, [ChatNext]_chatVars PROVE MemoryInv'
  OBVIOUS
<1>1. CASE UNCHANGED <<ids, accepted>>
  BY <1>1 DEF MemoryInv, Agrees, RecentAreDistinct
<1>2. ASSUME NEW m \in Message, NEW x, SendsMessage(m, x)
      PROVE  UNCHANGED <<ids, accepted>>
  BY <1>2 DEF SendsMessage
<1>3. ASSUME NEW m \in Message, MessageStep(m) PROVE MemoryInv'
  <2>1. UNCHANGED <<ids, accepted>>
    BY <1>2, <1>3 DEF MessageStep, CreateMessage, SendMessage, RefMessage, UnrefMessage,
       MessageAnswered, UploadProceeds, DownloadFile, DownloadEnds, CancelFileTransfer
  <2> QED BY <1>1, <2>1
<1>4. CASE ComposingStep
  BY <1>1, <1>4 DEF ComposingStep, Compose, StopComposing, IsComposingReceived,
     RemoteComposingExpires
<1>5. ASSUME NEW id \in MsgId, TextReceived(id) PROVE MemoryInv'
  BY <1>5, ReceivedKeeps DEF TextReceived
<1>6. ASSUME NEW m \in Message, NEW id \in MsgId, FileReceived(m, id) PROVE MemoryInv'
  BY <1>6, ReceivedKeeps DEF FileReceived
<1> QED BY <1>1, <1>3, <1>4, <1>5, <1>6 DEF ChatNext, chatVars

\* The answer to a MESSAGE, and the end of an upload, find the message: its references
\* cover what they give back, whatever text_delivery_update() has been told before.
THEOREM AwaitedMessagesAreHeld == ChatSpec => []AwaitedIsHeld
<1>1. ChatInit => HeldInv
  <2>1. NoMessage \in MessageType
    BY DEF NoMessage, MessageType, MessageState
  <2>2. Held(NoMessage)
    BY <2>1 DEF Held, NoMessage, Uploading
  <2> QED BY <2>1, <2>2 DEF ChatInit, HeldInv
<1>2. HeldInv => AwaitedIsHeld
  BY DEF HeldInv, Held, AwaitedIsHeld, Uploading
<1> QED BY <1>1, <1>2, NextHeld, PTL DEF ChatSpec

\* is_duplicate_msg() lets no MESSAGE through twice among the last MaxIds it has let
\* through, although each duplicate may shorten its list.
THEOREM RecentMessagesAreDistinct == ChatSpec => []RecentAreDistinct
<1>1. ChatInit => MemoryInv
  BY ChatAssumption, EmptySeq DEF ChatInit, MemoryInv, Agrees, RecentAreDistinct
<1>2. MemoryInv => RecentAreDistinct
  BY DEF MemoryInv
<1> QED BY <1>1, <1>2, NextMemory, PTL DEF ChatSpec

-----------------------------------------------------------------------------
(* The transient messages                                                  *)

\* Each entry of the list has an answer to come, unless an answer was lost.
Answerable(x) == x.lost \/ x.listed <= x.awaited

AnswerableInv == \A m \in Message : Answerable(msg[m])

\* text_delivery_update() takes the message off the list with its last answer, once.
LEMMA DeliveryAnswerable ==
  ASSUME NEW x \in MessageType, NEW state \in {"InProgress", "Delivered", "NotDelivered"}
  PROVE  LET y == DeliveryUpdate(x, state)
         IN  /\ y.lost = x.lost /\ y.awaited = x.awaited
             /\ y.listed = IF state = "InProgress" THEN x.listed ELSE LessOne(x.listed)
BY DEF DeliveryUpdate, UpdateMessageState, MessageUnref, MessageType, LessOne

\* A MESSAGE that goes out adds an entry to the list, with the answer that ends it.
LEMMA PostedAnswerable ==
  ASSUME NEW x \in MessageType, Answerable(x), NEW lime \in BOOLEAN, NEW fate \in MessageFate
  PROVE  Answerable(Posted(x, lime, fate))
<1>1. x.listed \in Nat /\ x.awaited \in Nat
  BY DEF MessageType
<1>2. CASE fate = "awaited"
  <2> DEFINE held == MessageRef(IF lime THEN MessageRef(x) ELSE x)
             sent == [held EXCEPT !.awaited = @ + 1]
             kept == [sent EXCEPT !.listed = @ + 1]
  <2>1. /\ held \in [DOMAIN x -> {held[i] : i \in DOMAIN x}] /\ DOMAIN held = DOMAIN x
        /\ held.listed = x.listed /\ held.awaited = x.awaited /\ held.lost = x.lost
    BY DEF MessageRef, MessageType
  <2>2. "listed" \in DOMAIN held /\ "awaited" \in DOMAIN held
    BY <2>1 DEF MessageType
  <2> HIDE DEF held
  <2>3. kept.listed = x.listed + 1 /\ kept.awaited = x.awaited + 1 /\ kept.lost = x.lost
    BY <1>1, <2>1, <2>2
  <2>4. Posted(x, lime, fate) = MessageUnref(MessageRef(kept))
    BY <1>2 DEF Posted, held
  <2>6. \A z : /\ MessageUnref(MessageRef(z)).listed = z.listed
              /\ MessageUnref(MessageRef(z)).awaited = z.awaited
              /\ MessageUnref(MessageRef(z)).lost = z.lost
    <3> SUFFICES ASSUME NEW z
                 PROVE  /\ MessageUnref(MessageRef(z)).listed = z.listed
                        /\ MessageUnref(MessageRef(z)).awaited = z.awaited
                        /\ MessageUnref(MessageRef(z)).lost = z.lost
      OBVIOUS
    <3> QED BY DEF MessageRef, MessageUnref
  <2>5. x.lost \in BOOLEAN
    BY DEF MessageType
  <2> HIDE DEF sent, kept
  <2> QED BY <1>1, <2>3, <2>4, <2>5, <2>6 DEF Answerable
<1>3. CASE fate = "lost"
  BY <1>1, <1>3 DEF Posted, Answerable, MessageRef, MessageUnref, MessageType
<1>4. CASE fate = "unencrypted"
  BY <1>1, <1>4 DEF Posted, Answerable, MessageRef, MessageUnref, MessageType, DeliveryUpdate, UpdateMessageState
<1> QED BY <1>2, <1>3, <1>4 DEF MessageFate

LEMMA ShownAnswerable ==
  ASSUME NEW m \in Message, NEW y, HeldInv, AnswerableInv, Answerable(y), Shown(m, y)
  PROVE  AnswerableInv'
<1>1. Answerable(NoMessage)
  BY DEF Answerable, NoMessage
<1> QED BY <1>1 DEF AnswerableInv, HeldInv, Shown

LEMMA SendsAnswerable ==
  ASSUME NEW m \in Message, NEW x \in MessageType, HeldInv, AnswerableInv, Answerable(x),
         SendsMessage(m, x)
  PROVE  AnswerableInv'
<1>1. Answerable(MessageRef(x)) /\ Answerable([x EXCEPT !.http = "first", !.request = TRUE])
  BY DEF Answerable, MessageRef, MessageType
<1> QED BY <1>1, PostedAnswerable, ShownAnswerable DEF SendsMessage

LEMMA MessageStepAnswerable ==
  ASSUME NEW m \in Message, HeldInv, AnswerableInv, MessageStep(m)
  PROVE  AnswerableInv'
<1> DEFINE x == msg[m]
<1>1. /\ x \in MessageType /\ Answerable(x) /\ Held(x)
      /\ x.listed \in Nat /\ x.awaited \in Nat /\ x.app \in Nat /\ x.sends \in Nat
  BY DEF HeldInv, AnswerableInv, MessageType
<1> HIDE DEF x
<1>2. CASE CreateMessage(m)
  <2>1. \A kind : Answerable(NewMessage(kind))
    BY DEF Answerable, NewMessage, NoMessage
  <2> QED BY <1>2, <2>1, ShownAnswerable DEF CreateMessage
<1>3. CASE SendMessage(m)
  <2> DEFINE y == [x EXCEPT !.state = "InProgress", !.app = @ - 1, !.sends = @ + 1]
  <2>1. x.app - 1 \in Nat /\ x.sends + 1 \in Nat /\ SendsMessage(m, y)
    BY <1>1, <1>3 DEF SendMessage, x
  <2>2. \A app, sends \in Nat :
          LET z == [x EXCEPT !.state = "InProgress", !.app = app, !.sends = sends]
          IN  z \in MessageType /\ Answerable(z)
    BY <1>1 DEF MessageType, MessageState, Answerable
  <2>3. y \in MessageType /\ Answerable(y)
    BY <1>1, <2>1, <2>2
  <2> QED BY <2>1, <2>3, SendsAnswerable
<1>4. CASE RefMessage(m) \/ UnrefMessage(m)
  <2>1. /\ Answerable(MessageRef([x EXCEPT !.app = @ + 1]))
        /\ Answerable(MessageUnref([x EXCEPT !.app = @ - 1]))
    BY <1>1 DEF Answerable, MessageRef, MessageUnref, MessageType
  <2> QED BY <1>4, <2>1, ShownAnswerable DEF RefMessage, UnrefMessage, x
<1>5. CASE MessageAnswered(m)
  <2> DEFINE y == [x EXCEPT !.awaited = @ - 1]
  <2>1. x.awaited > 0 /\ x.awaited - 1 \in Nat
    BY <1>1, <1>5 DEF MessageAnswered, x
  <2>2. y \in MessageType /\ y.listed = x.listed /\ y.lost = x.lost
        /\ y.awaited = x.awaited - 1
    BY <1>1, <2>1 DEF MessageType
  <2> HIDE DEF y
  <2>3. Answerable(DeliveryUpdate(x, "InProgress"))
    BY <1>1, DeliveryAnswerable DEF Answerable
  <2>4. \A state \in {"Delivered", "NotDelivered"} : Answerable(DeliveryUpdate(y, state))
    BY <1>1, <2>1, <2>2, DeliveryAnswerable DEF Answerable, LessOne
  <2> QED BY <1>5, <2>3, <2>4, ShownAnswerable DEF MessageAnswered, x, y
<1>6. CASE UploadProceeds(m)
  <2> DEFINE sent == [x EXCEPT !.http = "none", !.request = FALSE, !.uploaded = TRUE,
                               !.state = "FileTransferDone"]
  <2>1. /\ Answerable([x EXCEPT !.http = "second"])
        /\ Answerable([x EXCEPT !.http = "none", !.lost = TRUE])
        /\ Answerable([x EXCEPT !.http = "none", !.state = "NotDelivered"])
    BY <1>1 DEF Answerable, MessageType
  <2>2. sent \in MessageType /\ Answerable(sent)
    BY <1>1 DEF Answerable, MessageType, MessageState
  <2> QED BY <1>6, <2>1, <2>2, ShownAnswerable, SendsAnswerable DEF UploadProceeds, x
<1>7. CASE DownloadFile(m) \/ DownloadEnds(m) \/ CancelFileTransfer(m)
  <2>1. \A state, http, request :
          /\ Answerable([x EXCEPT !.http = http, !.request = request, !.state = state])
          /\ Answerable([x EXCEPT !.http = http, !.state = state])
    BY <1>1 DEF Answerable, MessageType
  <2> QED
    BY <1>7, <2>1, ShownAnswerable DEF DownloadFile, DownloadEnds, CancelFileTransfer, x
<1> QED BY <1>2, <1>3, <1>4, <1>5, <1>6, <1>7 DEF MessageStep

LEMMA NextAnswerable == HeldInv /\ AnswerableInv /\ [ChatNext]_chatVars => AnswerableInv'
<1> SUFFICES ASSUME HeldInv, AnswerableInv, [ChatNext]_chatVars PROVE AnswerableInv'
  OBVIOUS
<1>1. CASE UNCHANGED msg
  BY <1>1 DEF AnswerableInv
<1>2. CASE ComposingStep
  BY <1>1, <1>2 DEF ComposingStep, Compose, StopComposing, IsComposingReceived,
     RemoteComposingExpires
<1>3. ASSUME NEW id \in MsgId, TextReceived(id) PROVE AnswerableInv'
  BY <1>1, <1>3 DEF TextReceived
<1>4. ASSUME NEW m \in Message, NEW id \in MsgId, FileReceived(m, id) PROVE AnswerableInv'
  <2>1. Answerable([NewMessage("received") EXCEPT !.state = "Delivered"])
    BY DEF Answerable, NewMessage, NoMessage
  <2> QED BY <1>4, <2>1, ShownAnswerable DEF FileReceived
<1> QED BY <1>1, <1>2, <1>3, <1>4, MessageStepAnswerable DEF ChatNext, chatVars

\* A message stays in transient_messages only for an answer still to come, however often
\* it is sent, unless a MESSAGE of it can have no answer: each entry of the list is
\* matched by an answer of its own.
THEOREM TransientMessagesAreUnanswered == ChatSpec => []TransientIsUnanswered
<1>1. ChatInit => HeldInv /\ AnswerableInv
  <2>1. NoMessage \in MessageType
    BY DEF NoMessage, MessageType, MessageState
  <2>2. Held(NoMessage) /\ Answerable(NoMessage)
    BY <2>1 DEF Held, NoMessage, Uploading, Answerable
  <2> QED BY <2>1, <2>2 DEF ChatInit, HeldInv, AnswerableInv
<1>2. HeldInv /\ AnswerableInv => TransientIsUnanswered
  <2>1. ASSUME HeldInv, NEW m \in Message PROVE msg[m].listed \in Nat /\ msg[m].awaited \in Nat
    BY <2>1 DEF HeldInv, MessageType
  <2> QED BY <2>1 DEF AnswerableInv, Answerable, TransientIsUnanswered
<1> QED BY <1>1, <1>2, NextHeld, NextAnswerable, PTL DEF ChatSpec

=============================================================================
