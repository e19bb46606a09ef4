------------------------------- MODULE Events -------------------------------
(***************************************************************************)
(* LinphoneEvent: the SUBSCRIBE and PUBLISH of the generic event API, with *)
(* the states shown to the application, the reference the core holds on    *)
(* the object until it is over, and the callbacks of the SAL that can      *)
(* arrive after that.  event.c and callbacks.c over sal_op_events.c and    *)
(* sal_op_publish.c.                                                       *)
(***************************************************************************)
EXTENDS Naturals

CONSTANTS Event, MaxEventRefs     \* bound on the references of the application

ASSUME EventsAssumption == MaxEventRefs \in Nat

VARIABLE ev

SubscriptionState == {"None", "OutgoingInit", "IncomingReceived", "Pending", "Active",
                      "Terminated", "Error", "Expiring"}

PublishState == {"None", "Progress", "Ok", "Error", "Expiring", "Cleared"}

\* A LinphoneEvent and its operation.  oneShot: expires is -1; app: what the
\* application holds of refs; sent: our request that is unanswered; refresher
\* "manual" only tells that the time has come.  revived: it has left the state in
\* which the core gave up its reference.
EventType ==
  [ dir: {"unused", "Incoming", "Outgoing", "Publish"},
    sub: SubscriptionState, pub: PublishState, oneShot: BOOLEAN, terminating: BOOLEAN,
    refs: Nat, app: Nat, manual: BOOLEAN, dialog: BOOLEAN,
    sent: {"none", "subscribe", "unsubscribe", "publish"},
    refresher: {"none", "on", "manual", "off"}, revived: BOOLEAN ]

\* linphone_event_new(): the first reference is the core's.
NewEvent(dir, oneShot, manual) ==
  [ dir |-> dir, sub |-> "None", pub |-> "None", oneShot |-> oneShot,
    terminating |-> FALSE, refs |-> 1, app |-> 0, manual |-> manual, dialog |-> FALSE,
    sent |-> "none", refresher |-> "none", revived |-> FALSE ]

NoEvent == [NewEvent("unused", FALSE, FALSE) EXCEPT !.refs = 0]

EventsInit == ev = [e \in Event |-> NoEvent]

-----------------------------------------------------------------------------
(* The two states, and the reference of the core                           *)

\* The states in which the core has given up its reference.
EventOver(x) ==
  \/ x.dir = "Publish" /\ x.oneShot /\ x.pub \in {"Ok", "Error"}
  \/ x.dir = "Publish" /\ ~x.oneShot /\ x.pub = "Cleared"
  \/ x.dir # "Publish" /\ x.sub = "Terminated"

EventUnref(x) == [x EXCEPT !.refs = @ - 1]

\* Mutant: a state that is set again is taken for a change.
SetSubscriptionAgain(x, state) ==
  LET y == [x EXCEPT !.sub = state, !.revived = @ \/ (EventOver(x) /\ state # "Terminated")]
  IN  IF state = "Terminated" THEN EventUnref(y) ELSE y

\* linphone_event_set_state()
SetSubscription(x, state) ==
  LET y == [x EXCEPT !.sub = state, !.revived = @ \/ EventOver(x)]
  IN  CASE x.sub = state -> x
        [] x.sub # state /\ state = "Terminated" -> EventUnref(y)
        [] OTHER -> y

\* linphone_event_set_publish_state()
SetPublish(x, state) ==
  LET y == [x EXCEPT !.pub = state, !.revived = @ \/ EventOver(x)]
  IN  CASE x.pub = state -> x
        [] x.pub # state /\ EventOver(y) -> EventUnref(y)
        [] OTHER -> y

\* The last reference goes: linphone_event_destroy() releases the operation,
\* whose callbacks find no event any more.
Settled(x) ==
  CASE x.refs = 0 /\ x.app = 0 -> NoEvent
    [] x.refs = 0 /\ x.app # 0 -> [x EXCEPT !.sent = "none", !.refresher = "off"]
    [] OTHER -> x

Change(e, x) == ev' = [ev EXCEPT ![e] = Settled(x)]

Unused(e) == ev[e].dir = "unused"
Alive(e)  == ~Unused(e) /\ ev[e].refs > 0

\* sal_op_send_and_create_refresher(), or a refresh of the refresher.
SendRefreshed(x, request) ==
  [x EXCEPT !.sent = request, !.refresher = IF x.manual THEN "manual" ELSE "on"]

-----------------------------------------------------------------------------
(* The public API                                                          *)

\* linphone_core_create_subscribe()
CreateSubscribe(e) ==
  /\ Unused(e)
  /\ \E manual \in BOOLEAN : Change(e, NewEvent("Outgoing", FALSE, manual))

\* linphone_event_send_subscribe() and linphone_event_update_subscribe(), when
\* the request can be built; otherwise nothing changes.
SendSubscribe(e) ==
  LET x == ev[e]
      y == SendRefreshed(x, "subscribe")
  IN  /\ Alive(e) /\ x.dir = "Outgoing"
      /\ x.sub \notin {"IncomingReceived", "Terminated", "OutgoingInit"}
      /\ x.dialog => x.refresher # "none"
      /\ Change(e, IF x.sub = "None" THEN SetSubscription(y, "OutgoingInit") ELSE y)

\* linphone_event_accept_subscription() and linphone_event_deny_subscription()
AnswerSubscription(e) ==
  /\ Alive(e) /\ ev[e].sub = "IncomingReceived"
  /\ \E state \in {"Active", "Terminated"} : Change(e, SetSubscription(ev[e], state))

\* linphone_core_create_publish()
CreatePublish(e) ==
  /\ Unused(e)
  /\ \E oneShot, manual \in BOOLEAN :
       Change(e, NewEvent("Publish", oneShot, manual))

\* sal_publish()
Published(x) ==
  IF x.oneShot THEN [x EXCEPT !.sent = "publish"] ELSE SendRefreshed(x, "publish")

\* linphone_event_send_publish() and linphone_event_update_publish()
SendEventPublish(e, built) ==
  /\ Alive(e) /\ ev[e].dir = "Publish"
  /\ Change(e, IF built THEN SetPublish(Published(ev[e]), "Progress")
               ELSE SetPublish(ev[e], "Error"))

\* linphone_core_publish(), whose caller is returned no event when it fails.
PublishNow(e, built) ==
  /\ Unused(e)
  /\ \E oneShot, manual \in BOOLEAN :
       LET x == NewEvent("Publish", oneShot, manual)
       IN  Change(e, IF built THEN SetPublish(Published(x), "Progress") ELSE EventUnref(x))

\* sal_unsubscribe(), or sal_publish() with expires 0
Unsent(x, request) ==
  IF x.refresher = "none" THEN x ELSE [x EXCEPT !.sent = request, !.refresher = "off"]

\* sal_op_stop_refreshing()
NotRefreshed(x) == IF x.refresher = "none" THEN x ELSE [x EXCEPT !.refresher = "off"]

\* linphone_event_terminate()
TerminateEvent(e) ==
  LET x == [ev[e] EXCEPT !.terminating = TRUE]
      y == CASE x.dir = "Outgoing" -> Unsent(x, "unsubscribe")
             [] x.dir = "Publish" /\ x.pub = "Ok" /\ ~x.oneShot -> Unsent(x, "publish")
             [] x.dir = "Publish" /\ x.pub # "None" /\ ~(x.pub = "Ok" /\ ~x.oneShot) ->
                  NotRefreshed(x)
             [] OTHER -> x
  IN  /\ Alive(e)
      /\ Change(e, CASE y.pub # "None" -> SetPublish(y, "Cleared")
                     [] y.pub = "None" /\ y.sub # "None" -> SetSubscription(y, "Terminated")
                     [] OTHER -> y)

\* linphone_event_ref() and linphone_event_unref() of the application
RefEvent(e) ==
  /\ Alive(e) /\ ev[e].app < MaxEventRefs
  /\ Change(e, [ev[e] EXCEPT !.refs = @ + 1, !.app = @ + 1])

UnrefEvent(e) ==
  /\ Alive(e) /\ ev[e].app > 0
  /\ Change(e, EventUnref([ev[e] EXCEPT !.app = @ - 1]))

-----------------------------------------------------------------------------
(* The callbacks of the SAL                                                *)

\* How a request fails: 503, which also stands for the loss of the connection
\* and is tried again by the refresher, or a final refusal.
EventFailure == {"unavailable", "refused"}

\* Mutant: an active subscription whose refresh fails waits for the next one.
SubscribeFailedWaits(x) ==
  SetSubscription(x, IF x.sub = "Active" THEN "OutgoingInit" ELSE "Error")

\* subscribe_response(), with an error.  The branch that goes back to OutgoingProgress
\* is for SalReasonIOError, which no final answer is turned into: 503 is
\* SalReasonServiceUnavailable.
SubscribeFailed(x) == SetSubscription(x, "Error")

\* Nothing is sent any more after a final refusal.
RefusedRefresh(x, how) ==
  [x EXCEPT !.sent = "none",
            !.refresher = IF how = "refused" /\ @ # "none" THEN "off" ELSE @]

\* subscribe_response(): the answer to an un-SUBSCRIBE looks the same.
SubscribeAnswered(e) ==
  LET x == ev[e]
      answered == [x EXCEPT !.sent = "none", !.dialog = TRUE]
  IN  /\ x.sent \in {"subscribe", "unsubscribe"}
      /\ \/ \E state \in {"Active", "Pending"} : Change(e, SetSubscription(answered, state))
         \/ \E how \in EventFailure : Change(e, SubscribeFailed(RefusedRefresh(x, how)))

\* notify(), of an event: also before the answer to the SUBSCRIBE, and after the
\* un-SUBSCRIBE.
EventNotified(e) ==
  /\ Alive(e) /\ ev[e].dir = "Outgoing"
  /\ ev[e].dialog \/ ev[e].sent # "none"
  /\ \E state \in {"Active", "Terminated"} : Change(e, SetSubscription(ev[e], state))

\* notify(), without an event
NotifiedOutOfDialog(e) ==
  /\ Unused(e)
  /\ \E state \in {"Active", "Terminated"} :
       Change(e, SetSubscription(NewEvent("Outgoing", FALSE, FALSE), state))

\* subscribe_received(): a refresh changes nothing.
SubscriptionReceived(e) ==
  /\ Unused(e)
  /\ LET x == [NewEvent("Incoming", FALSE, FALSE) EXCEPT !.dialog = TRUE]
     IN  Change(e, SetSubscription(x, "IncomingReceived"))

\* subscribe_closed(), of an event that has not been destroyed
SubscriptionClosed(e) ==
  /\ Alive(e) /\ ev[e].dir = "Incoming" /\ ev[e].dialog /\ ev[e].sub # "IncomingReceived"
  /\ Change(e, SetSubscription(ev[e], "Terminated"))

\* subscribe_process_dialog_terminated()
EventDialogTerminated(e) ==
  /\ Alive(e) /\ ev[e].dialog
  /\ Change(e, [ev[e] EXCEPT !.dialog = FALSE])

\* on_publish_response(); 412 is sent again without a word.
PublishAnswered(e) ==
  LET x == ev[e]
      answered == [x EXCEPT !.sent = "none"]
  IN  /\ x.sent = "publish"
      /\ \/ Change(e, SetPublish(answered, IF x.terminating THEN "Cleared" ELSE "Ok"))
         \/ \E how \in EventFailure :
              Change(e, SetPublish(RefusedRefresh(x, how),
                                   IF x.pub = "Ok" THEN "Progress" ELSE "Error"))

\* on_expire(): a refresher in manual mode.
EventExpires(e) ==
  LET x == ev[e]
  IN  /\ Alive(e) /\ x.dir \in {"Outgoing", "Publish"}
      /\ x.refresher = "manual" /\ x.sent = "none"
      /\ Change(e, CASE x.pub = "Ok" -> SetPublish(x, "Expiring")
                     [] x.pub # "Ok" /\ x.sub = "Active" -> SetSubscription(x, "Expiring")
                     [] OTHER -> x)

\* The refresher sends the next request.
EventRefreshed(e) ==
  LET x == ev[e]
  IN  /\ Alive(e) /\ x.dir \in {"Outgoing", "Publish"}
      /\ x.refresher = "on" /\ x.sent = "none"
      /\ Change(e, [x EXCEPT !.sent = IF x.dir = "Publish" THEN "publish" ELSE "subscribe"])

-----------------------------------------------------------------------------
EventByApplication(e) ==
  \/ CreateSubscribe(e) \/ SendSubscribe(e) \/ AnswerSubscription(e) \/ CreatePublish(e)
  \/ TerminateEvent(e) \/ RefEvent(e) \/ UnrefEvent(e)
  \/ \E built \in BOOLEAN : SendEventPublish(e, built) \/ PublishNow(e, built)

EventBySip(e) ==
  \/ SubscribeAnswered(e) \/ EventNotified(e) \/ NotifiedOutOfDialog(e)
  \/ SubscriptionReceived(e) \/ SubscriptionClosed(e) \/ EventDialogTerminated(e)
  \/ PublishAnswered(e) \/ EventExpires(e) \/ EventRefreshed(e)

EventsNext == \E e \in Event : EventByApplication(e) \/ EventBySip(e)

EventsSpec == EventsInit /\ [][EventsNext]_ev

-----------------------------------------------------------------------------
(* What is to be true of events.                                           *)

EventsTypeOK == ev \in [Event -> EventType]

\* The core gives up its one reference exactly when the event is over, in
\* whichever order terminate(), answers, NOTIFYs and the far end's end come; an
\* event that a late 200 or NOTIFY revives, to be released twice, is left out.
BalancedEvent(x) ==
  x.dir # "unused" /\ ~x.revived => x.refs = x.app + (IF EventOver(x) THEN 0 ELSE 1)

ReferenceBalance == \A e \in Event : BalancedEvent(ev[e])

\* An event in OutgoingInit refuses to be sent again, so a SUBSCRIBE of it must be
\* unanswered, through refreshes, refusals, NOTIFYs and terminate().
InitIsGoingOn ==
  \A e \in Event : ev[e].sub = "OutgoingInit" => ev[e].sent = "subscribe"
=============================================================================
