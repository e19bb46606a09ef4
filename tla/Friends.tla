------------------------------ MODULE Friends ------------------------------
(***************************************************************************)
(* The friends of an account: the subscription we keep to the presence of  *)
(* each friend, and the one each friend keeps to ours.  friend.c and       *)
(* presence.c over sal_op_presence.c.                                      *)
(*                                                                         *)
(* A state s of the account has a record s.fr[f] per friend, and the       *)
(* sequence s.proxies with a record s.px[p] per proxy configuration, of    *)
(* which this module reads state and enabled.  The operators of a friend   *)
(* return its new record.                                                  *)
(***************************************************************************)
EXTENDS Sequences, Naturals

CONSTANTS Proxy, NoProxy, Friend,
          Home,                  \* Home[f]: the proxies of the domain of f
          OnlyWhenRegistered     \* subscribe_presence_only_when_registered

ASSUME FriendsAssumption ==
  /\ NoProxy \notin Proxy
  /\ Home \in [Friend -> SUBSET Proxy]
  /\ OnlyWhenRegistered \in BOOLEAN

Policy == {"wait", "accept", "deny"}

\* A LinphoneFriend.  lists: the lists of the core it is in; held: the
\* application has a reference; core: lf->lc is set; sent: a SUBSCRIBE of ours
\* is unanswered.  told is what the last NOTIFY to this friend said of us,
\* since its policy was last set; excuse says why a subscription we want may
\* rightly, or by a limit of the code, not be kept up.
FriendType ==
  [ lists: SUBSET {"friends", "subscribers"}, held: BOOLEAN, core: BOOLEAN,
    want: BOOLEAN, active: BOOLEAN,
    out: BOOLEAN, sent: BOOLEAN, refresher: {"none", "on", "off"},
    insub: BOOLEAN, pend: BOOLEAN, pol: Policy,
    told: {"nothing", "waiting", "presence"},
    excuse: {"none", "ended", "notified", "lost", "moved"} ]

\* linphone_friend_new(), before anyone refers to it.
NewFriend ==
  [ lists |-> {}, held |-> FALSE, core |-> FALSE, want |-> TRUE, active |-> FALSE,
    out |-> FALSE, sent |-> FALSE, refresher |-> "none",
    insub |-> FALSE, pend |-> FALSE, pol |-> "accept", told |-> "nothing",
    excuse |-> "none" ]

IsListed(s, f) == "friends" \in s.fr[f].lists

\* The last reference to the object goes: _linphone_friend_destroy() releases
\* both operations.
Collected(me) == IF me.lists = {} /\ ~me.held THEN NewFriend ELSE me

-----------------------------------------------------------------------------
(* Which proxy a friend belongs to                                         *)

ListedProxies(s) == {s.proxies[i] : i \in DOMAIN s.proxies}

\* The first proxy of the list in P, one of which is.
FirstOf(s, P) ==
  s.proxies[CHOOSE i \in DOMAIN s.proxies :
              s.proxies[i] \in P /\ \A j \in 1..(i - 1) : s.proxies[j] \notin P]

\* linphone_core_lookup_known_proxy(): the default one if it is of the domain,
\* else the first registered, else the first to register, else the first.
LookupKnownProxy(s, f) ==
  LET home == Home[f] \cap ListedProxies(s)
      registered == {p \in home : s.px[p].state = "Ok"}
      enabled == {p \in home : s.px[p].enabled}
  IN  IF s.default \in Home[f] \/ home = {} THEN s.default
      ELSE FirstOf(s, IF registered # {} THEN registered
                      ELSE IF enabled # {} THEN enabled ELSE home)

\* The presence of f may be subscribed to.
CanSubscribe(s, f) ==
  LET cfg == LookupKnownProxy(s, f)
  IN  OnlyWhenRegistered /\ cfg # NoProxy => s.px[cfg].state = "Ok"

-----------------------------------------------------------------------------
(* The outgoing subscription                                               *)

\* The operation is released: its request and its refresher are forgotten.
NoSubscription(me) ==
  [me EXCEPT !.out = FALSE, !.active = FALSE, !.sent = FALSE, !.refresher = "none"]

\* __linphone_friend_do_subscribe(): always with a new operation.
DoSubscribe(me) ==
  [me EXCEPT !.out = TRUE, !.sent = TRUE, !.refresher = "none", !.active = TRUE,
             !.excuse = "none"]

Stopped(me) == IF me.refresher = "on" THEN [me EXCEPT !.refresher = "off"] ELSE me

\* linphone_friend_unsubscribe(): the un-SUBSCRIBE is sent by the refresher, so
\* nothing is sent while the first SUBSCRIBE is unanswered.
Unsubscribe(me) == IF me.out THEN [Stopped(me) EXCEPT !.active = FALSE] ELSE me

\* Mutant: the suspended subscription still counts as active.
SuspendStaysActive(me) == Stopped(me)

\* linphone_friend_update_subscribes() when the proxy is not registered.
Suspend(me) == [Stopped(me) EXCEPT !.active = FALSE]

\* linphone_friend_update_subscribes(); p is the proxy whose state changed.
UpdateSubscribes(s, f, p) ==
  LET me == s.fr[f]
      asks == OnlyWhenRegistered /\ (me.want \/ me.active)
      can == asks => CanSubscribe(s, f)
      another == asks /\ p # NoProxy /\ p # LookupKnownProxy(s, f)
  IN  IF can /\ me.want /\ ~me.active /\ ~another THEN DoSubscribe(me)
      ELSE IF can /\ me.active /\ ~me.want /\ ~another THEN Unsubscribe(me)
      ELSE IF ~can /\ me.out /\ ~another THEN Suspend(me)
      ELSE me

\* linphone_core_update_friends_subscriptions()
UpdateFriends(s, p) ==
  [s EXCEPT !.fr = [f \in Friend |-> IF IsListed(s, f) THEN UpdateSubscribes(s, f, p)
                                     ELSE s.fr[f]]]

\* linphone_core_invalidate_friend_subscriptions()
InvalidateFriends(s) ==
  [s EXCEPT !.initial = FALSE,
            !.fr = [f \in Friend |-> IF IsListed(s, f) /\ s.fr[f].out
                                     THEN NoSubscription(s.fr[f]) ELSE s.fr[f]]]

\* Not of the code: friends whose proxy is another one in t than in s are not
\* told, and keep the subscription they had.
Moved(s, t) ==
  [t EXCEPT !.fr = [f \in Friend |->
     IF LookupKnownProxy(s, f) # LookupKnownProxy(t, f)
     THEN [t.fr[f] EXCEPT !.excuse = "moved"] ELSE t.fr[f]]]

-----------------------------------------------------------------------------
(* The incoming subscription                                               *)

\* linphone_friend_notify()
Notify(me, what) == IF me.insub THEN [me EXCEPT !.told = what] ELSE me

\* The notification linphone_friend_apply() owes to a new subscriber.
NotifyPending(me) ==
  LET what == CASE me.pol = "wait" -> "waiting" [] me.pol = "accept" -> "presence"
                [] me.pol = "deny" -> "nothing"
  IN  IF me.pend THEN [Notify(me, what) EXCEPT !.pend = FALSE] ELSE me

\* linphone_friend_apply() of a friend of the core.
Apply(s, f) ==
  LET t == [s EXCEPT !.fr[f] = NotifyPending(@)]
  IN  [t EXCEPT !.fr[f] = UpdateSubscribes(t, f, NoProxy)]

\* linphone_friend_done()
FriendDone(s, f) == IF s.fr[f].core THEN Apply(s, f) ELSE s

\* linphone_core_notify_all_friends()
NotifyAllFriends(s) ==
  [s EXCEPT !.fr = [f \in Friend |-> IF IsListed(s, f) THEN Notify(s.fr[f], "presence")
                                     ELSE s.fr[f]]]

\* linphone_subscription_new(): a SUBSCRIBE from f, the first or a refresh.
SubscriptionNew(s, f) ==
  LET me == s.fr[f]
  IN  IF IsListed(s, f)
      THEN FriendDone([s EXCEPT !.fr[f] = [me EXCEPT !.insub = TRUE, !.pend = TRUE]], f)
      ELSE IF "subscribers" \in me.lists
      THEN s                        \* declined if denied, else left unanswered
      ELSE [s EXCEPT !.fr[f] = [NewFriend EXCEPT !.lists = {"subscribers"},
                                  !.insub = TRUE, !.pend = TRUE]]

\* linphone_core_add_friend()
AddFriendTo(s, f) ==
  LET me == s.fr[f]
  IN  Apply([s EXCEPT !.fr[f] = [me EXCEPT !.lists = @ \cup {"friends"}, !.core = TRUE]], f)

\* linphone_core_remove_friend(): the subscriptions live as long as the object.
RemoveFriendFrom(s, f) ==
  LET me == s.fr[f]
  IN  [s EXCEPT !.fr[f] = Collected([me EXCEPT !.lists = @ \ {"friends"}])]

-----------------------------------------------------------------------------
(* Answers to our SUBSCRIBE and NOTIFYs of the far end                     *)

\* presence_response_event(): a 2xx creates the refresher.
SubscribeAccepted(me) == [me EXCEPT !.sent = FALSE, !.refresher = "on"]

\* linphone_notify_recv() with SalSubscribeTerminated, which is also what a
\* refusal of the SUBSCRIBE is turned into.
SubscriptionEnded(me) == [NoSubscription(me) EXCEPT !.excuse = "ended"]

\* linphone_notify_recv() of an active subscription; a subscription whose
\* refresher was stopped becomes active again without it.
NotifyReceived(me) ==
  [me EXCEPT !.active = TRUE,
             !.excuse = IF me.refresher = "off" THEN "notified" ELSE @]

\* presence_refresher_listener(): 481 to a refresh restarts the subscription.
SubscriptionLost(me) == [me EXCEPT !.refresher = "none", !.sent = TRUE]

\* Any other refusal of a refresh is not looked at, nor is the loss of the
\* first SUBSCRIBE (presence_process_timeout() does nothing).
RefreshRefused(me) == [me EXCEPT !.refresher = "off", !.excuse = "lost"]
SubscribeUnanswered(me) == [me EXCEPT !.sent = FALSE, !.excuse = "lost"]
=============================================================================
