------------------------------ MODULE Account ------------------------------
(***************************************************************************)
(* The account side of a LinphoneCore: one action per call of the public   *)
(* API on proxies, friends, network and presence, per callback of the SAL  *)
(* for REGISTER, SUBSCRIBE and NOTIFY, and for linphone_core_iterate().    *)
(* Each applies a handler of Registration or Friends to the variable ac.   *)
(***************************************************************************)
EXTENDS Registration

\* What an application may or may not make use of.
Feature == {"edit", "elsewhere", "disable", "publish", "default", "remove",
            "pause", "presence", "policy", "drop", "idle"}

\* A scope bounds a behaviour: the objects of one application, what it does with
\* them and how a REGISTER may fail.
Scope == [ proxies: SUBSET Proxy, friends: SUBSET Friend, does: SUBSET Feature,
           fails: SUBSET Failure ]

CONSTANT Scopes        \* those looked at

ASSUME AccountAssumption == Scopes \subseteq Scope

VARIABLE ac

AccountType ==
  [ scope: Scopes, idle: BOOLEAN, net: BOOLEAN, initial: BOOLEAN, proxies: Seq(Proxy),
    deleted: SUBSET Proxy, default: Proxy \cup {NoProxy},
    px: [Proxy -> ProxyType], fr: [Friend -> FriendType] ]

AccountTypeOK == ac \in AccountType

AccountInit ==
  \E scope \in Scopes :
    ac = [ scope |-> scope, idle |-> FALSE, net |-> TRUE, initial |-> FALSE, proxies |-> <<>>,
           deleted |-> {}, default |-> NoProxy,
           px |-> [p \in Proxy |-> NewProxy], fr |-> [f \in Friend |-> NewFriend] ]

Listed(p) == p \in ListedProxies(ac)
Does(feature) == feature \in ac.scope.does
OneOf(feature) == IF Does(feature) THEN BOOLEAN ELSE {FALSE}
Addresses == {"home"} \cup (ac.scope.does \cap Address)

-----------------------------------------------------------------------------
(* Proxies: the public API                                                 *)

\* The application prepares the object, or edits it after edit().
Configure(p) ==
  /\ p \in ac.scope.proxies \ ac.deleted
  /\ Listed(p) => ac.px[p].editing
  /\ \E disabled \in OneOf("disable"), publish \in OneOf("publish"), cfg \in Addresses :
       LET x == [ac.px[p] EXCEPT !.enabled = ~disabled, !.publish = publish, !.cfg = cfg]
       IN  ac' = Moved(ac, [ac EXCEPT !.px[p] = x])

AddProxy(p) ==
  /\ p \in ac.scope.proxies \ ac.deleted /\ ~Listed(p)
  /\ ac' = Moved(ac, AddProxyTo(ac, p))

RemoveProxy(p) ==
  /\ Does("remove") /\ Listed(p)
  /\ ac' = Moved(ac, RemoveProxyFrom(ac, p))

SetDefault(p) ==
  /\ Does("default")
  /\ p # NoProxy => Listed(p)
  /\ ac' = Moved(ac, [ac EXCEPT !.default = p])

Edit(p) ==
  /\ Does("edit") /\ Listed(p)
  /\ ac' = [ac EXCEPT !.px[p] = EditProxy(@)]

Done(p) ==
  /\ Listed(p) /\ ac.px[p].editing
  /\ ac' = [ac EXCEPT !.px[p] = DoneProxy(@)]

PauseRegister(p) ==
  /\ Does("pause") /\ Listed(p)
  /\ ac' = [ac EXCEPT !.px[p] = PauseRegisterOf(@)]

RefreshRegister(p) ==
  /\ Does("pause") /\ Listed(p)
  /\ ac' = RefreshRegisterOf(ac, p)

RefreshAllRegisters == ac.net /\ ac' = RefreshRegisters(ac)

SetTransports == Does("edit") /\ ac' = InvalidateRegisters(ac)

AddAuthInfo == ac' = AddAuthInfoTo(ac)

SetNetworkReachable == ac' = IF ac.net THEN NetworkDown(ac) ELSE NetworkUp(ac)

SetPresence == Does("presence") /\ ac' = SendPresence(ac)

-----------------------------------------------------------------------------
(* Friends: the public API                                                 *)

\* A friend the application creates, or holds a reference to and adds.
AddFriend(f) ==
  /\ f \in ac.scope.friends /\ ~ac.fr[f].core
  /\ ac' = AddFriendTo([ac EXCEPT !.fr[f].held = TRUE], f)

RemoveFriend(f) ==
  /\ Does("drop") /\ IsListed(ac, f)
  /\ ac' = RemoveFriendFrom(ac, f)

UnrefFriend(f) ==
  /\ Does("drop") /\ ac.fr[f].held
  /\ ac' = [ac EXCEPT !.fr[f] = Collected([@ EXCEPT !.held = FALSE])]

\* linphone_friend_enable_subscribes() and linphone_friend_done()
EnableSubscribes(f) ==
  /\ IsListed(ac, f)
  /\ \E want \in BOOLEAN : ac' = FriendDone([ac EXCEPT !.fr[f].want = want], f)

\* linphone_friend_set_inc_subscribe_policy() and linphone_friend_done(); it is
\* also what linphone_core_reject_subscriber() does.
SetPolicy(f) ==
  /\ Does("policy") /\ ac.fr[f].lists # {}
  /\ \E pol \in Policy :
       ac' = FriendDone([ac EXCEPT !.fr[f] = [@ EXCEPT !.pol = pol, !.told = "nothing"]], f)

-----------------------------------------------------------------------------
(* The main loop and the callbacks of the SAL                              *)

\* proxy_update(), the first loop, in which the requests of some proxies cannot be
\* sent.
ProxiesUpdated(s, unsent) ==
  ForEachProxy(LAMBDA t, p : UpdateProxy(t, p, p \notin unsent), s)

\* linphone_core_iterate(): the proxies, and the first subscriptions some seconds
\* after the network has come up.
Iterate(unsent, subscribe) ==
  LET t == ProxiesUpdated(ac, unsent)
  IN  /\ subscribe => ac.net /\ ~ac.initial
      /\ ac' = IF subscribe THEN UpdateFriends([t EXCEPT !.initial = TRUE], NoProxy) ELSE t

Forget(p) == p \in ac.deleted /\ ac' = ForgetProxy(ac, p)

Registered(p) == ac.px[p].busy /\ ac' = RegisterSuccess(ac, p)

RegistrationFails(p) ==
  /\ ac.px[p].busy
  /\ \E how \in ac.scope.fails : ac' = RegisterFailure(ac, p, how)

\* The refresher of a registration: its time has come, or it tries again.
RefreshFires(p) ==
  /\ ac.px[p].refresher = "on" /\ ~ac.px[p].busy
  /\ ac' = [ac EXCEPT !.px[p] = Refresh(@, "register")]

\* A SUBSCRIBE from an address that is not an object only the application holds.
Subscribed(f) ==
  /\ f \in ac.scope.friends /\ Does("policy")
  /\ ac.fr[f].held => ac.fr[f].lists # {}
  /\ ac' = SubscriptionNew(ac, f)

Answer(f, Handler(_)) == ac' = [ac EXCEPT !.fr[f] = Handler(@)]

\* While the friend was in the list the SAL finds it; once removed it does not.
SubscribeOk(f)      == ac.fr[f].sent /\ Answer(f, SubscribeAccepted)
SubscribeRefused(f) == ac.fr[f].sent /\ IsListed(ac, f) /\ Answer(f, SubscriptionEnded)
SubscribeTimeout(f) == ac.fr[f].sent /\ Answer(f, SubscribeUnanswered)
NotifyRecv(f)       == ac.fr[f].out /\ IsListed(ac, f) /\ Answer(f, NotifyReceived)
NotifyTerminated(f) == ac.fr[f].out /\ IsListed(ac, f) /\ Answer(f, SubscriptionEnded)
DialogLost(f)       == ac.fr[f].refresher = "on" /\ Answer(f, SubscriptionLost)
RefreshDenied(f)    == ac.fr[f].refresher = "on" /\ Answer(f, RefreshRefused)

-----------------------------------------------------------------------------
ByApplication ==
  \/ SetTransports \/ RefreshAllRegisters \/ AddAuthInfo \/ SetNetworkReachable \/ SetPresence
  \/ \E p \in Proxy : Configure(p) \/ AddProxy(p) \/ RemoveProxy(p) \/ Edit(p)
                        \/ Done(p) \/ PauseRegister(p) \/ RefreshRegister(p)
  \/ \E p \in Proxy \cup {NoProxy} : SetDefault(p)
  \/ \E f \in Friend : AddFriend(f) \/ RemoveFriend(f) \/ UnrefFriend(f)
                         \/ EnableSubscribes(f) \/ SetPolicy(f)

\* The application does nothing any more.
GoIdle == Does("idle") /\ ~ac.idle /\ ac' = [ac EXCEPT !.idle = TRUE]

BySip ==
  \/ \E p \in Proxy : Registered(p) \/ RegistrationFails(p) \/ RefreshFires(p)
  \/ \E f \in Friend : \/ Subscribed(f) \/ SubscribeOk(f) \/ SubscribeRefused(f)
                       \/ SubscribeTimeout(f) \/ NotifyRecv(f) \/ NotifyTerminated(f)
                       \/ DialogLost(f) \/ RefreshDenied(f)

AccountNext ==
  \/ ~ac.idle /\ ByApplication
  \/ GoIdle
  \/ \E unsent \in SUBSET ListedProxies(ac), subscribe \in BOOLEAN : Iterate(unsent, subscribe)
  \/ \E p \in Proxy : Forget(p)
  \/ BySip

AccountSpec == AccountInit /\ [][AccountNext]_ac

\* The main loop runs; a REGISTER is answered or times out, and a refresher that
\* waits sends the next one.
AccountFairSpec ==
  /\ AccountSpec
  /\ WF_ac(Iterate({}, FALSE))
  /\ \A p \in Proxy : WF_ac(Registered(p) \/ RegistrationFails(p) \/ RefreshFires(p))
=============================================================================
