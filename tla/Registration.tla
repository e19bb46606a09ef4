---------------------------- MODULE Registration ----------------------------
(***************************************************************************)
(* The proxy configurations of an account: REGISTER, its refresh, its      *)
(* retries and the challenge for a password, the edit/done protocol, and   *)
(* the PUBLISH of our presence that waits for the registration.  proxy.c,  *)
(* authentication.c and callbacks.c over sal_op_registration.c.            *)
(***************************************************************************)
EXTENDS Friends, SequencesExt

\* Server address and identity, up to linphone_proxy_config_address_equal().
Address == {"home", "elsewhere"}

RegState == {"None", "Progress", "Ok", "Cleared", "Failed"}

\* A LinphoneProxyConfig.  busy: a REGISTER of ours is unanswered, wants says
\* whether the last one asked to register or to unregister; auth: obj->op has
\* been challenged (known), and waits for a password (pending); editing,
\* between edit() and done(), and paused, since pause_register(), are of the
\* application.
ProxyType ==
  [ state: RegState, enabled: BOOLEAN, publish: BOOLEAN, send: BOOLEAN,
    commit: BOOLEAN, cfg: Address, saved: Address \cup {"null"},
    op: BOOLEAN, busy: BOOLEAN, wants: {"register", "unregister"},
    refresher: {"none", "on", "off"}, auth: {"none", "known", "pending"},
    pubop: BOOLEAN, editing: BOOLEAN, paused: BOOLEAN ]

\* linphone_proxy_config_init()
NewProxy ==
  [ state |-> "None", enabled |-> TRUE, publish |-> FALSE, send |-> FALSE,
    commit |-> FALSE, cfg |-> "home", saved |-> "null",
    op |-> FALSE, busy |-> FALSE, wants |-> "register",
    refresher |-> "none", auth |-> "none",
    pubop |-> FALSE, editing |-> FALSE, paused |-> FALSE ]

\* linphone_proxy_config_is_server_config_changed(), any difference
ServerConfigChanged(x) == x.saved # x.cfg

\* linphone_proxy_config_set_state()
SetState(s, p, state) ==
  LET t == [s EXCEPT !.px[p].state = state]
  IN  IF OnlyWhenRegistered /\ (s.px[p].state = "Ok") # (state = "Ok")
      THEN UpdateFriends(t, p) ELSE t

-----------------------------------------------------------------------------
(* The operation of the registration.  A request of the refresher replaces *)
(* the one before.                                                         *)

\* sal_op_release(), or the user pointer reset: no answer is heard any more.
NoOperation(x) ==
  [x EXCEPT !.op = FALSE, !.busy = FALSE, !.wants = "register", !.refresher = "none",
            !.auth = "none", !.paused = FALSE]

\* sal_register_refresh(): what is asked for, register or unregister.
Refresh(x, wants) ==
  IF x.refresher = "none" THEN x
  ELSE [x EXCEPT !.busy = TRUE, !.wants = wants, !.paused = FALSE,
                 !.refresher = IF wants = "register" THEN "on" ELSE "off"]

\* sal_op_stop_refreshing()
StopRefreshing(x) == IF x.refresher = "on" THEN [x EXCEPT !.refresher = "off"] ELSE x

\* linphone_proxy_config_pause_register()
PauseRegisterOf(x) == [StopRefreshing(x) EXCEPT !.paused = (@ \/ x.refresher = "on")]

\* _linphone_proxy_config_unregister()
Unregister(x) == IF x.op /\ x.state = "Ok" THEN Refresh(x, "unregister") ELSE x

\* linphone_proxy_config_register(); sent: the request could be built and sent.
Register(s, p, sent) ==
  LET asked == [s EXCEPT !.px[p] =
                  [NoOperation(@) EXCEPT !.op = TRUE, !.busy = sent,
                                         !.refresher = IF sent THEN "on" ELSE "none"]]
      cleared == IF s.px[p].state = "Progress" THEN SetState(s, p, "Cleared") ELSE s
  IN  IF s.px[p].enabled
      THEN SetState(asked, p, IF sent THEN "Progress" ELSE "Failed")
      ELSE [cleared EXCEPT !.px[p] = Unregister(@)]

\* linphone_proxy_config_refresh_register()
RefreshRegisterOf(s, p) ==
  LET x == s.px[p]
  IN  IF x.enabled /\ x.op /\ x.state # "Progress" /\ x.refresher # "none"
      THEN SetState([s EXCEPT !.px[p] = Refresh(x, "register")], p, "Progress")
      ELSE s

-----------------------------------------------------------------------------
(* The PUBLISH of our presence                                             *)

CanPublish(x) == x.state \in {"Ok", "Cleared"}

\* linphone_proxy_config_send_publish()
SendPublish(x) ==
  IF CanPublish(x) THEN [x EXCEPT !.pubop = TRUE] ELSE [x EXCEPT !.send = TRUE]

\* linphone_proxy_config_update(), with register_only_when_network_is_up
UpdateProxy(s, p, sent) ==
  LET t == IF s.px[p].commit /\ s.net
           THEN [Register(s, p, sent) EXCEPT
                   !.px[p].commit = FALSE,
                   !.px[p].send = @ \/ s.px[p].publish]
           ELSE s
      x == t.px[p]
  IN  IF x.send /\ CanPublish(x) THEN [t EXCEPT !.px[p] = [SendPublish(x) EXCEPT !.send = FALSE]]
      ELSE t

-----------------------------------------------------------------------------
(* Edit, done, and what calls them                                         *)

\* linphone_proxy_config_edit()
EditProxy(x) ==
  [StopRefreshing(x) EXCEPT !.pubop = @ /\ ~x.publish, !.saved = x.cfg, !.editing = TRUE]

\* Mutant: done() leaves the registration to be committed by someone else.
DoneWithoutCommit(x) ==
  LET left == IF ServerConfigChanged(x) THEN NoOperation(x) ELSE x
  IN  [left EXCEPT !.editing = FALSE]

\* linphone_proxy_config_done(): when the server has changed the operation is
\* left to unregister on its own (unless only parameters differ), and is not
\* heard any more.
DoneProxy(x) ==
  LET left == IF ServerConfigChanged(x) THEN NoOperation(x) ELSE x
  IN  [left EXCEPT !.commit = TRUE, !.editing = FALSE]

\* linphone_core_add_proxy_config()
AddProxyTo(s, p) ==
  [s EXCEPT !.proxies = Append(@, p), !.px[p] = DoneProxy(@)]

\* Edited and no longer enabled.
Disabled(x) == [EditProxy(x) EXCEPT !.enabled = FALSE]

\* linphone_core_remove_proxy_config()
Unlisted(s, p) ==
  [s EXCEPT !.proxies = RemoveAt(@, CHOOSE i \in DOMAIN @ : @[i] = p), !.deleted = @ \cup {p}]

RemoveProxyFrom(s, p) ==
  LET gone == Unlisted(s, p)
      edited == [gone EXCEPT !.px[p] = DoneProxy(Disabled(@))]
      left == IF s.px[p].state = "Ok" THEN UpdateProxy(edited, p, TRUE) ELSE gone
  IN  [left EXCEPT !.default = IF @ = p THEN NoProxy ELSE @]

\* proxy_update(), the second loop: the object is freed after 32 seconds.
ForgetProxy(s, p) == [s EXCEPT !.deleted = @ \ {p}, !.px[p] = NewProxy]

\* Handler(t, p) for each proxy of the list in turn.
ForEachProxy(Handler(_, _), s) ==
  LET after[i \in 0..Len(s.proxies)] ==
        IF i = 0 THEN s ELSE Handler(after[i - 1], s.proxies[i])
  IN  after[Len(s.proxies)]

\* The same when the handler looks at the proxy, and changes it, alone.
EachProxy(Handler(_), s) ==
  [s EXCEPT !.px = [p \in Proxy |-> IF p \in ListedProxies(s) THEN Handler(s.px[p])
                                   ELSE s.px[p]]]

\* __linphone_core_invalidate_registers()
InvalidateRegisters(s) ==
  EachProxy(LAMBDA x : IF x.enabled THEN DoneProxy(EditProxy(x)) ELSE x, s)

\* linphone_core_refresh_registers()
RefreshRegisters(s) == ForEachProxy(RefreshRegisterOf, s)

\* set_network_reachable(), up
NetworkUp(s) ==
  [EachProxy(LAMBDA x : IF x.enabled THEN [x EXCEPT !.commit = TRUE] ELSE x, s) EXCEPT !.net = TRUE]

\* The registration of a proxy that registers is released.
Released(s, p) ==
  IF s.px[p].enabled
  THEN SetState([s EXCEPT !.px[p] = [NoOperation(@) EXCEPT !.pubop = FALSE]], p, "None")
  ELSE s

\* set_network_reachable(), down: all subscriptions are released with them.
NetworkLost(s) == InvalidateFriends([s EXCEPT !.net = FALSE])

NetworkDown(s) == NetworkLost(ForEachProxy(Released, s))

\* linphone_core_send_presence()
SendPresence(s) ==
  EachProxy(LAMBDA x : IF x.publish THEN SendPublish(x) ELSE x, NotifyAllFriends(s))

-----------------------------------------------------------------------------
(* Answers to the REGISTER                                                 *)

\* register_refresher_listener() with 200, and register_success()
RegisterSuccess(s, p) ==
  LET x == s.px[p]
  IN  SetState([s EXCEPT !.px[p] = [x EXCEPT !.busy = FALSE,
                                      !.auth = IF @ = "pending" THEN "known" ELSE @]],
               p, IF x.wants = "register" THEN "Ok" ELSE "Cleared")

\* How a REGISTER fails: 503 or no connection, no answer, a challenge without
\* known password, any other refusal.
Failure == {"unavailable", "timeout", "challenge", "refused"}

\* What a failure leaves of the operation: the refresher tries again on its own
\* unless the refusal was final.
Failed(x, how) ==
  [x EXCEPT !.busy = FALSE,
            !.refresher = IF @ = "on" /\ how \in {"challenge", "refused"} THEN "off" ELSE @,
            !.auth = IF how = "challenge" \/ @ # "none" THEN "pending" ELSE @]

\* Mutant: a publication lost with the registration is not sent again.
PublishLost(x) == [x EXCEPT !.pubop = FALSE]

\* register_failure(): the publication waits for the next registration.
PublishLater(x) == IF x.pubop THEN [x EXCEPT !.pubop = FALSE, !.send = x.publish] ELSE x

\* Mutant: a retried registration is shown as failed, and the retry as well.
StateAfterProgress(x, how) == "Progress"

\* register_failure(): the state to show.
StateAfter(x, how) == IF how = "unavailable" /\ x.state = "Ok" THEN "Progress" ELSE "Failed"

\* register_refresher_listener() with an error, and register_failure()
RegisterFailure(s, p, how) ==
  LET t == SetState([s EXCEPT !.px[p] = Failed(@, how)], p, StateAfter(s.px[p], how))
  IN  [t EXCEPT !.px[p] = PublishLater(@)]

\* The operation has been challenged and waits for a password.
Waiting(x) == x.op /\ x.auth = "pending"

\* What linphone_core_add_auth_info() does of it.
Again(x) == IF Waiting(x) THEN Refresh(x, x.wants) ELSE x

Restarted(s, p) ==
  LET t == SetState(s, p, "Progress")
  IN  IF Waiting(s.px[p]) THEN [t EXCEPT !.px[p] = Again(t.px[p])] ELSE s

\* linphone_core_add_auth_info(): the operations that wait for a password are
\* sent again, whatever has become of their proxy; those of the list first.
RestartedUnlisted(s) ==
  [s EXCEPT !.px = [p \in Proxy |-> IF p \in ListedProxies(s) THEN s.px[p] ELSE Again(s.px[p])]]

AddAuthInfoTo(s) == RestartedUnlisted(ForEachProxy(Restarted, s))
=============================================================================
