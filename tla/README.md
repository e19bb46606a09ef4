# Verification of the liblinphone core

The repository is an iOS telephone built on liblinphone, whose sources are under
`src/coreapi`. This directory holds TLA+ specifications of its core logic, the TLC
configurations that check them on small instances, and theorems proved with TLAPS.
Paths below are relative to `src/coreapi` unless they start with `src/`; `sal_*.c` are in
`bellesip_sal/`.

## 1. The system

| Component | Sources | State it keeps | Operations | Modelled in |
|---|---|---|---|---|
| Call control | `linphonecore.c`, `callbacks.c`, `linphonecall.c` | `lc->calls`, `current_call`, `ringstream`; per call `state`, `prevstate`, streams, descriptions, referer, ICE session, log | the public API on calls, the SAL callbacks `call_*` and `refer_received`, the timers of `linphone_core_iterate()`, queued tasks | `CallStates`, `CallOps`, `CallCore` |
| SAL call operation | `sal_op_call.c`, `sal_op_impl.c`, `sal_op_call_transfer.c` | dialog, `state`, pending client and server transactions, descriptions | `sal_call*()`, the handlers of requests, responses, timeouts and dialog ends | in detail in `SalCallOp`; what the call control sees of it in `CallOps` and `CallCore` |
| Offer/answer | `offeranswer.c`, `sal.c`, the streams of `linphonecall.c` | none | negotiation of lines, codecs, directions, suites and keys | `OfferAnswer`; directions also in `CallStates` |
| Conference | `conference.c` | mixer, members, local participant | add, remove, enter, leave, add all, terminate | `Conference` |
| LinphoneEvent | `event.c`, `sal_op_events.c`, `sal_op_publish.c` | subscription and publish state, references | subscribe, accept, deny, notify, publish, terminate, the callbacks | `Events` |
| Registration | `proxy.c`, `authentication.c`, `sal_op_registration.c` | per proxy: state, commit and publish flags, operation, refresher; the network | edit, done, refresh, pause, add, remove, success, failure, challenge | `Registration`, `Account` |
| Friends and presence | `friend.c`, `presence.c`, `sal_op_presence.c` | subscriptions in and out, policy, lists | add, remove, apply, NOTIFY and SUBSCRIBE received, answers | `Friends`, `Account` |
| Chat | `chat.c`, `message_storage.c`, `sal_op_message.c` | messages in transit, file transfers, composing timers, identifiers received | send, delivery, upload, download, receive | `Chat` |
| uPnP | `upnp.c` | context, bindings, pending list, session of a call, section of the configuration | the hook, replies, start, update and end of a call, destruction | `Upnp` |
| SDP, transports, configuration, quality reports, LIME, tunnel, provisioning, players, user interfaces, tester | see `PROJECT.json` | | | no: data conversion, I/O, external libraries, or views |

Except for uPnP and the media, which mediastreamer2 runs, the core is single threaded.
Everything happens inside a call of the public API or of `linphone_core_iterate()`, which
runs the SIP stack, the media events and the timers. What makes it hard is not preemption
but *re-entrance and order*:

* the C functions nest deeply: accepting one call terminates the calls being placed,
  terminates the call it replaces, pauses the current one, and only then answers;
* every change of state notifies the application, which may call the API again;
* offers, answers, refusals, CANCEL, BYE, REFER, UPDATE and NOTIFY of the far end arrive
  between any two calls of the application, and the end of one object touches shared state
  (the list, the current call, the ring tone, the mixer, the default proxy);
* some handlers wait, for ICE candidates, port mappings, an upload or a password, and what
  they waited for may have changed when it is there;
* a wish and what is are kept apart until an answer comes: `params` and `current_params`,
  `prevstate`, `commit` and `send_publish`, `subscribe_active`, `to_add` and `to_remove`;
* references are counted by hand on both sides of a request.

uPnP has true concurrency: libupnp delivers replies in a thread of its own, which shares
the bindings with the main thread under a mutex that not every function takes.

`PROJECT.json` lists each of these hazards at the line where it bites, with the
properties that would catch it, or the reason why none does.

## 2. The modules

```
CallStates        states, groups of states, directions (pure)
   |
CallOps           the C functions of a call, as operators from a core to a core
   |
CallCore          VARIABLE lc; one action per API call, SAL callback, timer; Spec
   |
CallProperties    invariants, action properties, fairness, liveness, refinement
   |        \---- INSTANCE CallLifecycle      what an application may rely on
MCCallCore                                    CallListProofs   types, limit, list, dialog, log
                                                 |--- CallMediaProofs   waiting, media, tone
                                                 \--- CallLifecycleProofs   refinement

Friends           the functions of a friend, on an account
   |
Registration      the functions of a proxy configuration, which call those of Friends
   |
Account           VARIABLE ac; one action per API call, callback, turn of the main loop
   |
AccountProperties    invariants, liveness
   |        \---- AccountProofs
MCAccount

Events       Chat       OfferAnswer       Upnp       Conference       SalCallOp
   |  Messaging-   |              |             |  Upnp-     |  Conference-  |  SalCallOpProofs
   |  Proofs       |              |             |  Proofs    |  Proofs       |
   \--------------+-------------- MCServices --+------------+---------------/
```

### Calls

**CallStates** has the `LinphoneCallState` values and the sets of states the code
distinguishes in its switches (`Alerting`, `Outgoing`, `AwaitingAnswer`, `Transient`,
`LocksSound`), and the algebra of media directions: what an offer with a direction
becomes on our side, and the test `sal_media_description_has_dir()`, for which an inactive
stream counts both as sendonly and as recvonly.

**CallOps** has one record type, `CoreType`: the list of calls, the current call, the ring
tone, and one function per field of `LinphoneCall` or `SalOp` the code branches on. Each C
function is an operator that takes a core and returns a core, and they call one another as in
the code: `AcceptCall` applies `PrepareAccept` (cancel the outgoing calls, end the replaced
one, stop ringing, preempt), `SalAccept`, `SetState` for Connected, then `UpdateStreams` and
`SetState` for StreamsRunning. `SetState` is `linphone_call_set_state()` with everything it does on
the way: `prevstate` is overwritten before the change is refused, Refered is never stored,
End and Error settle the log and release media, list entry and current call, Released drops
the operation and the referer.

The operation of a call (`SalOp`) is seen from above: `op` is its phase, `ct` our
outstanding in-dialog request, `pend` the INVITE and UPDATE of the far end that are
unanswered, `rmd` what the last offer carried, `busy` another request in the dialog.
`SalAccept` prefers a pending UPDATE and `SalDecline` a pending INVITE, as the two C
functions do.

**CallCore** has one action per entry point. Actions of the application check only what
the API function checks; actions of the SAL have the guards that say when
`sal_op_call.c` makes the callback. The parameters of an action (what the offer carries, what
the answer negotiates, whether an offer is compatible, whether the application defers or hangs
up) are chosen by `\E`.

**CallLifecycle** is the abstract specification: five phases per call and the list of
calls, with forward steps only. `CallProperties!Lifecycle` instantiates it with a
refinement mapping from the call state and the operation to the phase.

**Conference** has the mixer, the local participant and, per call, what is wished (`want`),
what is (`cur`), where its stream is plugged (`media`) and the direction. The calls are those
of `CallOps`, reduced to what the conference depends on; `PauseParty`, `ResumeParty`,
`PreemptSound` and `EndParty` are the branches of the call control that look at the
conference, and `CheckUninit` runs at the end of every call, as in
`linphone_call_set_terminated()`.

**OfferAnswer** is the procedure of `offeranswer.c` as functions, and an exchange in two steps:
the callee answers an offer (`AnswerTo`) and runs its streams (`RunByCallee`), the caller
takes the answer (`InitiateOutgoing`). A start may also fix the answer, for that of another
implementation.

### The account

**Friends** has the outgoing and the incoming subscription of each friend with its operation
and refresher, and the look-up of its proxy; **Registration** the proxy configuration, its
REGISTER and PUBLISH operations, retries and challenges. They are modules of operators, like
`CallOps`: a change of the state of a proxy runs through its friends in the same step
(`SetState`, `UpdateFriends`). What the code does in a loop over the list of proxies is written in
two ways. `ForEachProxy` applies a handler to the whole account for one proxy after the other, as a
recursive function, where a step of one proxy may change what the next one finds (through the
friends they share). `EachProxy` changes all at once where the handler looks at one proxy alone.
**Account** has the actions. `Iterate` is `proxy_update()` and the first subscriptions: its
parameters say whose requests cannot be sent and whether the subscriptions are due. A *scope* bounds a behaviour: its proxies, its friends,
what the application does and how a REGISTER may fail.

### Services

**Events** has one record per `LinphoneEvent`: both states, the references, what was sent and
not answered, and the refresher, on or manual. **Chat** has one room: its messages with the
references of the application, of the transient list, of MESSAGEs and uploads in transit;
composing on both sides; and the memory of identifiers, with a history `accepted` of what the
application was given. **Upnp** has an action per critical section, in the main thread or in
that of libupnp; requests in flight are a bag, so replies come in any order; the router's table
and the three lists of the configuration's section are state.

**SalCallOp** has one operation of a call with what `CallOps` abstracts: `op->state`, the
references, the client transactions as a bag of methods and states, `pending_client_trans`, the
server transactions, the dialog and whether `op->dialog` points to it, the task that releases the
operation later, the request that waits for a password. An operator per C function takes an
operation and returns one, and the actions are the callbacks of the SIP stack and the functions of
the SAL the core calls. The application is reduced to what it thinks of the call: `live`, `over`
or `gone`. The stack itself is a library: `DialogAfter` and `Responds` say which answers it can
bring in which state of the dialog.

**MCServices** puts the six together without sharing state: `focus` says which one a
behaviour is about, so that their state spaces add up and do not multiply.

### From the code to the model

| Code | Model |
|---|---|
| `linphone_core_invite_address_with_params`, `start_invite`, `restart_invite` | `Invite`, `InviteCall`, `StartInvite`, `RestartInvite`, `DelayedInvite` |
| `call_received`, `linphone_core_notify_incoming_call` | `Receive`, `CallReceived`, `NotifyIncoming`, `Announce` |
| `linphone_core_accept_early_media_with_params`, `linphone_core_accept_call_with_params` | `AcceptEarlyMedia`, `Accept`, `AcceptCall`, `CancelOutgoing` |
| `linphone_core_decline_call`, `_terminate_call`, `_abort_call` | `Decline`, `Terminate`, `DeclineCall`, `TerminateCall`, `AbortCall` |
| `_linphone_core_pause_call`, `linphone_core_resume_call`, `_preempt_sound_resources` | `Pause`, `Resume`, `PauseCall`, `ResumeCall`, `Preempt` |
| `linphone_core_update_call`, `_accept_call_update`, `_defer_call_update` | `Update`, `AcceptCallUpdate`, the choice `deferred` |
| `call_ringing`, `call_accepted`, `call_ack`, `call_failure`, `call_terminated`, `call_released` | `Ringing`, `Answered200`, `OfferAccepted`, `Ack`, `InviteFailed`, `OfferRejected`, `Bye`, `Cancel`, `Release` |
| `call_updating`, `call_updated_by_remote`, `call_resumed`, `call_paused_by_remote` | `PeerOffer`, `EarlyOffer`, `CallUpdating`, `UpdatedByRemote` |
| `refer_received`, `linphone_core_start_refered_call`, `resume_call_after_failed_transfer` | `Refer`, `StartReferedCall`, `RunTask` |
| `handle_ice_events` | `Gathered`, `IceGathered` |
| `linphone_core_iterate` | `IncomingTimeout`, `DelayedInvite`; `Iterate` of `Account` for the proxies |
| `linphone_core_add_to_conference`, `remove_from_conference`, `convert_conference_to_call`, `linphone_core_conference_check_uninit` | `AddParty`, `RemoveMember`, `Convert`, `CheckUninit` |
| `linphone_proxy_config_edit`, `_done`, `_update`, `_register`, `_send_publish` | `EditProxy`, `DoneProxy`, `UpdateProxy`, `Register`, `SendPublish` |
| `register_refresher_listener`, `register_success`, `register_failure` | `Registered`, `RegistrationFails`, `RegisterSuccess`, `RegisterFailure` |
| `linphone_friend_update_subscribes`, `linphone_friend_apply`, `linphone_notify_recv` | `UpdateSubscribes`, `Apply`, `NotifyReceived`, `SubscriptionEnded` |
| `linphone_event_set_state`, `_set_publish_state`, `_terminate`, `_unref` | `SetSubscription`, `SetPublish`, `TerminateEvent`, `UnrefEvent` |
| `_linphone_chat_room_send_message`, `text_delivery_update`, `is_duplicate_msg` | `Posted`, `DeliveryUpdate`, `LookedUp` |
| `call_process_response`, `process_response_event`, `sal_process_authentication` | `ProcessResponse` with `EarlyResponse` and `ConfirmedResponse`; `Response`, `Challenged` |
| `sal_call`, `sal_call_terminate`, `cancelling_invite`, `call_set_released`, `set_or_update_dialog` | `PlaceCall`, `TerminateOp`, `CancellingInvite`, `CallSetReleased`, `LinkDialog` |
| `call_process_transaction_terminated`, `process_dialog_terminated`, `call_process_timeout` | `AfterTransaction`, `DialogEnds`, `GivesUp` |
| `offer_answer_initiate_incoming`, `_outgoing`, `sdp_process` | `AnswerTo`, `RunByCaller`, `RunByCallee` |
| `linphone_upnp_update_port_binding`, `linphone_upnp_igd_callback`, `linphone_upnp_core_hook_callback`, `linphone_upnp_context_destroy` | `UpdatePort`, `Reply`, `Hook`, `DestroyContext` and `ContextGone` |

`PROJECT.json` maps every definition to its lines.

### Abstractions

* A call object is used once: `Fresh(c)` bounds the calls of a behaviour, not the calls at
  one time, which `MaxCalls` bounds as in the code.
* In the call control a media description is the direction of its one stream, or one the call
  cannot use: no common stream (`"bad"`), or streams whose encryption is not the mandatory one
  (`"insecure"`). `OfferAnswer` has the whole description, without state.
* In the call control a request that is answered is no longer pending. In the code
  `pending_server_trans` stays until its transaction terminates (`sal_op_call.c:853`);
  `SalCallOp` models the server transactions.
* A transport, a transaction and a dialog are the guards of the SAL actions. The phase
  `cancelling` covers a CANCEL not yet sent, sent, and crossing a 200; `terminating` covers
  BYE and error responses. From both only `call_released()` comes back.
* `Faults`, and `faults` in `Upnp` and `Conference`, is the set of things the environment may do
  besides the ordinary. Each is something the code lets happen; it is a switch so that a run can
  say which promises hold without it. A run without a fault says nothing about that situation.
* A refresher is `none`, `off` (it exists, stopped) or `on`; its timer is a choice.
* Friends: `excuse` records why a subscription that is wanted may not be kept up: the far end
  ended it, a NOTIFY came after it was suspended, its refresh was refused or it timed out, or the
  friend now belongs to another proxy. The presence document is not modelled.
* Events: `revived` marks an event over that a late 200 or NOTIFY made active again.
* Chat: what becomes of a MESSAGE is chosen when it is posted (`MessageFate`). The composing
  states are there because sending changes them; no property is about them.
* OfferAnswer: payloads match by codec; the fmtp of AMR, opus and G729 are part of the codec.
* Upnp: faults are chosen in `UpnpInit`; a handler that sends several requests has one choice
  whether libupnp takes them; a slot wants one of its own local ports only. `last_update`
  (`upnp.c:961`) is the flag `due`: the request of a collected binding is taken as due unless
  `hurry`, which matters within the retry delay only. The second re-INVITE that
  `linphone_upnp_call_process()` (`upnp.c:833`) may send for a call still Updating after a removal
  is left out.
* SalCallOp: requests are INVITE, CANCEL, BYE and `INFO`, which stands for those that do not
  change the call (INFO, UPDATE before the answer). No INVITE of one side crosses one of the
  other, which the stack refuses. REFER, NOTIFY, PRACK, OPTIONS and the timer of a VFU request
  sent again are left out; `CallOps` has REFER and the UPDATE of the far end.
* Conference: the user waits for the answer of a request before the next one, unless `hurry`. A
  call does not end while another joins, unless `crossing`; so a call that is accepted, which ends
  the calls being placed, is accepted then only when there is none.
* Not in the model of calls: the OPTIONS ping before an INVITE, `in_call_timeout` (a `Terminate`
  by timer), the deferral of an answer while ICE losing pairs are pending
  (`linphonecore.c:3615`; the delay is a regather), `sal_call_update()` without user
  consent, `keep_sdp_version` (`linphonecore.c:3672`, off by default: an unchanged offer is
  answered without touching the media), timeouts of the far end's requests, DTMF, video, call
  forwarding. `PROJECT.json` says
  for each component what is left out of it.

## 3. The properties

Of calls (`CallProperties`), at every moment between two handlers:

* `CallListExact`, `CurrentInList`: the list and the current call have no ended call, and
  the list misses no live one.
* `RingHasReason`: one ring stream serves all calls, and plays only for an unanswered one.
* `EndedHoldsNothing`: no sound card, socket or ICE session for a call outside the list.
* `AnsweredHasDialog`, `EndedIsClosing`: the state shown and the SIP dialog agree.
* `HoldMatchesMedia`: Paused and PausedByRemote have the negotiated direction of a hold.
* `WaitsForSomething`, `UpdateCanBeAnswered`: whoever waits will be answered; an update
  shown to the application still has its transaction.
* `RestoresSettled`: `prevstate`, to which a refusal returns, is not itself a waiting state.
* `AnsweredIsLogged`, `WithinLimit`; action properties `SwitchPausesCurrent`,
  `AcceptCancelsOutgoing`, `AnsweredLogKept`; liveness `EndedIsReleased`, `RequestSettles`,
  `ResumeTaskEnds`; refinement `ImplementsLifecycle`.

Of the account (`AccountProperties`):

* `PublishNotForgotten`: a presence to publish is published or something will publish it,
  through failures, edits, losses of the network and changes of presence.
* `ProgressIsGoingOn`, and under fairness `RegistrationSettles`: Progress is no place to rest.
* `WantedIsRefreshed`: the presence of a friend is subscribed to whenever it may be.

Of the services, each in its module:

* Events. `ReferenceBalance`: the references counted are those of the application, of the
  operation and of the core, and none is given back twice. `InitIsGoingOn`: an event shown as
  starting has a request that may be answered.
* Chat. `AwaitedIsHeld`: a message whose answer, upload or download is awaited is not freed
  under it. `TransientIsUnanswered`: the list of messages in transit has those that are, and no others.
  `RecentAreDistinct`: what the far end repeats is not shown twice.
* Offer/answer. `AnswerFitsOffer`: as many lines as offered, each of the proposed kind, with
  common codecs, a permitted direction and the suite and number of the proposal.
  `BothSidesAgree`: what one side runs is what the other expects: who sends, with which
  codec and number, and both or neither encrypted.
* uPnP. `BindingsAreCounted`: a binding has one reference per holder. `DestroyerIsWoken`: the
  destruction never waits for a reply nobody will send. `MappingIsRemembered`: what the router
  maps for us is in the configuration, or will be. `WishIsFollowed`: a slot at rest has the
  mapping last wished for. `HeldCallGoesOn`: a call that waits for its mapping has a reply
  under way.
* Conference. `MixerIsThere`: members and streams plugged in have a mixer.
  `SoundHasOneUser`: of the running streams and the local participant, one has the sound card.
* Operation of a call. `OpIsCounted`: each pointer to an operation has its reference, nothing runs
  on one that is freed, and no late failure is reported of a call the core has released.
  `EndIsCarriedOut`: whichever way CANCEL, BYE, answers, refusals and timeouts cross, something
  will release the operation of a call that is over, and once it is released the far end is
  neither called, nor waiting, nor in the call.

The comment at each property names the functions it is about.

## 4. The runs

| Run | Module | Instance | Properties |
|---|---|---|---|
| `CallsTwo` | `MCCallCore` | 2 calls, hold, refused and unusable answers | type, current call, tones, closing dialog, media, log, waiting; the action properties on switching and accepting; the refinement |
| `CallsIce` | `MCCallCore` | 2 calls, ICE | `EndedHoldsNothing`, `UpdateCanBeAnswered`, when handlers wait for candidates |
| `CallsWide` | `MCCallCore` | 1 call, every direction, unusable and insecure answers, offers without SDP, early media, one retry | `AnsweredHasDialog` under the widest inputs of a single call |
| `CallsFaults` | `MCCallCore` | 2 calls, five faults | `CallListExact` and `AnsweredLogKept`, which survive a busy dialog, a hang-up inside a callback, an INVITE that fails at once, first or sent again after a refusal, a REFER in the middle of a request, an UPDATE on hold |
| `CallsLimit` | `MCCallCore` | 2 calls, `MaxCalls = 1`, the four faults before the answer | `WithinLimit`, when a call may stay in the list for ever |
| `CallsLive` | `MCCallCore` | 2 calls, `FairSpec` | liveness |
| `Account` | `MCAccount` | four scopes, `AccountFairSpec` | those of the account |
| `Services` | `MCServices` | one focus at a time, every start | those of the services |
| `DocRunningMedia`, `DocAnswersOffer`, `DocReleased` | `MCCallCore` | 1 call each | disagreements between the code and what the repository says (section 6) |
| `DocKeys` | `MCServices` | the encrypted exchanges | the same, of offer and answer |

`CHECK_DEADLOCK FALSE`, except in `Account`: when every call of the instance is Released, every
event is freed or the exchange is over, there is nothing left to do. The account can always
be edited or registered again, so there a deadlock would be an error. Calls are symmetric,
except in the liveness run, where symmetry would be unsound.

**Bounds of the calls.** The code treats calls as "this one", "the current one" and "all the
others", and the handlers that touch another call touch the current one, a referer, a
replaced call, or the outgoing ones. Two calls show every such pair: a call and its
referer, a call and the one it replaces, a call being answered and one being placed, a full
list (`MaxCalls = 1`). Most of what needs three calls (a transfer to a third while a second
rings) is a sequence of such pairs, as the handlers go through the others one at a time. One
behaviour is not: a REFER in a running call that is not the current one pauses the referer,
and with it forgets the running call that is current (section 6).
The theorems of section 5 are of any number of calls. One retry is enough to reach the fall-back and its failure. Offers and answers are reduced to the
directions that lead to different branches, and one run has them all.

**Bounds of the account.** The scopes of `MCAccount` are `Registering` (one proxy, every
operation and failure), `Subscribing` (a friend whose proxy comes and goes), `Choosing` (two
proxies of one domain) and `Foreign` (a friend of no domain). One proxy acts on another only
through the friends they share, and through the default proxy; two proxies show that.

**Bounds of the services.** One event and one message, as the code never relates two, with two
references of the application. `MaxIds` is 3 where the code has 10, with four identifiers,
so that the memory overflows. uPnP: two bindings (one of the core, one of a call),
`MaxRetry` 2 where the code has 4, two contexts so that one is destroyed under a reply of the
other, one loss and one binding pending; its faults are taken together where a property
survives them. The conference has three calls without faults, enough for the conversion that
happens when a third leaves, and two with the faults `held`, `refused`, `forgotten`; the theorems
of section 5 are about any number of either. The
exchanges of `OfferAnswer` are lists of starts: every pair of directions; pairs of codec
lists with one, several and no common codec and with reordered or renumbered payloads;
answers of another implementation; suites in common in each position. `SalCallOp`: four client
transactions at a time (an INVITE, its CANCEL, a BYE and its repetition), two server transactions
answered besides the INVITE and the BYE, one lost reference, and the faults two by two.

**Fairness.** Of the calls: `Release`, `Gathered`, and the answer to our in-dialog request are
weakly fair: `linphone_core_iterate()` runs the stack and the media events at every turn, and
a transaction of the SIP stack ends by an answer or by its own timeout. `RunTask` is strongly
fair: a queued task is polled at every turn of the main loop, but is enabled on and off as
the user pauses and resumes. Of the account: a turn of the main loop is weakly fair, and so is,
per proxy, the end of its REGISTER (success, failure, or the refresher sending the next one).
Nothing is assumed of the user, of the far end's user, or of the INVITE being answered.

## 5. What is proved

Every theorem is of the whole specification, for any value of the constants under the named
assumptions of its module, and the hypotheses it states.

| Theorem | Module | States |
|---|---|---|
| `TypeCorrect`, `LimitKept` | `CallListProofs` | `TypeOK`, `WithinLimit` |
| `CallsAreConsistent` | `CallListProofs` | the inductive invariant `Consistent` |
| `ListIsExact`, `CurrentIsListed`, `AnswerNeedsDialog`, `AnswerIsLogged` | `CallListProofs` | `CallListExact`, `CurrentInList`, `AnsweredHasDialog`, `AnsweredIsLogged` |
| `SuccessIsKept` | `CallListProofs` | the action property `AnsweredLogKept` |
| `MediaAreOrderly` | `CallMediaProofs` | the inductive invariant `Orderly` |
| `WaitHasRequest`, `RestoreSettles`, `UpdateIsPending` | `CallMediaProofs` | `WaitsForSomething`, `RestoresSettled`, `UpdateCanBeAnswered` |
| `HoldHasMedia`, `RingIsForACall` | `CallMediaProofs` | `HoldMatchesMedia`, `RingHasReason` |
| `EndedLetsGo`, `EndClosesDialog` | `CallMediaProofs` | `EndedHoldsNothing`, `EndedIsClosing` |
| `TurningPausesTheOther` | `CallMediaProofs` | the action property `SwitchPausesCurrent` |
| `LifecycleImplemented` | `CallLifecycleProofs` | the refinement `ImplementsLifecycle` |
| `AnswerLeavesNonePlaced` | `CallLifecycleProofs` | the action property `AcceptCancelsOutgoing` |
| `OperationIsCounted`, `EndOfCallIsCarriedOut` | `SalCallOpProofs` | `OpIsCounted`, `EndIsCarriedOut` |
| `AccountIsTyped`, `PublicationIsKept`, `ProgressGoesOn`, `PresenceIsSubscribed` | `AccountProofs` | `AccountTypeOK`, `PublishNotForgotten`, `ProgressIsGoingOn`, `WantedIsRefreshed` |
| `EventsTypeCorrect`, `EventsBalanced`, `EventsInitGoesOn` | `MessagingProofs` | types, `ReferenceBalance`, `InitIsGoingOn` |
| `ConfAlways` | `ConferenceProofs` | the inductive invariant `ConfInv` |
| `MixerIsAlwaysThere`, `SoundAlwaysHasOneUser` | `ConferenceProofs` | `MixerIsThere`, `SoundHasOneUser` |
| `AwaitedMessagesAreHeld`, `TransientMessagesAreUnanswered`, `RecentMessagesAreDistinct` | `MessagingProofs` | `AwaitedIsHeld`, `TransientIsUnanswered`, `RecentAreDistinct` |
| `ReferencesAreCounted`, `DestructionIsWoken` | `UpnpProofs` | `BindingsAreCounted`, `DestroyerIsWoken` |

### Calls

**Types and limit** (`CallListProofs`), for any set of calls, any limit and any switches. `TypeOK` is inductive by
itself; the limit needs `LimitInv == IsFiniteSet(lc.calls) /\ WithinLimit`, since it says nothing
of an infinite set, whose cardinality is no number. `Within(s, t)` says that `t` is well typed and
lists no call that `s` does not list, `Keeps(s, t)` that it also makes no other call current; both are
reflexive and transitive, so a handler keeps whatever
the operators it is composed of keep. Each operator of `CallOps` has a lemma `...Keeps`, in the
order of the module: updates of a field, `SetState`, then the handlers. Two handlers add a call,
`InviteCall` and `CallReceived`, and `StartReferedCall` through the first; they satisfy the weaker
`Limited`, in which one call may join a list that was below the limit *at that moment*, after the
preemption.

**List, dialog and log** (`CallListProofs`), for the same. None of its properties is inductive: which states a handler may
find a call in depends on the phase of its operation, and that on the requests pending on either
side. `Consistent` is the type, `CurrentFits`, and one row per call, `CallFits`:

* `OpFits`, the table of phases and states:

  | state | `op` |
  |---|---|
  | Idle | none, ringing |
  | Released | none |
  | OutgoingInit | init |
  | a state that awaits the answer | inviting, early |
  | a state that alerts | ringing |
  | EarlyUpdatedByRemote | early, ringing, active |
  | an answered state | active |
  | End, Error | none, init, active, cancelling, terminating |

* `ListFits`: what is in `lc->calls`. `OfferFits`: as long as a call rings its INVITE waits, so that
  accepting or declining it answers that one and not an older UPDATE.
* `RequestFits`, `PrevFits`: a request of ours waits only in an answered call, and `prevstate`, to
  which a refusal returns, is a state of an answered call. Without them a 488 to a re-INVITE could
  bring back a state whose row in the table the operation does not fit.
* `LogFits`: no reason of failure is recorded of a call that goes on, so nothing overwrites the
  success of its log.

`Leads(s, t)` says that `t` is consistent, and that no success in the log of `s` is missing in
`t`. It composes, so each handler is a chain of its parts; a handler that touches one call is
dealt with by its row alone (`OnlyLeads`), and what changes only media, tones and timers is `Silent`.

The hypotheses name situations in which the promise is broken by the code, not by the proof
(section 6). `Mannerly` leaves out three faults: after `initial491` a call is back in Idle with no
operation and still listed; `earlyUpdate` leaves it in EarlyUpdating; `refusedUpdate` releases it
while listed. `CurrentIsListed` also leaves out `appHangup`, and `AnswerNeedsDialog` and
`AnswerIsLogged` ICE, with which a 200 may find the call in EarlyUpdatedByRemote, a state that
`call_accepted()` does not turn into Connected. All other faults (`dialogBusy`, `referMidway`,
`updateOnHold`, ...) are allowed.

**`CallMediaProofs`**, for the same, adds to `Consistent`:

* `Tidy`, of each call. `TidyRequest`: a state that waits has a request of ours unanswered and a
  `prevstate` that waits for nothing; a state that asks the application about an offer has the offer.
  `TidyHold`: a call on hold, *or whose refused request would bring a hold back*, has the media of a
  hold; without the second half a refused Resuming would break the first. `TidyEnd`: a
  call that is over has a closing operation, and holds no stream or gathering. `TidyPlain`: what no handler leaves behind
  (Connected, an INVITE without SDP, a media description awaited in an ACK).
* `Reason`: when the tone plays, a call is being placed, or the current call is announced and
  *every* listed call still rings. "Some call is unanswered" is not inductive: the handler that
  accepts a call silences the tone only because the tone was not for another one.

All that `Tidy` says of a call is in its `Row`. `Makes(s, t, c, r)` says that from `s` to `t` the row
of `c` becomes `r` and no other row changes, `Aside(s, t)` that none does; single updates are
`Makes` or `Aside`, `One` forgets the new row, and a handler of one call is right when its new row is
(`OneTidy`). Handlers of several calls (accepting, resuming, placing, announcing a call) are chains of
such handlers, each on its own call.

`TurningPausesTheOther` needs the media: `_linphone_core_pause_call()` refuses a running call it
neither hears nor speaks to, so `TidyHold` also says that without `"recvonly"` offers a running call
hears its far end. A handler `Turns` when the current call stays current, or is forgotten, or runs
no more (`Quits`); that composes with handlers that start no call (`NoneStarts`). Most steps
make no other call current, by `Keeps`. Of the others, accepting, resuming and
placing a call, and announcing one that replaces another, preempt the current one first, which
then is Pausing or over. Its hypotheses beyond `Quiet`: no `"recvonly"` (section 6), and no ICE,
with which an early UPDATE leaves a call in EarlyUpdatedByRemote, whose 200 then makes it current.

Its hypothesis `Quiet` leaves out all faults but `lateProvisional`, and offers without SDP. Each of
them breaks at least one of the seven properties (section 6); that another survives it, the
theorems do not say: TLC finds `RingHasReason` and `EndedIsClosing` true of two calls with
`dialogBusy`, `appHangup` or `referMidway`. `WaitHasRequest`, `RestoreSettles` and
`EndClosesDialog` also leave out ICE: a REFER may come while a request waits for its candidates,
and overwrites `prevstate` although nothing is pending; and a call that is hung up while it gathers
never had an operation that could close.

**`CallLifecycleProofs`**: `CallCore` implements `CallLifecycle`, with no fault left out but those of
`Mannerly`. The mapping is `PhaseOf` and `lc.calls`. `Consistent` before and after the step lets a
phase be read off the state and the list (`PhaseRow`): talking is an answered state, pending a
listed call that is not answered. A handler is followed through what it calls with three
relations that compose: `Steady` (no call is answered, none goes back), `Still` (this call is where
it was, or in another state of an answered call) and `Proceeds` (every call goes forward, and only
`c` may be answered), the last for the handlers that end other calls on their way: accepting a call
cancels outgoing ones, and a call with Replaces ends the one it replaces. Which phases a move
joins is then settled once, in `MoveImplements`, `SteadyImplements` and `ProceedsImplements`.
The hypothesis `~ UseIce` is needed: with ICE an UPDATE in a paused call, whose answer waits for
candidates, leaves it in EarlyUpdatedByRemote (`callbacks.c:702`), from talking back to pending.

`AnswerLeavesNonePlaced` goes through the same handlers: none but `Accept` takes a call that alerts
to an answered state (`NextAccepts`), and in `Accept` the loop over the list ends every call being
placed, since `Consistent` says that each is listed and that ending it succeeds. The call that the
answered one replaces is ended after the loop, and starts none.

### The operation of a call

**`SalCallOpProofs`**, for every set of the seven faults and any number of transactions and losses.
`Counted(s, k)` says that the operation has the references its holders account for and `k` more,
held by the function that is at work on it; each function of the SAL is shown to take
`Counted(s, k)` to `Counted(t, k)`, or to give up the reference it was passed. The count alone is
not inductive: a handler that reports a failure does so through the pointer to the call. `Sound`
adds that an operation nobody has a call for is terminated, or `Stray` (nothing is under way on it
that could report); that a later release has something to release; and that a BYE was received
in a dialog that is over, so that a second one is not served. The client transactions are a bag;
`Transactions(b)` counts them by a set of pairs, as the sum over a bag would need induction.

`EndIsCarriedOut` needs two more invariants, both by cases of the dialog. `Ongoing`, without the faults
of its first half: before the answer an outgoing call has its INVITE in course, and when it is over
the CANCEL is sent or will be with the next provisional response (`Outgoing`); an incoming call rings,
and nothing but a refusal ends it (`Incoming`); in a dialog a call that is over has sent its BYE, and
when the dialog is over its end is to be told, or was (`Dialogue`). `Shown` is the same for an operation
that is shown a response, between the transaction's step and the handler's. `Settled`, for any faults:
before the answer there is one INVITE, in one direction, and a password that is waited for means
that it is not under way (`Calling`); a BYE belongs to a dialog, and the end of a BYE, the end to be told
and the later release to one that is over (`Placed`); the core gives an operation up without a
dialog or after it (`Done`). `Ongoing` uses `Settled` where a re-INVITE of the far end must not be
taken for the INVITE of the call (`Invited`).

### The account

**`AccountProofs`**, for any proxies and friends, domains shared between them in any way, scopes,
and both values of `subscribe_presence_only_when_registered`. The invariant is `Sound`:

* `AccountType`, and `Ordered`: the list has no proxy twice and none that was removed, the default
  proxy is in it, and the first subscriptions have been made only on a network that is still there.
* `ProxiesFine`. `Tended`: what the application has left alone has an answer or its refresher to
  wait for, in Progress and also in Ok, since a 503 to a refresh goes from Ok back to Progress.
  `Heard`: an answer, or a password, is waited for on an operation with a refresher, so that
  trying again does send something; this one also holds of the proxies that were removed, whose
  operations a password restarts. `Remembered` is `PublishNotForgotten`, and the same without the
  network for a proxy that does not register, whose publication nothing would recover.
* `FriendsFine`. `Wanted` is the property. `Live`: an active subscription is asked for or refreshed,
  and an operation was asked or has a refresher (maybe stopped), but for the excuses. Without it
  `linphone_friend_update_subscribes()` might find `subscribe_active` set with nothing behind it, and
  return. A friend of the list has `lf->lc`, so that `linphone_friend_done()` does something.

The subtle step is `linphone_proxy_config_set_state()`: only friends whose proxy is the one that
changes are updated. `StateStepped` shows that the others need not be: `OthersCould` says that a
friend that belongs to another proxy could be subscribed to before the change if it can after. The
look-up of the proxy of a friend depends on the states of all proxies of its domain, so this is
where the order of `linphone_core_lookup_known_proxy()` counts.

The loops over the list, and those of the conference, are the inductions of the project that are
proved. For a *given* function
on `0..n`, an induction over its steps follows from the well-foundedness of the natural numbers, by
the least index at which it would fail (`LeastNat`, `Reaches`, `StepByStep`); no operator is passed
as a parameter.

### Events and chat

**Events** (`MessagingProofs`), for any set of them. The invariant `IInv` adds to the balance the `Kind` of an
event (a subscription has no publish state and awaits no answer to a PUBLISH, and so on) and that a
freed event is `Silent`, it awaits none: without them, a late answer could give a reference back
twice. `Going`, for `InitIsGoingOn`, adds that a subscription in OutgoingInit, or not yet sent,
was never over before. An event is touched by its own actions only, so the proof is about one
record: a lemma per operator of `Events`, then one step per action.

**Chat** (`MessagingProofs`), for any set of messages, identifiers and any length of the memory. `HeldInv` adds
to `AwaitedIsHeld` that a message is in the transient list at least once per answer to come, as the
answer gives that reference back too. `AnswerableInv`, for `TransientIsUnanswered`, is the
converse: at most once per answer to come, unless the operation was released and its answer lost;
the property is the two together. `MemoryInv` adds to `RecentAreDistinct` that the memory agrees
with what the application was given, but for its last element, which a duplicate may have
taken away.

### The conference

**`ConferenceProofs`**, for any calls and any starts. `ConfInv` has two parts.

* `Wired`, for any faults: the types, and `Listed`, every call that goes on is in the list. For the
  faults `held`, `refused` and `forgotten` also `Plugged`: a call that *wishes* to be in the conference,
  or whose stream is plugged in, has been answered and finds the mixer; and a re-INVITE that
  waits leads back, if refused, to a call that has been answered. `MixerIsThere` alone speaks of the
  streams that are plugged in now and would not survive the 200 that plugs in the next.
* `Tidy`, without faults. `Fits` says of one call which states go with its wish, its place and its
  stream. `Owned`: a call *claims* the sound card when it has it or will have it when its request
  is answered; there is at most one claim, it is that of the current call (of nobody while the
  call is being taken out of the conference), and then no local participant is in. `Closed`: no
  mixer and no local participant without calls. The user of the card is then read off `Fits`.

A handler is a chain of its parts: `Leads` composes for `Wired`, and lemmas on `Orders` for `Tidy`. The
conversion of a conference of one member looks at all calls; what it needs is that the others that
wish to be in are (`Seated`). The walks over `lc->calls` (all join, the members all end, the calls
being placed are given up) are folds: `StepByStep` gives the sequence of intermediate cores, and
`FoldExists` that the fold ends in the last of them. That the walk before a call is accepted gives
up every call being placed needs the list to have them all (`Listed`, `EndedOnce`).

The proof showed what the instance of two calls with `refused` had hidden: with three, accepting a
call ends one being placed while a member joins, and the mixer goes as in `crossing`. The guard of
`AcceptParty` now names that situation like that of every other end.

### uPnP

**`UpnpProofs`**, for any finite sets of bindings and slots, any ports, bounds and faults: `UpnpSpec`
starts with any set of faults, where a run fixes one. The invariant is `Good`, of two parts.

* `Even`: per binding, its references are the slots that point to it, its places in the list of
  pending bindings and the pointers dropped without a release, and it is allocated while there is
  one; and the replies to come for it are at most its places in the list, exactly as many without
  `unsent`. `BindingsAreCounted` does not speak of the replies, and a reply releases a reference,
  so it would not survive `Reply` alone.
* `Waiting`: the destroyer waits only while something is pending, and no session is taken down
  meanwhile. It is what the end of `Reply` keeps by the signal.

`Even` has two more arguments for the middle of an action: a binding with one reference more, that
of a local variable (a binding just created, retained or taken from a slot), and one whose reply was
taken from the bag and is not handled yet. The requests are a chain: `Sends(s, t)` says that `t` has
for each binding as many references more as places, and composes, so one lemma on `Request` covers both
send functions, the retries of a refused request and what was delayed. The walks (the section of
the configuration, the slots, the list that is released) are folds, unrolled as for the conference.
For the configuration and the slots, each step may take a free binding, so the number of those
that are left is counted along: this is where the guard `Room` is used.

`DestroyerIsWoken` counts the replies as pairs of a request and a number up to the length of the list;
that no request is awaited more often than that is again `Even` (`AnswersAre`).

### Checked by TLC only

* Liveness, which is out of the prover's reach: `EndedIsReleased`, `RequestSettles`,
  `ResumeTaskEnds`, `RegistrationSettles`.
* Of `Upnp`, `MappingIsRemembered`, `WishIsFollowed` and `HeldCallGoesOn`. They hold without most of the
  faults only, and relate the table of the router, the configuration and the ports of all the
  bindings; the counting above says nothing of ports.
* `OfferAnswer`: its functions go through the lists of lines and payloads, and what they compute for every
  list is an induction over data. TLC checks them on the starts of section 4.

## 6. Where the code and its documentation differ

Four runs check what a comment of the repository says, and TLC finds each violated;
`PROJECT.json` quotes the line of the documentation and the line of the code.

| Run | The code |
|---|---|
| `DocRunningMedia` | a refused hold returns to StreamsRunning, with the streams stopped and no current call |
| `DocAnswersOffer` | a re-INVITE that is not a hold is never answered while we are Paused |
| `DocReleased` | 491 to the initial INVITE: Released, but still in the list |
| `DocKeys` | the callee answers the suite both have and runs with the first one proposed |

Other situations the code lets happen break a property of section 3. Of the calls, each is a
fault (or a switch) that the runs of that property leave out; adding it to the constants of
`CallsTwo` shows the behaviour.

| Added | Breaks | What happens |
|---|---|---|
| `updateOnHold` | `HoldMatchesMedia` | `callbacks.c:703`: an UPDATE in Paused restarts the media, and the call stays Paused |
| `refusedUpdate` | `CallListExact`, `RingHasReason`, `EndedIsClosing` | `sal_op_call.c:877`: refusing an UPDATE before the answer refuses the INVITE; the call is Released but listed |
| `earlyUpdate`, `lateProvisional` | `AnsweredHasDialog` | `callbacks.c:520`: the answer to our early UPDATE is taken for the answer to the INVITE |
| `earlyUpdate` | `AnsweredHasDialog` | `sal_op_call.c:820`: accepting the call answers a forgotten UPDATE instead of the INVITE |
| offers without SDP | `HoldMatchesMedia`, `EndedHoldsNothing`, `WaitsForSomething`, `UpdateCanBeAnswered`, `EndedIsClosing` | `callbacks.c:620`: the ACK takes a call whose request is unanswered to StreamsRunning; the answer then restores the state it waited in |
| `"recvonly"` to `Offers` | `SwitchPausesCurrent` | `linphonecore.c:4061`: a call whose far end does not speak is not paused ("No reason to pause this call") and runs on beside the one the user turns to |
| a third call, without the conjunct on `referer` | `SwitchPausesCurrent` | `linphonecore.c:4083`: pausing the referer resets `lc->current_call`, which may be another call; that one is not paused when the transferred call becomes current |
| `UseIce` | `RestoresSettled`, `WaitsForSomething` | `linphonecall.c:1258`: the same REFER, while a request waits for candidates |
| `UseIce` | `AnsweredIsLogged` | `linphonecall.c:3648`: an UPDATE before the answer is never resumed; the call runs without having been Connected |
| `initial491` | `RingHasReason`, `EndedIsClosing`, `ReleasedIsNotRetained` | `callbacks.c:925`: 491 to the initial INVITE; the ringback that a 180 started goes on, and the released call is still listed |
| `inviteError` | `EndedIsClosing` | `linphonecore.c:3046`: the call is in Error with an operation that was never sent; the same of an INVITE sent again (`linphonecore.c:3001`) |
| `dialogBusy` | `WaitsForSomething` | `linphonecore.c:4080`: a hold that cannot be sent leaves the call in Pausing |
| `referMidway` | `RestoresSettled` | `linphonecall.c:1258`: a REFER overwrites `prevstate` with the transient state |
| `appHangup` | `CurrentInList`, `EndedHoldsNothing` | `linphonecore.c:3861`: a hang-up inside the Connected notification restarts the streams of an ended call |

In the other modules:

| Where | What happens |
|---|---|
| `callbacks.c:1292` | the 200 to an un-SUBSCRIBE, or a NOTIFY crossing it, sets Active on an event that is over; its next end gives the core's reference back again |
| `callbacks.c:1299` | the branch for an I/O error is dead: it arrives as 503, so the event is shown in Error while its refresher goes on |
| `callbacks.c:1036` | refreshes paused while one waits for its retry leave the registration in Progress |
| `sal_op_impl.c:352` | `request`: an INFO or UPDATE in an early dialog replaces `pending_client_trans`; the INVITE cannot be cancelled any more, and the far end rings on |
| `sal_op_call.c:953` | `password`: a call whose INVITE or BYE waits for a password when it ends is not released until the password comes; the INVITE is then sent for a call that is over |
| `sal_op_call.c:345` | `silent`: a CANCEL without answer releases the operation while the INVITE may still be answered |
| `sal_op_call.c:285` | `noack`: without an ACK the reference of the handler is not given back, and the operation never freed |
| `sal_op_call.c:232` | `burst`: the answer to a CANCEL unlinks a dialog whose end is still to be told; the call stays in End |
| `callbacks.c:292` | `closed`: a presence that is closed for any other reason than those listed releases the operation without an answer to its INVITE |
| `presence.c:1876` | a NOTIFY after the subscription was suspended makes the friend active with a refresher that is stopped |
| `friend.c:409` | a friend that comes to belong to another proxy is not subscribed to again |
| `callbacks.c:1279` | a message with an answer other than 200 or 204, or a file without a server, keeps a reference for ever |
| `offeranswer.c:572` | a line of an unknown protocol after a known one is answered with the stream of the line before |
| `upnp.c:601` | `unsent`: a request that libupnp does not take stays in the pending list; destroying the context then never returns |
| `upnp.c:936` | `dropped`, `hurry`, `moved`, `lost`: a wish that changes while a reply is awaited is not always followed (`WishIsFollowed`) |
| `upnp.c:1262` | `unlocked`: a reply between what the main thread reads and what it does leaves the mapping on the router (`MappingIsRemembered`) |
| `upnp.c:826` | `lost`: a call that waits for its mapping waits as long as the router is away (`HeldCallGoesOn`) |
| `conference.c:92` | `crossing`: a call that ends while another joins destroys the mixer; the 200 plugs the stream into none (`MixerIsThere`) |
| `conference.c:215` | `refused`: after a refused re-INVITE a second local participant replaces the first, and the mixer is never destroyed |
| `conference.c:215` | `held`: the last member, held by the far end, is not taken out, and the local participant stays |
| `linphonecore.c:4083` | `forgotten`: pausing a member forgets the running call as the current one, which then shares the sound card |

## 7. Plan

1. *Done*: the call control, its properties, its type and limit proved.
2. *Done*: `Events` and its proofs; `Friends`, `Registration` and `Account`.
3. *Done*: `Conference` and `OfferAnswer`.
4. *Done*: `Chat` and its proofs; `Upnp`.
5. *Done*: `SalCallOp`. To do: that it implements the phases of `CallOps`, with a refinement
   mapping from `state`, `dialog` and the transactions to `op`.
6. *Done*: the call list, the current call, the dialog and the log of a call; that the core
   implements `CallLifecycle`; what a call waits for, its media, its end and the tone; the
   references and the end of an operation; the account; the conference; the bindings of
   `Upnp`. To do: the mappings of `Upnp` and the wishes they follow.
7. Composition: the registration waits for the mappings of uPnP before it starts; the calls
   of `CallCore` with the conference.
