------------------------------ MODULE CallOps -------------------------------
(***************************************************************************)
(* The call control of liblinphone: linphonecore.c, callbacks.c and        *)
(* linphonecall.c, for all the calls of one LinphoneCore.                  *)
(*                                                                         *)
(* The core is single-threaded and the C functions call one another, so    *)
(* each is an operator from a core s to a core.  CallCore applies them, one *)
(* per step, to its variable.                                              *)
(*                                                                         *)
(* The SAL operation of a call (SalOp) is modelled by what it lets the     *)
(* core see: its phase, the request of ours it is waiting for (ct), and    *)
(* the unanswered INVITE and UPDATE of the far end (pend).                  *)
(***************************************************************************)
EXTENDS CallStates, Naturals, FiniteSets

CONSTANTS
  Call,            \* identities of the LinphoneCall objects
  NoCall,          \* the NULL pointer
  MaxCalls,        \* LinphoneCore.max_calls
  MaxRetries,      \* bound: INVITEs sent again after 488/415 or a redirection
  UseIce,          \* firewall policy LinphonePolicyUseIce
  DeferUpdate,     \* sip/defer_update_default
  EarlyMedia,      \* sip/incoming_calls_early_media
  RingInEarly,     \* sound/ring_during_incoming_early_media
  Offers,          \* bound: what the INVITEs and re-INVITEs we receive carry
  Answers,         \* bound: what the answers to our offers result in
  Faults           \* what the environment may do besides the ordinary

\* initial491      the initial INVITE is answered 491 Request Pending
\* lateProvisional a higher provisional response while our UPDATE is pending
\* dialogBusy      the dialog has another request in flight and refuses ours
\* appHangup       the application hangs up from inside a state callback
\* inviteError     sal_call() cannot build the INVITE
\* referMidway     a REFER while a request of ours or an offer is outstanding
\* updateOnHold    the far end sends an UPDATE while we hold it
\* earlyUpdate     the application updates a call that is not answered yet
\* refusedUpdate   we refuse an UPDATE of the caller before answering the call
FaultKind == {"initial491", "lateProvisional", "dialogBusy", "appHangup",
              "inviteError", "referMidway", "updateOnHold", "earlyUpdate",
              "refusedUpdate"}

\* What call_accepted() makes of an answer it cannot use: "bad" has no description,
\* or an empty one; "insecure" one linphone_core_incompatible_security() refuses.
Unusable == {"bad", "insecure"}

ASSUME NoCallAssumption == NoCall \notin Call
ASSUME BoundAssumption == MaxCalls \in Nat /\ MaxRetries \in Nat
ASSUME SwitchAssumption ==
  /\ {UseIce, DeferUpdate, EarlyMedia, RingInEarly} \subseteq BOOLEAN
  /\ Faults \subseteq FaultKind
  /\ Offers \subseteq Offer
  /\ Answers \subseteq Dir \cup Unusable

\* Phase of a SalOp.  "none": no operation, or it was released.  "init": created,
\* INVITE not sent.  "inviting": INVITE sent, no dialog.  "early": outgoing early
\* dialog.  "ringing": INVITE received.  "active": confirmed dialog.
\* "cancelling": hung up before there was a dialog.  "terminating": the dialog is
\* closing and only call_released() is to come.
OpPhase == {"none", "init", "inviting", "early", "ringing", "active",
            "cancelling", "terminating"}

\* Our outstanding in-dialog request: a re-INVITE with sendrecv, a re-INVITE with
\* sendonly, or an UPDATE.
Request == {"none", "reinvite", "hold", "update"}

\* A request of the far end we have not answered: op->pending_server_trans, or
\* op->pending_update_server_trans.
PeerRequest == {"invite", "update"}

\* The LinphoneCore with the LinphoneCalls that matter.
CoreType ==
  [ state    : [Call -> CallState],                 \* call->state
    prev     : [Call -> CallState],                 \* call->prevstate
    calls    : SUBSET Call,                         \* lc->calls
    current  : Call \cup {NoCall},                  \* lc->current_call
    ring     : BOOLEAN,                             \* lc->ringstream != NULL
    streams  : [Call -> BOOLEAN],                   \* media streams started
    dir      : [Call -> Dir \cup {"none"}],         \* call->resultdesc
    ackMedia : [Call -> BOOLEAN],                   \* call->expect_media_in_ack
    referer  : [Call -> Call \cup {NoCall}],        \* call->referer
    replaces : [Call -> Call \cup {NoCall}],        \* sal_call_get_replaces()
    autoPaused : [Call -> BOOLEAN],                 \* was_automatically_paused
    tasks    : SUBSET Call,                         \* queued automatic resumes
    gathering : [Call -> BOOLEAN],                  \* ICE gathering in progress
    retries  : [Call -> 0..MaxRetries],             \* fallbacks already used
    err      : [Call -> {"none", "declined", "timeout"}],  \* non_op_error.reason
    log      : [Call -> {"aborted", "success", "missed", "declined"}], \* log->status
    op       : [Call -> OpPhase],
    ct       : [Call -> Request],
    pend     : [Call -> SUBSET PeerRequest],
    rmd      : [Call -> Offer],                     \* op->base.remote_media
    busy     : [Call -> BOOLEAN] ]

\* linphone_core_init(): no call.
EmptyCore ==
       [ state    |-> [c \in Call |-> "Idle"],
         prev     |-> [c \in Call |-> "Idle"],
         calls    |-> {},
         current  |-> NoCall,
         ring     |-> FALSE,
         streams  |-> [c \in Call |-> FALSE],
         dir      |-> [c \in Call |-> "none"],
         ackMedia |-> [c \in Call |-> FALSE],
         referer  |-> [c \in Call |-> NoCall],
         replaces |-> [c \in Call |-> NoCall],
         autoPaused |-> [c \in Call |-> FALSE],
         tasks    |-> {},
         gathering |-> [c \in Call |-> FALSE],
         retries  |-> [c \in Call |-> 0],
         err      |-> [c \in Call |-> "none"],
         log      |-> [c \in Call |-> "aborted"],
         op       |-> [c \in Call |-> "none"],
         ct       |-> [c \in Call |-> "none"],
         pend     |-> [c \in Call |-> {}],
         rmd      |-> [c \in Call |-> "nosdp"],
         busy     |-> [c \in Call |-> FALSE] ]

-----------------------------------------------------------------------------
(* Single updates of the core, from which the handlers are composed        *)

Gathering(s, c, going) == [s EXCEPT !.gathering[c] = going]
MakeCurrent(s, c) == [s EXCEPT !.current = c]
NoCurrent(s) == [s EXCEPT !.current = NoCall]
ExpectMediaInAck(s, c) == [s EXCEPT !.ackMedia[c] = TRUE]
AutoPaused(s, c, paused) == [s EXCEPT !.autoPaused[c] = paused]
EndReason(s, c, reason) == [s EXCEPT !.err[c] = reason]

\* linphone_core_add_call(), with the operation of the call in phase op.
AddCall(s, c, op) == [s EXCEPT !.calls = @ \cup {c}, !.op[c] = op, !.gathering[c] = UseIce]

\* The operation enters phase op; its request was answered; the far end has made
\* an offer; nothing of the far end is pending any more.
Operation(s, c, op) == [s EXCEPT !.op[c] = op]
RequestDone(s, c) == [s EXCEPT !.ct[c] = "none"]
OfferMade(s, c, request, offer) == [s EXCEPT !.pend[c] = @ \cup {request}, !.rmd[c] = offer]
NothingPending(s, c) == [s EXCEPT !.pend[c] = {}]

\* linphone_core_queue_task() of resume_call_after_failed_transfer(), and its end.
QueueResume(s, c) == [s EXCEPT !.tasks = @ \cup {c}]
DequeueResume(s, c) == [s EXCEPT !.tasks = @ \ {c}]

\* linphone_core_stop_ringing(), and the two tones that start.
StopRinging(s) == [s EXCEPT !.ring = FALSE]
StartRinging(s) == [s EXCEPT !.ring = TRUE]

\* linphone_call_stop_media_streams().
StopStreams(s, c) == [s EXCEPT !.streams[c] = FALSE]

\* linphone_core_update_streams() with a usable media description.
UpdateStreams(s, c, dir) ==
  [s EXCEPT !.ring = @ /\ RingInEarly /\ s.state[c] = "IncomingEarlyMedia",
            !.ackMedia[c] = FALSE,
            !.dir[c] = dir,
            !.streams[c] = TRUE]

-----------------------------------------------------------------------------
(* Call states (linphonecall.c)                                            *)

\* Mutants: the call stays in the list; stays the current call; keeps its ICE session.
TerminatedStaysListed(s, c) ==
  [Gathering(StopStreams(s, c), c, FALSE) EXCEPT !.current = IF @ = c THEN NoCall ELSE @]
TerminatedStaysCurrent(s, c) ==
  [Gathering(StopStreams(s, c), c, FALSE) EXCEPT !.calls = @ \ {c}]
TerminatedKeepsIce(s, c) ==
  [StopStreams(s, c) EXCEPT !.calls = @ \ {c}, !.current = IF @ = c THEN NoCall ELSE @]

\* linphone_call_set_terminated(): media freed, the call leaves the list.
Terminated(s, c) ==
  [s EXCEPT !.streams[c] = FALSE,
            !.gathering[c] = FALSE,
            !.calls = @ \ {c},
            !.current = IF @ = c THEN NoCall ELSE @]

\* Mutant: the reason is stored where the status belongs.
LoggedReason(s, c) == [s EXCEPT !.log[c] = IF s.err[c] = "none" THEN @ ELSE s.err[c]]

\* Entering End or Error settles the status of the call log.
Logged(s, c) ==
  [s EXCEPT !.log[c] = CASE s.err[c] = "declined" -> "declined"
                         [] s.err[c] = "timeout" -> "missed"
                         [] OTHER -> @]

LogStatus(s, c, status) == [s EXCEPT !.log[c] = status]

\* linphone_call_unref(): the object goes with its last reference, and the
\* application keeps none.
Destroyed(s, c) ==
  [s EXCEPT !.prev[c] = "Idle", !.dir[c] = "none", !.ackMedia[c] = FALSE,
            !.autoPaused[c] = FALSE, !.retries[c] = 0, !.err[c] = "none"]

\* The operation is gone, with its transactions.
NoOperation(s, c) ==
  [s EXCEPT !.op[c] = "none", !.ct[c] = "none", !.pend[c] = {}, !.rmd[c] = "nosdp",
            !.busy[c] = FALSE, !.replaces[c] = NoCall]

NoReferer(s, c) == [s EXCEPT !.referer[c] = NoCall]

\* linphone_call_set_released().
ReleasedCall(s, c) ==
  LET r == NoReferer(NoOperation(s, c), c)
  IN IF c \in s.calls THEN r ELSE Destroyed(r, c)

\* prevstate is overwritten before linphone_call_set_state() looks any further.
Remembered(s, c) == [s EXCEPT !.prev[c] = s.state[c]]

StateIs(s, c, new) == [s EXCEPT !.state[c] = new]

\* The body of linphone_call_set_state(), with the case of each state.
Entered(s, c, new) ==
  LET q == StateIs(Remembered(s, c), c, new)
  IN CASE new \in Ended -> Terminated(Logged(q, c), c)
       [] new = "Connected" -> LogStatus(q, c, "success")
       [] new = "Released" -> ReleasedCall(q, c)
       [] OTHER -> q

\* Mutant: a call that is over may change its state.
SetStateAfterEnd(s, c, new) ==
  CASE new = s.state[c] -> s
    [] new # s.state[c] /\ new = "Refered" -> Remembered(s, c)
    [] OTHER -> Entered(s, c, new)

\* linphone_call_set_state(): a call that is over can only be released, and
\* Refered is an event rather than a state.
SetState(s, c, new) ==
  CASE new = s.state[c] -> s
    [] new # s.state[c] /\ s.state[c] \in Ended /\ new # "Released" -> Remembered(s, c)
    [] new # s.state[c] /\ s.state[c] \notin Ended /\ new = "Refered" -> Remembered(s, c)
    [] OTHER -> Entered(s, c, new)

-----------------------------------------------------------------------------
(* What the core asks of the SAL operation (bellesip_sal/sal_op_call.c)    *)

\* sal_call_update(): the dialog must be able to carry one more request.
CanUpdate(s, c) ==
  /\ s.op[c] \in {"early", "ringing", "active"}
  /\ s.ct[c] = "none"
  /\ ~ s.busy[c]

\* sal_call_update() for a call: an UPDATE in an early dialog, else a re-INVITE
\* whose offer is sendrecv or, to hold the far end, sendonly.
SalUpdate(s, c, request) ==
  IF CanUpdate(s, c)
  THEN [s EXCEPT !.ct[c] = IF s.op[c] = "active" THEN request ELSE "update"]
  ELSE s

\* The phase after CANCEL (without a dialog), or BYE or an error response.
ClosingPhase(op) ==
  CASE op = "inviting" -> "cancelling"
    [] op \in {"early", "ringing", "active"} -> "terminating"
    [] OTHER -> op

\* sal_call_terminate() or sal_call_decline(): CANCEL, BYE or an error response is
\* on its way, and nothing but call_released() comes back.
SalTerminate(s, c) ==
  [s EXCEPT !.op[c] = ClosingPhase(@),
            !.ct[c] = "none",
            !.pend[c] = {}]

\* sal_call_accept(): a pending UPDATE is answered before a pending INVITE.  Here and
\* in SalDecline an answered request is no longer pending; in the code it stays until
\* its transaction terminates, as in SalCallOp.
SalAccept(s, c) ==
  CASE "update" \in s.pend[c] -> [s EXCEPT !.pend[c] = @ \ {"update"}]
    [] s.pend[c] = {"invite"} ->
         [s EXCEPT !.pend[c] = {}, !.op[c] = IF @ = "ringing" THEN "active" ELSE @]
    [] OTHER -> s

\* sal_call_decline() of an update: here a pending INVITE is refused before a
\* pending UPDATE.
SalDecline(s, c) ==
  IF "invite" \in s.pend[c] /\ s.op[c] = "ringing" THEN SalTerminate(s, c)
  ELSE IF "invite" \in s.pend[c] THEN [s EXCEPT !.pend[c] = @ \ {"invite"}]
  ELSE NothingPending(s, c)

\* sal_op_release() of an operation that has not sent anything.
SalRelease(s, c) == [s EXCEPT !.op[c] = "none", !.busy[c] = FALSE]

-----------------------------------------------------------------------------
(* Ending a call                                                           *)

\* Mutant: the ring tone is not stopped.
TerminateLocallyKeepsRing(s, c) == SetState(StopStreams(s, c), c, "End")

\* The static terminate_call() of linphonecore.c.
TerminateLocally(s, c) ==
  LET e == IF s.state[c] = "IncomingReceived" /\ s.err[c] # "timeout"
           THEN EndReason(s, c, "declined") ELSE s
  IN SetState(StopStreams(StopRinging(e), c), c, "End")

\* linphone_core_decline_call(), in one of the Alerting states.
DeclineCall(s, c) == TerminateLocally(SalTerminate(s, c), c)

\* Mutant: no BYE and no CANCEL.
TerminateCallSilently(s, c) ==
  CASE s.state[c] \in {"Released", "End"} -> s
    [] s.state[c] \in Alerting -> DeclineCall(s, c)
    [] OTHER -> TerminateLocally(s, c)

\* linphone_core_terminate_call().  In OutgoingInit the operation is released and
\* forgotten on the spot.
TerminateCall(s, c) ==
  CASE s.state[c] \in {"Released", "End"} -> s
    [] s.state[c] \in Alerting -> DeclineCall(s, c)
    [] s.state[c] = "OutgoingInit" -> TerminateLocally(SalRelease(s, c), c)
    [] OTHER -> TerminateLocally(SalTerminate(s, c), c)

\* linphone_core_abort_call().
AbortCall(s, c) ==
  SetState(StopStreams(StopRinging(SalTerminate(s, c)), c), c, "Error")

\* Mutant: the other calls are left alone.
CancelOutgoingNot(s, c) == s

\* SalTerminate, Terminated and the change to End, of all the calls of gone at once.
AllClosing(s, gone) ==
  [s EXCEPT
    !.op = [a \in Call |-> IF a \notin gone THEN @[a]
                          ELSE IF s.state[a] = "OutgoingInit" THEN "none"
                          ELSE ClosingPhase(@[a])],
    !.ct = [a \in Call |-> IF a \in gone THEN "none" ELSE @[a]],
    !.pend = [a \in Call |-> IF a \in gone THEN {} ELSE @[a]],
    !.busy = [a \in Call |-> @[a] /\ ~ (a \in gone /\ s.state[a] = "OutgoingInit")]]

AllTerminated(s, gone) ==
  [s EXCEPT
    !.streams = [a \in Call |-> @[a] /\ a \notin gone],
    !.gathering = [a \in Call |-> @[a] /\ a \notin gone],
    !.calls = @ \ gone,
    !.current = IF @ \in gone THEN NoCall ELSE @]

AllEnded(s, gone) ==
  [s EXCEPT
    !.prev = [a \in Call |-> IF a \in gone THEN s.state[a] ELSE @[a]],
    !.state = [a \in Call |-> IF a \in gone THEN "End" ELSE @[a]],
    !.log = [a \in Call |-> IF a \in gone THEN Logged(s, a).log[a] ELSE @[a]]]

\* The loop of linphone_core_accept_call_with_params(): every other call still
\* in an outgoing state is terminated, as TerminateCall would one by one.
CancelOutgoing(s, c) ==
  LET gone == {a \in s.calls \ {c} : s.state[a] \in Outgoing}
      t == AllEnded(AllTerminated(AllClosing(s, gone), gone), gone)
  IN IF gone = {} THEN s ELSE StopRinging(t)

-----------------------------------------------------------------------------
(* Pausing, resuming and the sound resources (linphonecore.c)              *)

\* Mutant: a call being updated is paused too.
PauseCallUpdating(s, c) ==
  IF s.state[c] \in {"StreamsRunning", "PausedByRemote", "Updating"}
  THEN SetState(StopStreams(NoCurrent(SalUpdate(s, c, "hold")), c), c, "Pausing")
  ELSE s

\* _linphone_core_pause_call().  The result of sal_call_update() is only
\* reported, and current_call is reset whichever call is paused.
PauseCall(s, c) ==
  IF /\ s.state[c] \in {"StreamsRunning", "PausedByRemote"}
     /\ HasDir(s.dir[c], "sendrecv") \/ HasDir(s.dir[c], "recvonly")
  THEN SetState(StopStreams(NoCurrent(SalUpdate(s, c, "hold")), c), c, "Pausing")
  ELSE s

\* Mutant: the current call goes on.
PreemptRingOnly(s) == StopRinging(s)

\* linphone_core_preempt_sound_resources(), outside a conference.
Preempt(s) ==
  StopRinging(IF s.current # NoCall THEN PauseCall(s, s.current) ELSE s)

\* linphone_core_sound_resources_locked().
SoundLocked(s) == \E c \in s.calls : s.state[c] \in LocksSound

\* linphone_core_resume_call(); when the request cannot be sent the call stays
\* Paused, but another call may have been preempted for it.
ResumeCall(s, c) ==
  LET p == AutoPaused(Preempt(s), c, FALSE)
  IN IF s.state[c] # "Paused" \/ SoundLocked(s) THEN s
     ELSE IF CanUpdate(p, c)
     THEN MakeCurrent(SetState(SalUpdate(p, c, "reinvite"), c, "Resuming"), c)
     ELSE p

-----------------------------------------------------------------------------
(* Outgoing calls (linphonecore.c)                                         *)

\* linphone_core_start_invite(); sent is whether sal_call() could build the INVITE.
StartInvite(s, c, sent) ==
  IF sent
  THEN SetState(Operation(s, c, "inviting"), c, "OutgoingProgress")
  ELSE SetState(StopStreams(s, c), c, "Error")

\* linphone_call_create_op(): the old operation can no longer reach the call.
NextOperation(s, c) ==
  [s EXCEPT !.op[c] = "init", !.ct[c] = "none", !.pend[c] = {}, !.busy[c] = FALSE,
            !.retries[c] = @ + 1]

\* linphone_core_restart_invite(): a new operation takes over.
RestartInvite(s, c, sent) == StartInvite(NextOperation(StopStreams(s, c), c), c, sent)

Referer(s, c, ref) == [s EXCEPT !.referer[c] = ref]

\* linphone_core_can_we_add_call().
CanAddCall(s) == Cardinality(s.calls) < MaxCalls

\* Mutant: one call more than the limit.
InviteCallPastLimit(s, c, ref, sent) ==
  LET i == SetState(MakeCurrent(Referer(AddCall(Preempt(s), c, "init"), c, ref), c), c, "OutgoingInit")
  IN IF Cardinality(s.calls) > MaxCalls THEN Preempt(s)
     ELSE IF UseIce THEN i ELSE StartInvite(i, c, sent)

\* linphone_core_invite_address_with_params(); ref is params->referer.  The sound
\* resources are preempted before the limit on calls is checked.
InviteCall(s, c, ref, sent) ==
  LET p == Preempt(s)
      i == SetState(MakeCurrent(Referer(AddCall(p, c, "init"), c, ref), c), c, "OutgoingInit")
  IN IF ~ CanAddCall(p) THEN p
     ELSE IF UseIce THEN i
     ELSE StartInvite(i, c, sent)

\* linphone_core_start_refered_call(): the transferred call is put on hold and
\* the new call made, unless the limit on calls forbids it.
StartReferedCall(s, c, new, sent) ==
  LET p == IF s.state[c] = "Paused" THEN s ELSE AutoPaused(PauseCall(s, c), c, TRUE)
  IN InviteCall(p, new, c, sent)

-----------------------------------------------------------------------------
(* Incoming calls (linphonecore.c)                                         *)

\* Mutant: 200 in place of 183.
AcceptEarlyMediaAnswers(s, c) == SetState(Operation(s, c, "active"), c, "IncomingEarlyMedia")

\* linphone_core_accept_early_media_with_params(), in IncomingReceived.
AcceptEarlyMediaCall(s, c) ==
  LET e == SetState(s, c, "IncomingEarlyMedia")
  IN IF s.rmd[c] = "nosdp" THEN e ELSE UpdateStreams(e, c, DirOfOffer(s.rmd[c]))

\* The call a received INVITE replaces is still there.
ReplacesLive(s, c) == s.replaces[c] # NoCall /\ s.op[s.replaces[c]] # "none"

\* What linphone_core_accept_call_with_params() does before it answers.
PrepareAccept(s, c) ==
  LET o == CancelOutgoing(s, c)
      r == IF ReplacesLive(o, c) THEN TerminateCall(o, o.replaces[c]) ELSE o
  IN StopRinging(IF r.current # c THEN Preempt(r) ELSE r)

\* linphone_core_accept_call_with_params(), in one of the Alerting states; hangup
\* is whether the application terminates the call in the Connected notification.
AcceptCall(s, c, hangup) ==
  LET p == PrepareAccept(s, c)
      k == SetState(MakeCurrent(SalAccept(p, c), c), c, "Connected")
      h == IF hangup THEN TerminateCall(k, c) ELSE k
  IN IF s.rmd[c] = "nosdp" THEN ExpectMediaInAck(h, c)
     ELSE SetState(UpdateStreams(h, c, DirOfOffer(s.rmd[c])), c, "StreamsRunning")

\* The only call becomes the current one and rings.
Announce(s, c) ==
  IF s.calls = {c} THEN SetState(StartRinging(MakeCurrent(s, c)), c, "IncomingReceived")
  ELSE SetState(s, c, "IncomingReceived")

\* linphone_core_notify_incoming_call(): a call that replaces another is answered
\* at once (sip/auto_answer_replacing_calls).  reject is whether the application
\* declines in the IncomingReceived notification.
NotifyIncoming(s, c, reject) ==
  LET i == Announce(s, c)
      r == IF reject THEN DeclineCall(i, c) ELSE i
      e == IF EarlyMedia THEN AcceptEarlyMediaCall(r, c) ELSE r
  IN IF r.state[c] # "IncomingReceived" THEN r
     ELSE IF ReplacesLive(e, c) THEN AcceptCall(e, c, FALSE)
     ELSE e

-----------------------------------------------------------------------------
(* Callbacks from the SAL (callbacks.c)                                    *)

Replacing(s, c, replaced) == [s EXCEPT !.replaces[c] = replaced]

\* call_received(), for an INVITE the checks on presence, number of calls, remote
\* address and media let through.  With ICE the notification waits.
CallReceived(s, c, offer, replaced, reject) ==
  LET n == Replacing(OfferMade(AddCall(s, c, "ringing"), c, "invite", offer), c, replaced)
  IN IF UseIce THEN n ELSE NotifyIncoming(n, c, reject)

\* call_ringing() for a response without (md = "none") or with SDP.
CallRinging(s, c, md) ==
  LET u == UpdateStreams(StopRinging(SetState(s, c, "OutgoingEarlyMedia")), c, md)
  IN CASE md = "none" ->
            IF s.state[c] = "OutgoingEarlyMedia" \/ s.ring THEN s
            ELSE SetState(StartRinging(s), c, "OutgoingRinging")
       [] md # "none" /\ s.streams[c] -> s
       [] OTHER -> IF md = "inactive" THEN StartRinging(u) ELSE StopRinging(u)

\* The switch on the state at the head of call_accepted(); hangup is whether the
\* application terminates the call in the Connected notification.
Answer(s, c, hangup) ==
  LET connected == SetState(s, c, "Connected")
  IN CASE s.state[c] \in AwaitingAnswer ->
            IF hangup THEN TerminateCall(connected, c) ELSE connected
       [] s.state[c] = "EarlyUpdating" -> SetState(s, c, s.prev[c])
       [] OTHER -> s

\* The description call_accepted() goes by, "bad" if there is none: an answer
\* without one leaves that of the early media, an insecure one does not.
UsableAnswer(s, c, answer) ==
  CASE answer = "bad" /\ s.prev[c] = "OutgoingEarlyMedia" /\ s.dir[c] # "none" -> s.dir[c]
    [] answer = "insecure" -> "bad"
    [] OTHER -> answer

\* call_accepted() with a usable description of direction md: the streams follow
\* it and so does the state, except after an early update.
Settled(s, c, md, early) ==
  LET u == UpdateStreams(s, c, md)
      v == IF md = "sendrecv" THEN MakeCurrent(u, c) ELSE u
  IN IF early THEN v
     ELSE SetState(v, c, CASE md \in {"sendonly", "inactive"} -> "Paused"
                           [] md = "recvonly" -> "PausedByRemote"
                           [] OTHER -> "StreamsRunning")

\* call_accepted().  answer is the negotiated direction, or why there is none.
CallAccepted(s, c, answer, hangup) ==
  LET k == Answer(s, c, hangup)
      md == UsableAnswer(k, c, answer)
  IN CASE md = "bad" /\ k.prev[c] \in Outgoing -> AbortCall(k, c)
       [] md = "bad" /\ k.prev[c] \notin Outgoing -> SetState(k, c, k.prev[c])
       [] OTHER -> Settled(k, c, md, s.state[c] = "EarlyUpdating")

\* call_ack() of a call that expects the media description in the ACK.
CallAck(s, c, md) ==
  IF md = "bad" THEN AbortCall(s, c)
  ELSE SetState(UpdateStreams(s, c, md), c, "StreamsRunning")

\* Mutant: every call the far end ends counts as missed.
CallTerminatedMissed(s, c) ==
  IF s.state[c] \in Ended THEN s
  ELSE SetState(StopStreams(StopRinging(EndReason(s, c, "timeout")), c), c, "End")

\* call_terminated(): BYE, CANCEL, or the end of the dialog.
CallTerminated(s, c) ==
  LET e == IF s.state[c] \in Alerting THEN EndReason(s, c, "timeout") ELSE s
      r == IF Cardinality(s.calls) = 1 \/ s.current # NoCall THEN StopRinging(e) ELSE e
  IN IF s.state[c] \in Ended THEN s
     ELSE SetState(StopStreams(r, c), c, "End")

\* The fatal end of call_failure(); the failure of a transfer resumes the referer.
FailedCall(s, c, reason) ==
  LET q == StopStreams(StopRinging(s), c)
      x == IF s.state[c] \in Ended THEN q
           ELSE SetState(q, c, IF reason = "declined" THEN "End" ELSE "Error")
  IN IF s.referer[c] = NoCall THEN x ELSE QueueResume(x, s.referer[c])

\* Mutant: 491 changes nothing.
CallFailureIgnoresPending(s, c, reason, sent) ==
  CASE reason = "pending" -> s
    [] reason # "pending" /\ s.state[c] \in Transient -> SetState(s, c, s.prev[c])
    [] OTHER -> FailedCall(s, c, reason)

\* call_failure().  "notacceptable" is 488 or 415, retried while a less demanding
\* offer is left; "redirect" is retried with the new contact; "pending" is 491;
\* sent is whether an INVITE sent again could be built.
CallFailure(s, c, reason, sent) ==
  LET f == IF reason = "redirect" THEN StopStreams(s, c) ELSE s
      retry == /\ reason \in {"redirect", "notacceptable"}
               /\ s.state[c] \in Outgoing /\ s.retries[c] < MaxRetries
  IN CASE retry -> RestartInvite(f, c, sent)
       [] reason = "pending" -> SetState(s, c, s.prev[c])
       [] reason # "pending" /\ s.state[c] \in Transient -> SetState(f, c, s.prev[c])
       [] OTHER -> FailedCall(f, c, reason)

\* Mutant: the task always asks to be run again.
ResumeTaskAgain(s, c) ==
  IF s.autoPaused[c] /\ s.state[c] = "Paused" THEN ResumeCall(s, c) ELSE s

\* resume_call_after_failed_transfer(), when it does not ask to be run again.
ResumeTask(s, c) ==
  IF s.autoPaused[c] /\ s.state[c] = "Paused" THEN ResumeCall(DequeueResume(s, c), c)
  ELSE DequeueResume(s, c)

-----------------------------------------------------------------------------
(* Updates of an established call (linphonecore.c, callbacks.c)            *)

\* linphone_core_update_call() with parameters.  regather is whether a new stream
\* has ICE candidates to gather first; otherwise a request that cannot be sent
\* leaves the call in the new state.
UpdateCall(s, c, regather) ==
  LET u == SetState(s, c, IF s.state[c] = "StreamsRunning" THEN "Updating" ELSE "EarlyUpdating")
  IN IF regather THEN Gathering(u, c, TRUE) ELSE SalUpdate(u, c, "reinvite")

\* Mutant: the call stays in the state in which it was asked.
StartAcceptUpdateStays(s, c, next) ==
  IF s.rmd[c] = "nosdp" THEN SalAccept(s, c)
  ELSE UpdateStreams(SalAccept(s, c), c, DirOfOffer(s.rmd[c]))

\* linphone_core_start_accept_call_update(): our answer to the offer is sent, the
\* media follow it, and the call enters state next.
StartAcceptUpdate(s, c, next) ==
  LET a == SalAccept(s, c)
  IN SetState(IF s.rmd[c] = "nosdp" THEN a ELSE UpdateStreams(a, c, DirOfOffer(s.rmd[c])), c, next)

\* _linphone_core_accept_call_update(); regather is whether a new stream has ICE
\* candidates to gather first.  keep_sdp_version, off by default, which answers an
\* unchanged offer without touching the media, is left out.
AcceptUpdate(s, c, next, regather) ==
  IF regather THEN Gathering(s, c, TRUE) ELSE StartAcceptUpdate(s, c, next)

\* The switch of call_updated_by_remote() on the state, once the offer is found
\* acceptable; deferred is whether the application calls
\* linphone_core_defer_call_update() in the UpdatedByRemote notification.
UpdateOffered(s, c, isUpdate, deferred, regather) ==
  LET u == SetState(s, c, "UpdatedByRemote")
      e == SetState(s, c, "EarlyUpdatedByRemote")
  IN CASE s.state[c] = "StreamsRunning" ->
            IF DeferUpdate \/ deferred THEN u ELSE AcceptUpdate(u, c, u.prev[c], regather)
       [] s.state[c] = "PausedByRemote" ->
            IF DeferUpdate THEN s ELSE AcceptUpdate(s, c, "PausedByRemote", regather)
       [] s.state[c] \notin {"StreamsRunning", "PausedByRemote"} /\ isUpdate ->
            AcceptUpdate(e, c, e.prev[c], regather)
       [] OTHER -> s

\* call_updated_by_remote().  compatible is FALSE when the offer must be refused
\* with 488.
UpdatedByRemote(s, c, isUpdate, compatible, deferred, regather) ==
  LET u == UpdateOffered(s, c, isUpdate, deferred, regather)
  IN CASE s.rmd[c] # "nosdp" /\ ~ compatible -> SalDecline(s, c)
       [] s.rmd[c] = "nosdp" /\ s.state[c] \in {"StreamsRunning", "PausedByRemote"} ->
            ExpectMediaInAck(u, c)
       [] OTHER -> u

\* The far end puts us on hold; the far end takes us back.
HoldsUs(offer) == HasDir(offer, "sendonly") \/ HasDir(offer, "inactive")
TakesUsBack(offer) == HasDir(offer, "sendrecv") \/ HasDir(offer, "recvonly")

\* call_updating(), the offer being in rmd[c].
CallUpdating(s, c, isUpdate, compatible, deferred, regather) ==
  LET updated == UpdatedByRemote(s, c, isUpdate, compatible, deferred, regather)
      offer == s.rmd[c]
  IN CASE offer = "nosdp" -> updated
       [] offer # "nosdp" /\ s.state[c] = "PausedByRemote" ->
            IF TakesUsBack(offer) THEN AcceptUpdate(s, c, "StreamsRunning", regather) ELSE updated
       [] offer # "nosdp" /\ s.state[c] \in {"OutgoingRinging", "OutgoingEarlyMedia", "IncomingEarlyMedia"} ->
            IF isUpdate THEN updated ELSE s
       [] offer # "nosdp" /\ s.state[c] \in {"StreamsRunning", "Connected", "Paused"} ->
            IF HoldsUs(offer) THEN AcceptUpdate(s, c, "PausedByRemote", regather) ELSE updated
       [] offer # "nosdp" /\ s.state[c] \in Transient \cup {"UpdatedByRemote"} -> SalDecline(s, c)
       [] OTHER -> s

\* handle_ice_events(), ORTP_EVENT_ICE_GATHERING_FINISHED: what was waiting for
\* the candidates goes on, if the state of the call is still the one it was in.
IceGathered(s, c, sent) ==
  LET g == Gathering(s, c, FALSE)
  IN CASE s.state[c] = "Updating" -> SalUpdate(g, c, "reinvite")
       [] s.state[c] = "UpdatedByRemote" -> StartAcceptUpdate(g, c, s.prev[c])
       [] s.state[c] = "OutgoingInit" -> StartInvite(g, c, sent)
       [] s.state[c] = "Idle" -> NotifyIncoming(g, c, FALSE)
       [] OTHER -> g
=============================================================================
