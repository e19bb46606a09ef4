------------------------------ MODULE CallCore ------------------------------
(***************************************************************************)
(* The LinphoneCore at work: one action per call of the public API, per    *)
(* callback of the SAL and per timer of linphone_core_iterate().  Each     *)
(* applies the handler of CallOps to the variable lc.                      *)
(***************************************************************************)
EXTENDS CallOps

VARIABLE lc

TypeOK == lc \in CoreType

Init == lc = EmptyCore

\* A call object that was never used: the bound on the calls of a behaviour.
Fresh(c) == lc.state[c] = "Idle" /\ lc.op[c] = "none"

Sent == IF "inviteError" \in Faults THEN BOOLEAN ELSE {TRUE}
Hangup == IF "appHangup" \in Faults THEN BOOLEAN ELSE {FALSE}
Regather == IF UseIce THEN BOOLEAN ELSE {FALSE}

-----------------------------------------------------------------------------
(* The public API (linphonecore.h)                                         *)

Invite(c) ==
  /\ Fresh(c)
  /\ \E sent \in Sent : lc' = InviteCall(lc, c, NoCall, sent)

AcceptEarlyMedia(c) ==
  /\ c \in lc.calls /\ lc.state[c] = "IncomingReceived"
  /\ lc' = AcceptEarlyMediaCall(lc, c)

Accept(c) ==
  /\ c \in lc.calls /\ lc.state[c] \in Alerting
  /\ \E hangup \in Hangup : lc' = AcceptCall(lc, c, hangup)

Decline(c) ==
  /\ c \in lc.calls /\ lc.state[c] \in Alerting
  /\ lc' = DeclineCall(lc, c)

\* Also after an error, while the application still holds the call.
Terminate(c) ==
  /\ lc.state[c] \notin {"Idle", "End", "Released"}
  /\ lc' = TerminateCall(lc, c)

Pause(c) ==
  /\ c \in lc.calls
  /\ lc.state[c] \in {"StreamsRunning", "PausedByRemote"}
  /\ lc' = PauseCall(lc, c)

Resume(c) ==
  /\ c \in lc.calls /\ lc.state[c] = "Paused"
  /\ lc' = ResumeCall(lc, c)

Update(c) ==
  /\ c \in lc.calls
  /\ \/ lc.state[c] = "StreamsRunning"
     \/ /\ "earlyUpdate" \in Faults
        /\ lc.state[c] \in Alerting \cup {"OutgoingRinging", "OutgoingEarlyMedia"}
  /\ \E regather \in Regather : lc' = UpdateCall(lc, c, regather)

AcceptCallUpdate(c) ==
  /\ c \in lc.calls /\ lc.state[c] = "UpdatedByRemote"
  /\ \E regather \in Regather : lc' = AcceptUpdate(lc, c, lc.prev[c], regather)

-----------------------------------------------------------------------------
(* Callbacks of the SAL.  The guards say when the SIP layer can make them: *)
(* sal_op_call.c, and belle-sip beneath it.                                *)

\* A closing dialog keeps no request of either side.
Closing(s, c) == NothingPending(RequestDone(Operation(s, c, "terminating"), c), c)

\* An INVITE that call_received() does not refuse outright.
Receive(c) ==
  /\ Fresh(c) /\ CanAddCall(lc)
  /\ \E offer \in Offers, reject \in Hangup,
        replaced \in {NoCall} \cup {r \in lc.calls : lc.op[r] = "active"} :
       lc' = CallReceived(lc, c, offer, replaced, reject)

\* 180 to 199 on our INVITE.
Ringing(c) ==
  /\ lc.op[c] \in {"inviting", "early"}
  /\ lc.ct[c] = "none" \/ "lateProvisional" \in Faults
  /\ \E md \in {"none"} \cup (Answers \ Unusable) :
       lc' = CallRinging(Operation(lc, c, "early"), c, md)

\* 2xx on our INVITE.
Answered200(c) ==
  /\ lc.op[c] \in {"inviting", "early"}
  /\ \E answer \in Answers, hangup \in Hangup :
       lc' = CallAccepted(Operation(lc, c, "active"), c, answer, hangup)

\* call_set_error() on our INVITE, or a timeout or I/O error of its transaction.
\* Without a dialog the operation is released in the same breath; an operation
\* that call_failure() has replaced cannot reach the call any more.
InviteFailed(c) ==
  /\ lc.op[c] \in {"inviting", "early"}
  /\ \E reason \in {"declined", "redirect", "notacceptable", "other"}
                   \cup (IF "initial491" \in Faults THEN {"pending"} ELSE {}),
        sent \in Sent :
       LET f == CallFailure(lc, c, reason, sent)
       IN lc' = IF f.retries[c] # lc.retries[c] THEN f
                ELSE IF lc.op[c] = "inviting"
                THEN SetState(RequestDone(f, c), c, "Released")
                ELSE Closing(f, c)

\* The transaction of an INVITE we no longer want times out.
CancelledTimeout(c) ==
  /\ lc.op[c] = "cancelling"
  /\ lc' = SetState(CallFailure(lc, c, "other", TRUE), c, "Released")

\* A response accepts our re-INVITE or UPDATE.  In a confirmed dialog any
\* response to an UPDATE does, and the media description is the one in use.
OfferAccepted(c) ==
  /\ lc.ct[c] # "none"
  /\ \E answer \in IF lc.ct[c] = "update" /\ lc.op[c] = "active"
                   THEN {IF lc.dir[c] = "none" THEN "bad" ELSE lc.dir[c]}
                   ELSE {IF a \in Unusable THEN a
                         ELSE DirOfAnswer(IF lc.ct[c] = "hold" THEN "sendonly" ELSE "sendrecv", a)
                           : a \in Answers} :
       lc' = CallAccepted(RequestDone(lc, c), c, answer, FALSE)

\* A final response refuses our re-INVITE.
OfferRejected(c) ==
  /\ lc.op[c] = "active" /\ lc.ct[c] \in {"reinvite", "hold"}
  /\ \E reason \in {"declined", "redirect", "notacceptable", "pending", "other"},
        sent \in Sent :
       lc' = CallFailure(RequestDone(lc, c), c, reason, sent)

\* call_process_response() has no branch for an UPDATE refused in an early dialog.
EarlyUpdateRejected(c) ==
  /\ lc.op[c] \in {"early", "ringing"} /\ lc.ct[c] = "update"
  /\ lc' = RequestDone(lc, c)

\* An UPDATE of the far end before the call is answered.  A caller does not make a
\* second offer before the one in its INVITE was answered (RFC 3311), which only a
\* 183 with early media does.
EarlyOffer(c) ==
  /\ lc.op[c] \in {"early", "ringing"} /\ c \in lc.calls /\ lc.state[c] # "Idle"
  /\ "update" \notin lc.pend[c]
  /\ \E offer \in Offers, compatible \in BOOLEAN, regather \in Regather :
       /\ lc.op[c] = "ringing" => offer = "nosdp" \/ lc.dir[c] # "none"
       /\ lc.op[c] = "ringing" => compatible \/ "refusedUpdate" \in Faults
       /\ lc' = CallUpdating(OfferMade(lc, c, "update", offer), c, TRUE, compatible, FALSE, regather)

\* A re-INVITE, or an UPDATE with SDP, in the confirmed dialog.
PeerOffer(c) ==
  /\ lc.op[c] = "active" /\ c \in lc.calls
  /\ "invite" \notin lc.pend[c] /\ ~ lc.ackMedia[c]
  /\ \E offer \in Offers, isUpdate, compatible, deferred \in BOOLEAN, regather \in Regather :
       /\ isUpdate => offer # "nosdp" /\ "update" \notin lc.pend[c]
       /\ isUpdate /\ lc.state[c] = "Paused" => "updateOnHold" \in Faults
       /\ LET request == IF isUpdate THEN "update" ELSE "invite"
          IN lc' = CallUpdating(OfferMade(lc, c, request, offer), c,
                                isUpdate, compatible, deferred, regather)

\* The ACK that carries the media description we did not get with the INVITE.
Ack(c) ==
  /\ lc.op[c] = "active" /\ lc.ackMedia[c] /\ "invite" \notin lc.pend[c]
  /\ \E md \in Answers \ {"insecure"} : lc' = CallAck(lc, c, md)

\* BYE, or the end of a confirmed dialog.
Bye(c) ==
  /\ lc.op[c] = "active"
  /\ lc' = Closing(CallTerminated(lc, c), c)

\* CANCEL of the INVITE we received.
Cancel(c) ==
  /\ lc.op[c] = "ringing"
  /\ lc' = Closing(CallTerminated(lc, c), c)

\* call_released().
Release(c) ==
  /\ lc.op[c] \in {"cancelling", "terminating"}
  /\ lc' = SetState(lc, c, "Released")

\* refer_received(): a blind or attended transfer, to a new call n.
Refer(c, n) ==
  /\ lc.op[c] = "active" /\ c \in lc.calls
  /\ Fresh(n) /\ n # c
  /\ \/ lc.ct[c] = "none" /\ lc.pend[c] = {} /\ ~ lc.ackMedia[c]
     \/ "referMidway" \in Faults
  /\ \E sent \in Sent : lc' = StartReferedCall(SetState(lc, c, "Refered"), c, n, sent)

\* Another request (INFO, NOTIFY, MESSAGE) enters or leaves the dialog.
OtherRequest(c) ==
  /\ "dialogBusy" \in Faults
  /\ lc.op[c] = "active"
  /\ lc' = [lc EXCEPT !.busy[c] = ~ @]

-----------------------------------------------------------------------------
(* linphone_core_iterate()                                                 *)

\* The user let it ring for sip/inc_timeout seconds.
IncomingTimeout(c) ==
  /\ c \in lc.calls /\ lc.state[c] \in Alerting
  /\ lc' = DeclineCall(EndReason(LogStatus(lc, c, "missed"), c, "timeout"), c)

\* sip/delayed_timeout: the INVITE leaves without waiting for ICE any longer.
DelayedInvite(c) ==
  /\ c \in lc.calls /\ lc.state[c] = "OutgoingInit"
  /\ \E sent \in Sent : lc' = StartInvite(Gathering(lc, c, FALSE), c, sent)

Gathered(c) ==
  /\ c \in lc.calls /\ lc.gathering[c]
  /\ \E sent \in Sent : lc' = IceGathered(lc, c, sent)

\* The queued resume of a call whose transfer failed, once it is not to be retried.
RunTask(c) ==
  /\ c \in lc.tasks
  /\ ~ (lc.autoPaused[c] /\ lc.state[c] = "Pausing")
  /\ ~ (lc.autoPaused[c] /\ lc.state[c] = "Paused" /\ ~ CanUpdate(lc, c))
  /\ lc' = ResumeTask(lc, c)

-----------------------------------------------------------------------------
UserStep(c) ==
  \/ Invite(c) \/ AcceptEarlyMedia(c) \/ Accept(c) \/ Decline(c) \/ Terminate(c)
  \/ Pause(c) \/ Resume(c) \/ Update(c) \/ AcceptCallUpdate(c)

SalStep(c) ==
  \/ Receive(c) \/ Ringing(c) \/ Answered200(c) \/ InviteFailed(c) \/ CancelledTimeout(c)
  \/ OfferAccepted(c) \/ OfferRejected(c) \/ EarlyUpdateRejected(c)
  \/ EarlyOffer(c) \/ PeerOffer(c) \/ Ack(c) \/ Bye(c) \/ Cancel(c) \/ Release(c)
  \/ OtherRequest(c)
  \/ \E n \in Call : Refer(c, n)

TimerStep(c) ==
  \/ IncomingTimeout(c) \/ DelayedInvite(c) \/ Gathered(c) \/ RunTask(c)

Next == \E c \in Call : UserStep(c) \/ SalStep(c) \/ TimerStep(c)

Spec == Init /\ [][Next]_lc
=============================================================================
