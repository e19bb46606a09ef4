----------------------------- MODULE SalCallOp -----------------------------
(***************************************************************************)
(* The operation of one call in detail: sal_op_call.c with the parts of    *)
(* sal_op_impl.c and sal_impl.c it needs.  CallOps sees an operation by    *)
(* its phase; here are its transactions, its dialog and its references.    *)
(*                                                                         *)
(* The SIP stack (belle-sip) is a library: the state of a dialog and of    *)
(* the transactions, and which response shows which dialog, are taken from *)
(* what the handlers expect of it.                                         *)
(***************************************************************************)
EXTENDS Naturals, FiniteSets, Bags

CONSTANTS
  MaxTransactions,    \* bound: the client transactions of an operation at one time
  MaxServers,         \* bound: the server transactions that are answered and not yet over
  MaxNoAck            \* bound: the references nobody gives back

ASSUME SalCallOpAssumption ==
  MaxTransactions \in Nat /\ MaxServers \in Nat /\ MaxNoAck \in Nat

VARIABLE sal

\* INFO stands for what does not change the call: INFO, and UPDATE before the answer.
Method == {"INVITE", "CANCEL", "BYE", "INFO"}

\* What the environment may do besides: a request in an early dialog; a password that is
\* asked for or refused; a CANCEL without answer; an ACK that cannot be built; a presence
\* that refuses calls without an answer for them; a message that the stack reads in the
\* turn in which it ends a dialog, before it tells so; a re-INVITE refused when the call
\* waits for it no more.
SalFaults == {"request", "password", "silent", "noack", "closed", "burst", "untimely"}

\* app: what the application thinks of the call; it has a reference until "gone".
\* dialog, linked: the dialog of the stack, and whether op->dialog points to it; last: its
\* state before it was terminated; event: that is still to be told.  later: a task
\* call_set_released() is queued.  out: the client transactions, as pairs of method and
\* state; pending: pending_client_trans; asked: the request that waits for a password.
\* invite: the INVITE of pending_server_trans; servers: other server transactions, answered;
\* bye: the one of a BYE.
\* lost: the references nobody gives back; dangling: the operation was used after it was
\* freed.
SalInit(faults) ==
  sal = [ faults |-> faults, dir |-> "none", state |-> "early", ref |-> 0, app |-> "none",
          dialog |-> "none", linked |-> FALSE, last |-> "none", event |-> FALSE,
          later |-> FALSE, released |-> FALSE, out |-> EmptyBag, pending |-> "none",
          asked |-> "none", invite |-> "none", servers |-> 0, bye |-> FALSE, lost |-> 0,
          freed |-> FALSE, dangling |-> FALSE ]

-----------------------------------------------------------------------------
(* References                                                              *)

\* The transactions of a bag, one by one.
Transactions(out) == UNION {{x} \X (1..out[x]) : x \in DOMAIN out}

HasState(s, m, st) == BagIn(<<m, st>>, s.out)
InCourse(s, m) == HasState(s, m, "calling") \/ HasState(s, m, "proceeding")
Leaving(s, m, st) == [s EXCEPT !.out = @ (-) SetToBag({<<m, st>>})]
Entering(s, m, st) == [s EXCEPT !.out = @ (+) SetToBag({<<m, st>>})]

\* sal_op_ref() and sal_op_unref()
RefOp(s)   == [s EXCEPT !.ref = @ + 1, !.dangling = @ \/ s.freed]
UnrefOp(s) == [s EXCEPT !.ref = @ - 1, !.dangling = @ \/ s.freed, !.freed = @ \/ s.ref = 1]

\* set_or_update_dialog(): the dialog, or NULL.
LinkDialog(s, yes) ==
  LET t == RefOp(s)
      u == CASE s.linked /\ ~yes -> [UnrefOp(t) EXCEPT !.linked = FALSE]
             [] yes /\ ~s.linked -> [RefOp(t) EXCEPT !.linked = TRUE]
             [] OTHER            -> t
  IN  UnrefOp(u)

\* The stack gives a dialog another state; its end is told later.
DialogBecomes(s, state) ==
  IF s.dialog \in {state, "terminated"} THEN s
  ELSE [s EXCEPT !.dialog = state, !.last = s.dialog, !.event = (state = "terminated")]

\* Mutant: only the first transaction has a reference.
SendUncounted(s, m) ==
  LET t == IF s.out = EmptyBag THEN RefOp(s) ELSE s
  IN  [Entering(t, m, "calling") EXCEPT !.pending = m]

\* Each client transaction has a reference; pending_client_trans is the last one.
SendRequest(s, m) == [Entering(RefOp(s), m, "calling") EXCEPT !.pending = m]

\* sal_op_release()
ReleaseOp(s) ==
  UnrefOp([s EXCEPT !.state = IF @ = "terminating" THEN @ ELSE "terminated", !.app = "gone"])

HasCall(s) == s.app \in {"live", "over"}

\* call_set_released() and call_released(), by which the core releases the operation
CallSetReleased(s) ==
  IF s.released THEN [s EXCEPT !.dangling = @ \/ s.freed]
  ELSE LET t == [s EXCEPT !.state = "terminated", !.dangling = @ \/ s.freed]
           u == IF HasCall(s) THEN ReleaseOp(t) ELSE t
       IN  LinkDialog([u EXCEPT !.released = TRUE], FALSE)

\* call_terminated() of the core
CallOver(s) == [s EXCEPT !.app = IF @ = "live" THEN "over" ELSE @]

\* call_failure() of the core: it ends the call, restores the state before, or tries
\* again with another operation.  Without a call it reads through NULL.
FailureOutcome == {"over", "live", "gone"}
Fails(s, outcome) ==
  CASE ~HasCall(s)                              -> [s EXCEPT !.dangling = TRUE]
    [] HasCall(s) /\ (s.app = "over" \/ outcome = "live") -> s
    [] s.app = "live" /\ outcome = "over"       -> CallOver(s)
    [] s.app = "live" /\ outcome = "gone"       -> ReleaseOp(s)

-----------------------------------------------------------------------------
(* The end of a call                                                       *)

\* cancelling_invite(): without a CANCEL when the pending transaction is no INVITE, or
\* one without a provisional response.
CancellingInvite(s) ==
  [ IF s.pending = "INVITE" /\ HasState(s, "INVITE", "proceeding")
    THEN SendRequest(s, "CANCEL") ELSE s
    EXCEPT !.state = "terminating" ]

\* sal_call_decline() of an INVITE
DeclineInvite(s) ==
  IF s.invite # "open" THEN s
  ELSE DialogBecomes([s EXCEPT !.invite = "answered"],
                     IF s.dialog = "confirmed" THEN "confirmed" ELSE "terminated")

\* The dialog sal_call_terminate() looks at; one not yet used counts as none.
DialogOf(s) == IF s.linked /\ s.dialog # "null" THEN s.dialog ELSE "none"

\* Mutant: without a provisional response the end is not remembered.
TerminateForgotten(s) ==
  IF s.state \in {"terminating", "terminated"} \/ DialogOf(s) = "terminated" THEN s
  ELSE CASE DialogOf(s) = "confirmed" -> [SendRequest(s, "BYE") EXCEPT !.state = "terminating"]
         [] DialogOf(s) # "confirmed" /\ s.dir = "in" ->
              [DeclineInvite(s) EXCEPT !.state = "terminated"]
         [] DialogOf(s) # "confirmed" /\ s.dir = "out" ->
              IF DialogOf(s) = "early" \/ HasState(s, s.pending, "proceeding")
              THEN CancellingInvite(s) ELSE s

\* sal_call_terminate()
TerminateOp(s) ==
  IF s.state \in {"terminating", "terminated"} \/ DialogOf(s) = "terminated" THEN s
  ELSE CASE DialogOf(s) = "confirmed" -> [SendRequest(s, "BYE") EXCEPT !.state = "terminating"]
         [] DialogOf(s) # "confirmed" /\ s.dir = "in" ->
              [DeclineInvite(s) EXCEPT !.state = "terminated"]
         [] DialogOf(s) = "early" /\ s.dir = "out" -> CancellingInvite(s)
         [] DialogOf(s) = "none" /\ s.dir = "out" ->
              IF HasState(s, s.pending, "proceeding") THEN CancellingInvite(s)
              ELSE [s EXCEPT !.state = "terminating"]

-----------------------------------------------------------------------------
(* Responses                                                               *)

Code == {"trying", "ringing", "ok", "error", "gone", "challenge"}
Provisional == {"trying", "ringing"}

\* The dialog, when the response is shown to the handler.  "gone": 481 or 408.
DialogAfter(s, m, code) ==
  CASE m = "INVITE" /\ code = "ringing" /\ s.dialog = "none"  -> "early"
    [] m = "INVITE" /\ code = "ok"                            -> "confirmed"
    [] m = "INVITE" /\ code = "error" /\ s.dialog = "early"    -> "terminated"
    [] m = "INVITE" /\ code = "gone"                          -> "terminated"
    [] m = "BYE" /\ code \in {"ok", "error"}                  -> "terminated"
    [] OTHER                                                  -> s.dialog

\* call_accepted(): the application may hang up in the notification.
CallAcceptedBy(s, hangup) ==
  IF hangup /\ s.app = "live" THEN [TerminateOp(s) EXCEPT !.app = "over"] ELSE s

\* call_process_response() without a confirmed dialog.  A CANCEL has no dialog of its own.
EarlyResponse(s, m, code, outcome) ==
  LET released(t) == IF t.linked THEN t ELSE CallSetReleased(t)
      final == code \notin Provisional
  IN  CASE m # "INVITE" -> s
        [] m = "INVITE" /\ s.state = "terminating" ->
             IF s.pending # "CANCEL"
             THEN IF final THEN released(s) ELSE CancellingInvite(s)
             ELSE IF final THEN released(s) ELSE s
        [] m = "INVITE" /\ s.state # "terminating" ->
             IF final THEN released(Fails(s, outcome)) ELSE s

\* The same in a confirmed dialog.  built: whether the ACK is; otherwise the function
\* returns without giving back the reference it took.
ConfirmedResponse(s, m, code, outcome, hangup, built) ==
  CASE s.state = "terminating" -> SendRequest(s, "BYE")
    [] s.state # "terminating" /\ m = "INVITE" /\ code = "ok" ->
         IF built THEN [CallAcceptedBy(s, hangup) EXCEPT !.state = "active"]
         ELSE [RefOp(s) EXCEPT !.lost = @ + 1]
    [] s.state # "terminating" /\ m = "INVITE" /\ code \in {"error", "challenge"} ->
         Fails(s, outcome)
    [] OTHER -> s

\* call_process_response(): the handler has a reference of its own.
ProcessResponse(s, m, code, outcome, hangup, built) ==
  LET t == RefOp(LinkDialog(s, m # "CANCEL" /\ s.dialog # "none"))
      u == CASE ~t.linked \/ t.dialog \in {"null", "early"} -> EarlyResponse(t, m, code, outcome)
             [] t.linked /\ t.dialog = "confirmed" ->
                  ConfirmedResponse(t, m, code, outcome, hangup, built)
             [] t.linked /\ t.dialog = "terminated" ->
                  IF code \in {"ok"} \cup Provisional THEN t ELSE Fails(t, outcome)
  IN  UnrefOp(u)

\* process_response_event(): nothing for an operation that is Terminated.  A challenge is
\* answered with the password, which may have to be asked for, but when terminating for
\* a BYE only.
Challenged(s, m, outcome, hangup) ==
  IF s.state = "terminating" /\ m # "BYE"
  THEN {ProcessResponse(s, m, "challenge", outcome, hangup, TRUE)}
  ELSE {SendRequest(s, m)}
       \cup IF "password" \notin s.faults THEN {}
            ELSE { [s EXCEPT !.asked = m],
                   ProcessResponse(s, m, "challenge", outcome, hangup, TRUE) }

\* Outcomes the core can have.  A request in a dialog is not tried another way; its refusal
\* ends the call only when that is no more in the state of the request.
Outcomes(s) ==
  IF "confirmed" \notin {s.dialog, s.last} THEN FailureOutcome
  ELSE {"live"} \cup IF "untimely" \in s.faults THEN {"over"} ELSE {}

Response(m, code) ==
  LET to == CASE code \in Provisional                  -> "proceeding"
              [] code = "challenge" /\ m = "BYE"        -> "challenged"
              [] OTHER                                 -> "ended"
  IN  \E from \in {"calling", "proceeding"} :
        /\ HasState(sal, m, from)
        /\ LET s == DialogBecomes(Entering(Leaving(sal, m, from), m, to),
                                  DialogAfter(sal, m, code))
           IN  IF s.state = "terminated" THEN sal' = s
               ELSE \E outcome \in Outcomes(s), hangup \in BOOLEAN :
                      IF code = "challenge"
                      THEN sal' \in Challenged(s, m, outcome, hangup)
                      ELSE \E built \in IF "noack" \in s.faults THEN BOOLEAN ELSE {TRUE} :
                             sal' = ProcessResponse(s, m, code, outcome, hangup, built)

\* What the far end may send.
Responds ==
  \/ \E code \in Code :
       /\ code = "ringing" => sal.dialog \in {"none", "early"}
       /\ code = "gone" => sal.dialog = "confirmed"
       /\ code = "challenge" => sal.dialog \in {"none", "confirmed"}
       /\ Response("INVITE", code)
  \/ \E code \in {"ok", "error", "challenge"} : Response("BYE", code)
  \/ \E code \in {"ok", "error"} : Response("CANCEL", code) \/ Response("INFO", code)

\* call_process_timeout() and call_process_io_error(): in a dialog "nothing to do", as the
\* stack terminates it.
GivesUp(m) ==
  LET s == Entering(Leaving(sal, m, "calling"), m, "ended")
      ended == IF s.dialog = "none" THEN s ELSE DialogBecomes(s, "terminated")
  IN  /\ HasState(sal, m, "calling")
      /\ m = "CANCEL" => "silent" \in sal.faults
      /\ m = "INFO" => sal.dialog = "confirmed"
      /\ sal' = IF s.state = "terminated" \/ s.linked THEN ended
                ELSE CallSetReleased(Fails(ended, "over"))

\* call_process_transaction_terminated(): the end of a BYE of either side releases an
\* operation that has no dialog any more.  The end of a transaction and
\* call_set_released() are tasks of one queue, so the dialog is still linked between them.
AfterTransaction(s, ofBye) ==
  UnrefOp(IF s.state = "terminating" /\ ofBye /\ ~s.linked THEN CallSetReleased(s) ELSE s)

TransactionEnds(m, st) ==
  /\ HasState(sal, m, st) /\ st \in {"ended", "challenged"}
  /\ sal.later => sal.linked
  /\ sal' = AfterTransaction(Leaving(sal, m, st), m = "BYE" /\ st = "ended")

ServerTransactionEnds ==
  /\ sal.later => sal.linked
  /\ \/ sal.invite = "answered" /\ sal' = AfterTransaction([sal EXCEPT !.invite = "none"], FALSE)
     \/ sal.servers > 0 /\ sal' = AfterTransaction([sal EXCEPT !.servers = @ - 1], FALSE)
     \/ sal.bye /\ sal' = AfterTransaction([sal EXCEPT !.bye = FALSE], TRUE)

\* process_dialog_terminated(); no operation is found when the dialog is not linked.
DialogEnds ==
  LET s == [sal EXCEPT !.event = FALSE]
      byBye == s.last = "confirmed" /\ s.state \notin {"terminating", "terminated"}
  IN  /\ sal.event
      /\ sal' = IF ~s.linked THEN s
                ELSE [ IF byBye THEN [CallOver(s) EXCEPT !.state = "terminating"] ELSE s
                       EXCEPT !.later = TRUE ]

\* The task queued, which has no reference of its own.
LaterReleased == sal.later /\ sal' = CallSetReleased([sal EXCEPT !.later = FALSE])

-----------------------------------------------------------------------------
(* Requests of the far end                                                 *)

\* The requests in a dialog come to the operation linked to it.
Reached == sal.linked /\ sal.state # "terminated"

\* Each server transaction has a reference.
ServedAtOnce(s) == [RefOp(s) EXCEPT !.servers = @ + 1]
InviteArrives(s) ==
  [RefOp(s) EXCEPT !.invite = "open",
                   !.servers = @ + IF s.invite = "answered" THEN 1 ELSE 0]

\* The INVITE of a new call: what call_received() makes of it, or that its SDP is refused,
\* which leaves the first reference to nobody.
InviteReceived ==
  LET s == LinkDialog(DialogBecomes(InviteArrives([RefOp(sal) EXCEPT !.dir = "in"]), "null"), TRUE)
  IN  /\ sal.dir = "none"
      /\ sal' \in { [s EXCEPT !.app = "live"], ReleaseOp(DeclineInvite(s)),
                    [DeclineInvite(s) EXCEPT !.lost = 1, !.app = "gone"] }
                  \cup IF "closed" \in sal.faults THEN {ReleaseOp(s)} ELSE {}

\* A re-INVITE, which the core answers, refuses or shows to the application.
ReinviteReceived ==
  LET s == InviteArrives(sal)
  IN  /\ Reached /\ sal.dialog = "confirmed" /\ sal.invite # "open" /\ ~InCourse(sal, "INVITE")
      /\ sal' \in { s, DeclineInvite(s), [s EXCEPT !.invite = "answered"] }

\* CANCEL before the answer: 200 to it, then call_terminated() and 487.
CancelReceived ==
  /\ Reached /\ sal.dir = "in" /\ sal.dialog \in {"null", "early"} /\ sal.invite = "open"
  /\ sal' = DeclineInvite(CallOver(ServedAtOnce(sal)))

ByeReceived ==
  /\ Reached /\ sal.dialog = "confirmed"
  /\ sal' = DialogBecomes([CallOver(RefOp(sal)) EXCEPT !.state = "terminating", !.bye = TRUE],
                          "terminated")

-----------------------------------------------------------------------------
(* The application, through the core                                       *)

\* sal_op_new() and sal_call()
PlaceCall ==
  /\ sal.dir = "none"
  /\ sal' = SendRequest([RefOp(sal) EXCEPT !.dir = "out", !.app = "live"], "INVITE")

\* sal_call_notify_ringing(), sal_call_accept() and sal_call_decline()
NotifyRinging ==
  /\ sal.app = "live" /\ sal.invite = "open" /\ sal.dialog = "null"
  /\ sal' = DialogBecomes(sal, "early")
AcceptInvite ==
  /\ sal.app = "live" /\ sal.invite = "open"
  /\ sal' = DialogBecomes([sal EXCEPT !.invite = "answered"], "confirmed")
RefuseInvite ==
  /\ sal.app = "live" /\ sal.invite = "open"
  /\ sal' = IF sal.dialog = "confirmed" THEN DeclineInvite(sal) ELSE CallOver(DeclineInvite(sal))

\* linphone_core_terminate_call(), in a state in which it calls sal_call_terminate()
HangUp == sal.app = "live" /\ sal' = CallOver(TerminateOp(sal))

\* sal_call_update(): the stack builds no request while an INVITE is in course.
UpdateOp ==
  /\ sal.app = "live" /\ sal.linked /\ sal.dialog = "confirmed"
  /\ ~InCourse(sal, "INVITE") /\ sal.invite # "open"
  /\ sal' = SendRequest(sal, "INVITE")

\* sal_call_send_dtmf(), or sal_call_update() in an early dialog
SendInfo ==
  /\ sal.app = "live" /\ sal.linked /\ ~InCourse(sal, "INFO")
  /\ sal.dialog \in {"confirmed"} \cup IF "request" \in sal.faults THEN {"early"} ELSE {}
  /\ sal' = SendRequest(sal, "INFO")

\* sal_op_authenticate(): the password is there.
Authenticate ==
  /\ sal.asked # "none" /\ ~sal.freed
  /\ sal' = SendRequest([sal EXCEPT !.asked = "none"], sal.asked)

-----------------------------------------------------------------------------
MessageRead ==
  /\ sal.event => "burst" \in sal.faults
  /\ Responds \/ InviteReceived \/ ReinviteReceived \/ CancelReceived \/ ByeReceived

SalStep ==
  \/ MessageRead \/ \E m \in Method : GivesUp(m)
  \/ \E m \in Method, st \in {"ended", "challenged"} : TransactionEnds(m, st)
  \/ ServerTransactionEnds \/ DialogEnds \/ LaterReleased
  \/ PlaceCall \/ NotifyRinging \/ AcceptInvite \/ RefuseInvite \/ HangUp
  \/ UpdateOp \/ SendInfo \/ Authenticate

SalNext ==
  /\ SalStep
  /\ Cardinality(Transactions(sal'.out)) <= MaxTransactions
  /\ sal'.servers <= MaxServers
  /\ sal'.lost <= MaxNoAck

-----------------------------------------------------------------------------
(* What is to be true of an operation.                                     *)

\* What points to an operation: the call, the dialog, each transaction of either side.
Holders(s) ==
  Cardinality(Transactions(s.out)) + s.servers + s.lost
    + (IF HasCall(s) THEN 1 ELSE 0) + (IF s.linked THEN 1 ELSE 0)
    + (IF s.invite # "none" THEN 1 ELSE 0) + (IF s.bye THEN 1 ELSE 0)

\* Every pointer to the operation has a reference (sal_op_ref() and sal_op_unref() by hand):
\* nothing runs on one that is freed, nothing reports to a call the core has given up, and
\* none is kept but those given to nobody.
OpIsCounted == sal.ref = Holders(sal) /\ ~sal.dangling

\* What will release an operation.
EndGoesOn ==
  \/ sal.later \/ (sal.event /\ sal.linked) \/ InCourse(sal, "BYE")
  \/ sal.state = "terminating" /\ InCourse(sal, "INVITE")
       /\ (HasState(sal, "INVITE", "calling") \/ sal.pending = "CANCEL")
  \/ sal.state = "terminating" /\ ~sal.linked /\ HasState(sal, "BYE", "ended")

\* What the far end is left with.
FarEndIsDone ==
  /\ sal.dialog \notin {"early", "confirmed"}
  /\ sal.last # "confirmed" => ~InCourse(sal, "INVITE") /\ sal.invite # "open"

\* A call that is over, by whichever side and in whichever order CANCEL, BYE, answers,
\* refusals and timeouts cross, goes on to call_released(); and after that the far end is
\* neither called, nor waiting for the answer to its call, nor in the call.  The faults
\* named break the one or the other.
EndIsCarriedOut ==
  /\ sal.faults \cap {"request", "password", "burst", "untimely"} = {} =>
       (sal.app = "over" => EndGoesOn)
  /\ sal.faults \cap {"silent", "closed"} = {} => (sal.app = "gone" => FarEndIsDone)
=============================================================================
