--------------------------- MODULE CallListProofs ----------------------------
(***************************************************************************)
(* What linphone_call_set_state() and the SIP operation of a call promise  *)
(* each other, for any number of calls: the fields of the core keep their  *)
(* types and the list of calls its limit; the list is exact, the current   *)
(* call is in it, an answered state has a confirmed dialog, and the log of *)
(* an answered call says so, for ever.                                     *)
(*                                                                         *)
(* Types and limit come first.  Nearly every operator of CallOps keeps the *)
(* type of the core and adds no call to the list (Within), and most make   *)
(* no other call the current one either (Keeps).  The lemmas follow the    *)
(* modules: the updates of one field, then linphone_call_set_state(), then *)
(* the handlers composed of them, and the actions last.                    *)
(*                                                                         *)
(* None of the others is inductive.  Which states a handler may be applied *)
(* in depends on the phase of the operation, on our pending request (ct),  *)
(* on the pending requests of the far end, and on call->prevstate, to      *)
(* which a refused request returns: Consistent says how they go together.  *)
(* The proof shows for each handler that it Leads from a consistent core   *)
(* to a consistent one, so that the handlers compose, and forgets no       *)
(* success in the call log.                                                *)
(***************************************************************************)
EXTENDS CallProperties, FiniteSetTheorems, TLAPS

\* The core is well typed and lists no new call.
Within(s, t) == t \in CoreType /\ t.calls \subseteq s.calls

\* It also makes no other call the current one.
Keeps(s, t) == t \in CoreType /\ t.calls \subseteq s.calls /\ t.current \in {s.current, NoCall}

LEMMA WithinTrans ==
  ASSUME NEW s, NEW t, NEW u, Within(s, t), Within(t, u)
  PROVE  Within(s, u)
BY DEF Within

LEMMA KeepsWithin ==
  ASSUME NEW s, NEW t, Keeps(s, t)
  PROVE  Within(s, t)
BY DEF Keeps, Within

LEMMA KeepsTrans ==
  ASSUME NEW s, NEW t, NEW u, Keeps(s, t), Keeps(t, u)
  PROVE  Keeps(s, u)
BY DEF Keeps

LEMMA KeepsSelf ==
  ASSUME NEW s \in CoreType
  PROVE  Keeps(s, s)
BY DEF Keeps

-----------------------------------------------------------------------------
(* Updates of one or a few fields                                          *)

LEMMA CurrentKeeps ==
  ASSUME NEW s \in CoreType, NEW c \in Call
  PROVE  Within(s, MakeCurrent(s, c)) /\ Keeps(s, NoCurrent(s))
BY DEF Keeps, Within, MakeCurrent, NoCurrent, CoreType

LEMMA RingKeeps ==
  ASSUME NEW s \in CoreType
  PROVE  Keeps(s, StartRinging(s)) /\ Keeps(s, StopRinging(s))
BY DEF Keeps, StartRinging, StopRinging, CoreType

LEMMA GatheringKeeps ==
  ASSUME NEW s \in CoreType, NEW c \in Call, NEW going \in BOOLEAN
  PROVE  Keeps(s, Gathering(s, c, going))
BY DEF Keeps, Gathering, CoreType

LEMMA ExpectMediaInAckKeeps ==
  ASSUME NEW s \in CoreType, NEW c \in Call
  PROVE  Keeps(s, ExpectMediaInAck(s, c))
BY DEF Keeps, ExpectMediaInAck, CoreType

LEMMA AutoPausedKeeps ==
  ASSUME NEW s \in CoreType, NEW c \in Call, NEW paused \in BOOLEAN
  PROVE  Keeps(s, AutoPaused(s, c, paused))
BY DEF Keeps, AutoPaused, CoreType

LEMMA EndReasonKeeps ==
  ASSUME NEW s \in CoreType, NEW c \in Call, NEW reason \in {"declined", "timeout"}
  PROVE  Keeps(s, EndReason(s, c, reason))
BY DEF Keeps, EndReason, CoreType

LEMMA LogStatusKeeps ==
  ASSUME NEW s \in CoreType, NEW c \in Call, NEW status \in {"success", "missed"}
  PROVE  Keeps(s, LogStatus(s, c, status))
BY DEF Keeps, LogStatus, CoreType

LEMMA OperationKeeps ==
  ASSUME NEW s \in CoreType, NEW c \in Call, NEW op \in OpPhase
  PROVE  Keeps(s, Operation(s, c, op))
BY DEF Keeps, Operation, CoreType

LEMMA RequestDoneKeeps ==
  ASSUME NEW s \in CoreType, NEW c \in Call
  PROVE  Keeps(s, RequestDone(s, c))
BY DEF Keeps, RequestDone, CoreType, Request

LEMMA NothingPendingKeeps ==
  ASSUME NEW s \in CoreType, NEW c \in Call
  PROVE  Keeps(s, NothingPending(s, c))
BY DEF Keeps, NothingPending, CoreType

LEMMA OfferMadeKeeps ==
  ASSUME NEW s \in CoreType, NEW c \in Call, NEW request \in PeerRequest, NEW offer \in Offer
  PROVE  Keeps(s, OfferMade(s, c, request, offer))
BY DEF Keeps, OfferMade, CoreType

LEMMA QueueResumeKeeps ==
  ASSUME NEW s \in CoreType, NEW c \in Call
  PROVE  Keeps(s, QueueResume(s, c)) /\ Keeps(s, DequeueResume(s, c))
BY DEF Keeps, QueueResume, DequeueResume, CoreType

LEMMA StopStreamsKeeps ==
  ASSUME NEW s \in CoreType, NEW c \in Call
  PROVE  Keeps(s, StopStreams(s, c))
BY DEF Keeps, StopStreams, CoreType

LEMMA UpdateStreamsKeeps ==
  ASSUME NEW s \in CoreType, NEW c \in Call, NEW dir \in Dir
  PROVE  Keeps(s, UpdateStreams(s, c, dir))
BY SwitchAssumption DEF Keeps, UpdateStreams, CoreType

LEMMA ReplacingKeeps ==
  ASSUME NEW s \in CoreType, NEW c \in Call, NEW replaced \in Call \cup {NoCall}
  PROVE  Keeps(s, Replacing(s, c, replaced))
BY DEF Keeps, Replacing, CoreType

LEMMA RefererKeeps ==
  ASSUME NEW s \in CoreType, NEW c \in Call, NEW ref \in Call \cup {NoCall}
  PROVE  Keeps(s, Referer(s, c, ref))
BY DEF Keeps, Referer, CoreType

LEMMA NextOperationKeeps ==
  ASSUME NEW s \in CoreType, NEW c \in Call, s.retries[c] < MaxRetries
  PROVE  Keeps(s, NextOperation(s, c))
<1>1. s.retries[c] + 1 \in 0..MaxRetries
  BY BoundAssumption DEF CoreType
<1> QED
  BY <1>1 DEF Keeps, NextOperation, CoreType, Request, OpPhase

LEMMA SalUpdateKeeps ==
  ASSUME NEW s \in CoreType, NEW c \in Call, NEW request \in Request
  PROVE  Keeps(s, SalUpdate(s, c, request))
BY DEF Keeps, SalUpdate, CoreType, Request

LEMMA SalTerminateKeeps ==
  ASSUME NEW s \in CoreType, NEW c \in Call
  PROVE  Keeps(s, SalTerminate(s, c))
<1>1. ClosingPhase(s.op[c]) \in OpPhase
  BY DEF CoreType, ClosingPhase, OpPhase
<1> QED
  BY <1>1 DEF Keeps, SalTerminate, CoreType, Request

LEMMA SalAcceptKeeps ==
  ASSUME NEW s \in CoreType, NEW c \in Call
  PROVE  Keeps(s, SalAccept(s, c))
BY DEF Keeps, SalAccept, CoreType, OpPhase

LEMMA SalDeclineKeeps ==
  ASSUME NEW s \in CoreType, NEW c \in Call
  PROVE  Keeps(s, SalDecline(s, c))
<1> DEFINE d == [s EXCEPT !.pend[c] = @ \ {"invite"}]
<1>1. SalDecline(s, c) \in {SalTerminate(s, c), d, NothingPending(s, c)}
  BY DEF SalDecline
<1>2. Keeps(s, d)
  BY DEF Keeps, CoreType
<1> QED
  BY <1>1, <1>2, SalTerminateKeeps, NothingPendingKeeps

LEMMA SalReleaseKeeps ==
  ASSUME NEW s \in CoreType, NEW c \in Call
  PROVE  Keeps(s, SalRelease(s, c))
BY DEF Keeps, SalRelease, CoreType, OpPhase

-----------------------------------------------------------------------------
(* linphone_call_set_state()                                               *)

LEMMA TerminatedKeeps ==
  ASSUME NEW s \in CoreType, NEW c \in Call
  PROVE  Keeps(s, Terminated(s, c))
BY DEF Keeps, Terminated, CoreType

LEMMA LoggedKeeps ==
  ASSUME NEW s \in CoreType, NEW c \in Call
  PROVE  Keeps(s, Logged(s, c))
BY DEF Keeps, Logged, CoreType

LEMMA DestroyedKeeps ==
  ASSUME NEW s \in CoreType, NEW c \in Call
  PROVE  Keeps(s, Destroyed(s, c))
<1>1. 0 \in 0..MaxRetries /\ "Idle" \in CallState
  BY BoundAssumption DEF CallState
<1> QED
  BY <1>1 DEF Keeps, Destroyed, CoreType

LEMMA NoOperationKeeps ==
  ASSUME NEW s \in CoreType, NEW c \in Call
  PROVE  Keeps(s, NoOperation(s, c))
BY DEF Keeps, NoOperation, CoreType, OpPhase, Request, Offer

LEMMA ReleasedCallKeeps ==
  ASSUME NEW s \in CoreType, NEW c \in Call
  PROVE  Keeps(s, ReleasedCall(s, c))
<1> DEFINE n == NoOperation(s, c)
           r == NoReferer(n, c)
<1>1. Keeps(s, n)
  BY NoOperationKeeps
<1>2. Keeps(n, r)
  BY <1>1 DEF Keeps, NoReferer, CoreType
<1>3. r \in CoreType
  BY <1>2 DEF Keeps
<1>4. Keeps(r, Destroyed(r, c))
  BY <1>3, DestroyedKeeps
<1>5. ReleasedCall(s, c) \in {r, Destroyed(r, c)}
  BY DEF ReleasedCall
<1> HIDE DEF r, n
<1> QED
  BY <1>1, <1>2, <1>4, <1>5, KeepsTrans

LEMMA RememberedKeeps ==
  ASSUME NEW s \in CoreType, NEW c \in Call
  PROVE  Keeps(s, Remembered(s, c))
BY DEF Keeps, Remembered, CoreType

LEMMA StateIsKeeps ==
  ASSUME NEW s \in CoreType, NEW c \in Call, NEW new \in CallState
  PROVE  Keeps(s, StateIs(s, c, new))
BY DEF Keeps, StateIs, CoreType

LEMMA EnteredKeeps ==
  ASSUME NEW s \in CoreType, NEW c \in Call, NEW new \in CallState
  PROVE  Keeps(s, Entered(s, c, new))
<1> DEFINE r == Remembered(s, c)
           q == StateIs(r, c, new)
           l == Logged(q, c)
<1>1. Keeps(s, r) /\ r \in CoreType
  BY RememberedKeeps DEF Keeps
<1>2. Keeps(r, q) /\ q \in CoreType
  BY <1>1, StateIsKeeps DEF Keeps
<1>3. Keeps(q, l) /\ l \in CoreType
  BY <1>2, LoggedKeeps DEF Keeps
<1>4. Keeps(l, Terminated(l, c))
  BY <1>3, TerminatedKeeps
<1>5. Keeps(q, LogStatus(q, c, "success")) /\ Keeps(q, ReleasedCall(q, c))
  BY <1>2, LogStatusKeeps, ReleasedCallKeeps
<1>6. Entered(s, c, new) \in {Terminated(l, c), LogStatus(q, c, "success"), ReleasedCall(q, c), q}
  BY DEF Entered
<1> HIDE DEF r, q, l
<1> QED
  BY <1>1, <1>2, <1>3, <1>4, <1>5, <1>6, KeepsTrans

LEMMA SetStateKeeps ==
  ASSUME NEW s \in CoreType, NEW c \in Call, NEW new \in CallState \cup {"Refered"}
  PROVE  Keeps(s, SetState(s, c, new))
<1>1. ASSUME new = "Refered" PROVE SetState(s, c, new) \in {s, Remembered(s, c)}
  BY <1>1 DEF SetState, CoreType, CallState, Ended
<1>2. ASSUME new \in CallState
      PROVE  SetState(s, c, new) \in {s, Remembered(s, c), Entered(s, c, new)}
  BY DEF SetState
<1> QED
  BY <1>1, <1>2, KeepsSelf, RememberedKeeps, EnteredKeeps

-----------------------------------------------------------------------------
(* Ending a call                                                           *)

LEMMA TerminateLocallyKeeps ==
  ASSUME NEW s \in CoreType, NEW c \in Call
  PROVE  Keeps(s, TerminateLocally(s, c))
<1> DEFINE e == IF s.state[c] = "IncomingReceived" /\ s.err[c] # "timeout"
                THEN EndReason(s, c, "declined") ELSE s
           q == StopStreams(StopRinging(e), c)
<1>1. Keeps(s, e)
  BY EndReasonKeeps, KeepsSelf
<1> HIDE DEF e
<1>2. Keeps(e, q) /\ q \in CoreType
  BY <1>1, RingKeeps, StopStreamsKeeps, KeepsTrans DEF Keeps
<1>3. Keeps(q, SetState(q, c, "End"))
  BY <1>2, SetStateKeeps DEF CallState
<1>4. TerminateLocally(s, c) = SetState(q, c, "End")
  BY DEF TerminateLocally, e
<1> HIDE DEF q
<1> QED
  BY <1>1, <1>2, <1>3, <1>4, KeepsTrans

LEMMA DeclineCallKeeps ==
  ASSUME NEW s \in CoreType, NEW c \in Call
  PROVE  Keeps(s, DeclineCall(s, c))
BY SalTerminateKeeps, TerminateLocallyKeeps, KeepsTrans DEF Keeps, DeclineCall

LEMMA TerminateCallKeeps ==
  ASSUME NEW s \in CoreType, NEW c \in Call
  PROVE  Keeps(s, TerminateCall(s, c))
<1>1. Keeps(s, TerminateLocally(SalTerminate(s, c), c))
  BY SalTerminateKeeps, TerminateLocallyKeeps, KeepsTrans DEF Keeps
<1>2. Keeps(s, TerminateLocally(SalRelease(s, c), c))
  BY SalReleaseKeeps, TerminateLocallyKeeps, KeepsTrans DEF Keeps
<1>3. Keeps(s, DeclineCall(s, c)) /\ Keeps(s, s)
  BY DeclineCallKeeps, KeepsSelf
<1>4. TerminateCall(s, c) \in {s, DeclineCall(s, c), TerminateLocally(SalRelease(s, c), c),
                               TerminateLocally(SalTerminate(s, c), c)}
  BY DEF TerminateCall
<1> QED
  BY <1>1, <1>2, <1>3, <1>4

LEMMA AbortCallKeeps ==
  ASSUME NEW s \in CoreType, NEW c \in Call
  PROVE  Keeps(s, AbortCall(s, c))
<1> DEFINE t == SalTerminate(s, c)
           q == StopStreams(StopRinging(t), c)
<1>1. Keeps(s, t) /\ t \in CoreType
  BY SalTerminateKeeps DEF Keeps
<1> HIDE DEF t
<1>2. Keeps(t, q) /\ q \in CoreType
  BY <1>1, RingKeeps, StopStreamsKeeps, KeepsTrans DEF Keeps
<1>3. Keeps(q, SetState(q, c, "Error"))
  BY <1>2, SetStateKeeps DEF CallState
<1>4. AbortCall(s, c) = SetState(q, c, "Error")
  BY DEF AbortCall, t
<1> HIDE DEF q
<1> QED
  BY <1>1, <1>2, <1>3, <1>4, KeepsTrans

LEMMA AllClosingKeeps ==
  ASSUME NEW s \in CoreType, NEW gone
  PROVE  Keeps(s, AllClosing(s, gone))
<1>1. \A a \in Call : ClosingPhase(s.op[a]) \in OpPhase
  BY DEF CoreType, ClosingPhase, OpPhase
<1> QED
  BY <1>1 DEF Keeps, AllClosing, CoreType, OpPhase, Request

LEMMA AllTerminatedKeeps ==
  ASSUME NEW s \in CoreType, NEW gone
  PROVE  Keeps(s, AllTerminated(s, gone))
BY DEF Keeps, AllTerminated, CoreType

LEMMA AllEndedKeeps ==
  ASSUME NEW s \in CoreType, NEW gone
  PROVE  Keeps(s, AllEnded(s, gone))
<1>1. \A a \in Call : Logged(s, a) \in CoreType
  BY LoggedKeeps DEF Keeps
<1>2. \A a \in Call : Logged(s, a).log[a] \in {"aborted", "success", "missed", "declined"}
  BY <1>1 DEF CoreType
<1>3. "End" \in CallState
  BY DEF CallState
<1> QED
  BY <1>2, <1>3 DEF Keeps, AllEnded, CoreType

LEMMA CancelOutgoingKeeps ==
  ASSUME NEW s \in CoreType, NEW c \in Call
  PROVE  Keeps(s, CancelOutgoing(s, c))
<1> DEFINE gone == {a \in s.calls \ {c} : s.state[a] \in Outgoing}
           x == AllClosing(s, gone)
           y == AllTerminated(x, gone)
           z == AllEnded(y, gone)
<1> HIDE DEF gone
<1>1. Keeps(s, x) /\ x \in CoreType
  BY AllClosingKeeps DEF Keeps
<1>2. Keeps(x, y) /\ y \in CoreType
  BY <1>1, AllTerminatedKeeps DEF Keeps
<1>3. Keeps(y, z) /\ z \in CoreType
  BY <1>2, AllEndedKeeps DEF Keeps
<1>4. Keeps(z, StopRinging(z)) /\ Keeps(s, s)
  BY <1>3, RingKeeps, KeepsSelf
<1>5. CancelOutgoing(s, c) \in {s, StopRinging(z)}
  BY DEF CancelOutgoing, gone
<1> HIDE DEF x, y, z
<1> QED
  BY <1>1, <1>2, <1>3, <1>4, <1>5, KeepsTrans

-----------------------------------------------------------------------------
(* Pausing and resuming                                                    *)

LEMMA PauseCallKeeps ==
  ASSUME NEW s \in CoreType, NEW c \in Call
  PROVE  Keeps(s, PauseCall(s, c))
<1> DEFINE u == SalUpdate(s, c, "hold")
           n == NoCurrent(u)
           q == StopStreams(n, c)
<1>1. Keeps(s, u) /\ u \in CoreType
  BY SalUpdateKeeps DEF Keeps, Request
<1>2. Keeps(u, n) /\ n \in CoreType
  BY <1>1, CurrentKeeps DEF Keeps
<1>3. Keeps(n, q) /\ q \in CoreType
  BY <1>2, StopStreamsKeeps DEF Keeps
<1>4. Keeps(q, SetState(q, c, "Pausing")) /\ Keeps(s, s)
  BY <1>3, SetStateKeeps, KeepsSelf DEF CallState
<1>5. PauseCall(s, c) \in {s, SetState(q, c, "Pausing")}
  BY DEF PauseCall
<1> HIDE DEF u, n, q
<1> QED
  BY <1>1, <1>2, <1>3, <1>4, <1>5, KeepsTrans

LEMMA PreemptKeeps ==
  ASSUME NEW s \in CoreType
  PROVE  Keeps(s, Preempt(s))
<1> DEFINE p == IF s.current # NoCall THEN PauseCall(s, s.current) ELSE s
<1>1. s.current # NoCall => s.current \in Call
  BY DEF CoreType
<1>2. Keeps(s, p) /\ p \in CoreType
  BY <1>1, PauseCallKeeps, KeepsSelf DEF Keeps
<1>3. Preempt(s) = StopRinging(p)
  BY DEF Preempt
<1> HIDE DEF p
<1> QED
  BY <1>2, <1>3, RingKeeps, KeepsTrans

LEMMA ResumeCallWithin ==
  ASSUME NEW s \in CoreType, NEW c \in Call
  PROVE  Within(s, ResumeCall(s, c))
<1> DEFINE p == AutoPaused(Preempt(s), c, FALSE)
           u == SalUpdate(p, c, "reinvite")
           r == SetState(u, c, "Resuming")
<1>1. Keeps(s, p) /\ p \in CoreType
  BY PreemptKeeps, AutoPausedKeeps, KeepsTrans DEF Keeps
<1>2. Keeps(p, u) /\ u \in CoreType
  BY <1>1, SalUpdateKeeps DEF Keeps, Request
<1>3. Keeps(u, r) /\ r \in CoreType
  BY <1>2, SetStateKeeps DEF Keeps, CallState
<1>4. Within(r, MakeCurrent(r, c)) /\ Keeps(s, s)
  BY <1>3, CurrentKeeps, KeepsSelf
<1>5. ResumeCall(s, c) \in {s, p, MakeCurrent(r, c)}
  BY DEF ResumeCall
<1> HIDE DEF p, u, r
<1> QED
  BY <1>1, <1>2, <1>3, <1>4, <1>5, KeepsTrans, KeepsWithin, WithinTrans

-----------------------------------------------------------------------------
(* Outgoing calls: the steps that may add a call to the list               *)

\* At most one call is added, and only below the limit.
Limited(s, t) ==
  /\ t \in CoreType
  /\ \/ t.calls \subseteq s.calls
     \/ \E c \in Call, kept \in SUBSET s.calls :
          Cardinality(kept) < MaxCalls /\ t.calls \subseteq kept \cup {c}

LEMMA LimitedWithin ==
  ASSUME NEW s, NEW t, NEW u, Limited(s, t), Within(t, u)
  PROVE  Limited(s, u)
BY DEF Limited, Within

LEMMA KeepsLimited ==
  ASSUME NEW s, NEW t, NEW u, Keeps(s, t), Limited(t, u)
  PROVE  Limited(s, u)
BY DEF Limited, Keeps, Within

LEMMA WithinIsLimited ==
  ASSUME NEW s, NEW t, Within(s, t)
  PROVE  Limited(s, t)
BY DEF Limited, Within

LEMMA KeptIsLimited ==
  ASSUME NEW s, NEW t, Keeps(s, t)
  PROVE  Limited(s, t)
BY KeepsWithin, WithinIsLimited

LEMMA AddCallLimited ==
  ASSUME NEW s \in CoreType, NEW c \in Call, NEW op \in OpPhase,
         CanAddCall(s)
  PROVE  Limited(s, AddCall(s, c, op))
<1> DEFINE t == AddCall(s, c, op)
<1>1. t \in CoreType
  BY SwitchAssumption DEF AddCall, CoreType
<1>2. t.calls \subseteq s.calls \cup {c}
  BY DEF AddCall, CoreType
<1> HIDE DEF t
<1> QED
  BY <1>1, <1>2 DEF Limited, CanAddCall, t

LEMMA StartInviteKeeps ==
  ASSUME NEW s \in CoreType, NEW c \in Call, NEW sent \in BOOLEAN
  PROVE  Keeps(s, StartInvite(s, c, sent))
<1> DEFINE i == Operation(s, c, "inviting")
           f == StopStreams(s, c)
<1>1. Keeps(s, i) /\ i \in CoreType
  BY OperationKeeps DEF Keeps, OpPhase
<1>2. Keeps(s, f) /\ f \in CoreType
  BY StopStreamsKeeps DEF Keeps
<1>3. Keeps(i, SetState(i, c, "OutgoingProgress")) /\ Keeps(f, SetState(f, c, "Error"))
  BY <1>1, <1>2, SetStateKeeps DEF CallState
<1>4. StartInvite(s, c, sent) \in {SetState(i, c, "OutgoingProgress"), SetState(f, c, "Error")}
  BY DEF StartInvite
<1> HIDE DEF i, f
<1> QED
  BY <1>1, <1>2, <1>3, <1>4, KeepsTrans

LEMMA RestartInviteKeeps ==
  ASSUME NEW s \in CoreType, NEW c \in Call, NEW sent \in BOOLEAN, s.retries[c] < MaxRetries
  PROVE  Keeps(s, RestartInvite(s, c, sent))
<1> DEFINE f == StopStreams(s, c)
           n == NextOperation(f, c)
<1>1. Keeps(s, f) /\ f \in CoreType
  BY StopStreamsKeeps DEF Keeps
<1>2. f.retries[c] < MaxRetries
  BY DEF StopStreams, CoreType
<1> HIDE DEF f
<1>3. Keeps(f, n) /\ n \in CoreType
  BY <1>1, <1>2, NextOperationKeeps DEF Keeps
<1>4. Keeps(n, StartInvite(n, c, sent))
  BY <1>3, StartInviteKeeps
<1> HIDE DEF n
<1>5. RestartInvite(s, c, sent) = StartInvite(n, c, sent)
  BY DEF RestartInvite, f, n
<1> QED
  BY <1>1, <1>3, <1>4, <1>5, KeepsTrans

LEMMA InviteCallLimited ==
  ASSUME NEW s \in CoreType, NEW c \in Call, NEW ref \in Call \cup {NoCall},
         NEW sent \in BOOLEAN
  PROVE  Limited(s, InviteCall(s, c, ref, sent))
<1> DEFINE p == Preempt(s)
           a == AddCall(p, c, "init")
           r == Referer(a, c, ref)
           m == MakeCurrent(r, c)
           i == SetState(m, c, "OutgoingInit")
<1>1. Keeps(s, p) /\ p \in CoreType
  BY PreemptKeeps DEF Keeps
<1> HIDE DEF p
<1>2. CASE ~ CanAddCall(p)
  <2>1. InviteCall(s, c, ref, sent) = p
    BY <1>2 DEF InviteCall, p
  <2> QED
    BY <1>1, <1>2, <2>1, KeptIsLimited
<1>3. CASE CanAddCall(p)
  <2>1. Limited(p, a) /\ a \in CoreType
    BY <1>1, <1>3, AddCallLimited DEF Limited, OpPhase
  <2> HIDE DEF a
  <2>2. Keeps(a, r) /\ r \in CoreType
    BY <2>1, RefererKeeps DEF Keeps
  <2> HIDE DEF r
  <2>3. Within(r, m) /\ m \in CoreType
    BY <2>2, CurrentKeeps DEF Within
  <2> HIDE DEF m
  <2>4. Keeps(m, i) /\ i \in CoreType
    BY <2>3, SetStateKeeps DEF Keeps, CallState
  <2>5. Keeps(i, StartInvite(i, c, sent))
    BY <2>4, StartInviteKeeps
  <2> HIDE DEF i
  <2>6. InviteCall(s, c, ref, sent) \in {p, i, StartInvite(i, c, sent)}
    BY DEF InviteCall, i, m, r, a, p
  <2>7. Limited(p, i) /\ Limited(p, StartInvite(i, c, sent)) /\ Limited(p, p)
    BY <1>1, <2>1, <2>2, <2>3, <2>4, <2>5, KeepsWithin, LimitedWithin, KeepsSelf, KeptIsLimited
  <2> QED
    BY <1>1, <2>6, <2>7, KeepsLimited
<1> QED
  BY <1>2, <1>3

LEMMA StartReferedCallLimited ==
  ASSUME NEW s \in CoreType, NEW c \in Call, NEW new \in Call, NEW sent \in BOOLEAN
  PROVE  Limited(s, StartReferedCall(s, c, new, sent))
<1> DEFINE p == IF s.state[c] = "Paused" THEN s ELSE AutoPaused(PauseCall(s, c), c, TRUE)
<1>1. Keeps(s, p) /\ p \in CoreType
  BY PauseCallKeeps, AutoPausedKeeps, KeepsTrans, KeepsSelf DEF Keeps
<1>2. StartReferedCall(s, c, new, sent) = InviteCall(p, new, c, sent)
  BY DEF StartReferedCall
<1> HIDE DEF p
<1>3. Limited(p, InviteCall(p, new, c, sent))
  BY <1>1, InviteCallLimited
<1> QED
  BY <1>1, <1>2, <1>3, KeepsLimited

-----------------------------------------------------------------------------
(* Incoming calls                                                          *)

\* DirOfOffer is called for an offer with SDP only.
LEMMA DirOfOfferType ==
  ASSUME NEW offered \in Offer, offered # "nosdp"
  PROVE  DirOfOffer(offered) \in Dir
BY DEF DirOfOffer, Offer, Dir

\* The media follow our answer to the last offer.
LEMMA AnswerOfferKeeps ==
  ASSUME NEW s \in CoreType, NEW c \in Call, NEW t \in CoreType, t.rmd[c] # "nosdp"
  PROVE  Keeps(s, UpdateStreams(s, c, DirOfOffer(t.rmd[c])))
<1>1. t.rmd[c] \in Offer
  BY DEF CoreType
<1> QED
  BY <1>1, DirOfOfferType, UpdateStreamsKeeps

LEMMA AcceptEarlyMediaCallKeeps ==
  ASSUME NEW s \in CoreType, NEW c \in Call
  PROVE  Keeps(s, AcceptEarlyMediaCall(s, c))
<1> DEFINE e == SetState(s, c, "IncomingEarlyMedia")
           u == UpdateStreams(e, c, DirOfOffer(s.rmd[c]))
<1>1. Keeps(s, e) /\ e \in CoreType
  BY SetStateKeeps DEF Keeps, CallState
<1> HIDE DEF e
<1>2. ASSUME s.rmd[c] # "nosdp" PROVE Keeps(e, u)
  BY <1>1, <1>2, AnswerOfferKeeps
<1>3. AcceptEarlyMediaCall(s, c) = IF s.rmd[c] = "nosdp" THEN e ELSE u
  BY DEF AcceptEarlyMediaCall, e
<1> HIDE DEF u
<1> QED
  BY <1>1, <1>2, <1>3, KeepsTrans

LEMMA PrepareAcceptKeeps ==
  ASSUME NEW s \in CoreType, NEW c \in Call
  PROVE  Keeps(s, PrepareAccept(s, c))
<1> DEFINE o == CancelOutgoing(s, c)
           r == IF ReplacesLive(o, c) THEN TerminateCall(o, o.replaces[c]) ELSE o
           p == IF r.current # c THEN Preempt(r) ELSE r
<1>1. Keeps(s, o) /\ o \in CoreType
  BY CancelOutgoingKeeps DEF Keeps
<1> HIDE DEF o
<1>2. ReplacesLive(o, c) => o.replaces[c] \in Call
  BY <1>1 DEF ReplacesLive, CoreType
<1>3. Keeps(o, r) /\ r \in CoreType
  BY <1>1, <1>2, TerminateCallKeeps, KeepsSelf DEF Keeps
<1>4. PrepareAccept(s, c) = StopRinging(p)
  BY DEF PrepareAccept, o
<1> HIDE DEF r
<1>5. Keeps(r, p) /\ p \in CoreType
  BY <1>3, PreemptKeeps, KeepsSelf DEF Keeps
<1> HIDE DEF p
<1>6. Keeps(p, StopRinging(p))
  BY <1>5, RingKeeps
<1> QED
  BY <1>1, <1>3, <1>4, <1>5, <1>6, KeepsTrans

LEMMA AcceptCallWithin ==
  ASSUME NEW s \in CoreType, NEW c \in Call, NEW hangup \in BOOLEAN
  PROVE  Within(s, AcceptCall(s, c, hangup))
<1> DEFINE p == PrepareAccept(s, c)
           a == SalAccept(p, c)
           k == SetState(MakeCurrent(a, c), c, "Connected")
           h == IF hangup THEN TerminateCall(k, c) ELSE k
           u == UpdateStreams(h, c, DirOfOffer(s.rmd[c]))
<1>1. Keeps(s, p) /\ p \in CoreType
  BY PrepareAcceptKeeps DEF Keeps
<1> HIDE DEF p
<1>2. Keeps(p, a) /\ a \in CoreType
  BY <1>1, SalAcceptKeeps DEF Keeps
<1> HIDE DEF a
<1>3. Within(a, k) /\ k \in CoreType
  <2> DEFINE m == MakeCurrent(a, c)
  <2>1. Within(a, m) /\ m \in CoreType
    BY <1>2, CurrentKeeps DEF Within
  <2> HIDE DEF m
  <2>2. Keeps(m, SetState(m, c, "Connected"))
    BY <2>1, SetStateKeeps DEF CallState
  <2> HIDE DEF k
  <2>3. Within(a, SetState(m, c, "Connected"))
    BY <2>1, <2>2, KeepsWithin, WithinTrans
  <2> QED
    BY <2>3 DEF k, m, Within
<1> HIDE DEF k
<1>4. Keeps(k, h) /\ h \in CoreType
  BY <1>3, TerminateCallKeeps, KeepsSelf DEF Keeps
<1> HIDE DEF h
<1>5. Within(s, h)
  BY <1>1, <1>2, <1>3, <1>4, KeepsWithin, WithinTrans
<1>6. CASE s.rmd[c] = "nosdp"
  <2>1. AcceptCall(s, c, hangup) = ExpectMediaInAck(h, c)
    BY <1>6 DEF AcceptCall, h, k, a, p
  <2> QED
    BY <1>4, <1>5, <2>1, ExpectMediaInAckKeeps, KeepsWithin, WithinTrans
<1>7. CASE s.rmd[c] # "nosdp"
  <2>1. AcceptCall(s, c, hangup) = SetState(u, c, "StreamsRunning")
    BY <1>7 DEF AcceptCall, h, k, a, p
  <2>2. Keeps(h, u) /\ u \in CoreType
    BY <1>4, <1>7, AnswerOfferKeeps DEF Keeps
  <2> HIDE DEF u
  <2>3. Keeps(u, SetState(u, c, "StreamsRunning"))
    BY <2>2, SetStateKeeps DEF CallState
  <2> QED
    BY <1>5, <2>1, <2>2, <2>3, KeepsWithin, WithinTrans
<1> QED
  BY <1>6, <1>7

LEMMA AnnounceWithin ==
  ASSUME NEW s \in CoreType, NEW c \in Call
  PROVE  Within(s, Announce(s, c))
<1> DEFINE m == StartRinging(MakeCurrent(s, c))
<1>1. Within(s, m) /\ m \in CoreType
  BY CurrentKeeps, RingKeeps, KeepsWithin, WithinTrans DEF Within
<1>2. Announce(s, c) \in {SetState(m, c, "IncomingReceived"), SetState(s, c, "IncomingReceived")}
  BY DEF Announce
<1> HIDE DEF m
<1>3. Keeps(m, SetState(m, c, "IncomingReceived")) /\ Keeps(s, SetState(s, c, "IncomingReceived"))
  BY <1>1, SetStateKeeps DEF CallState
<1> QED
  BY <1>1, <1>2, <1>3, KeepsWithin, WithinTrans

LEMMA NotifyIncomingWithin ==
  ASSUME NEW s \in CoreType, NEW c \in Call, NEW reject \in BOOLEAN
  PROVE  Within(s, NotifyIncoming(s, c, reject))
<1> DEFINE i == Announce(s, c)
           r == IF reject THEN DeclineCall(i, c) ELSE i
           e == IF EarlyMedia THEN AcceptEarlyMediaCall(r, c) ELSE r
<1>1. Within(s, i) /\ i \in CoreType
  BY AnnounceWithin DEF Within
<1> HIDE DEF i
<1>2. Keeps(i, r) /\ r \in CoreType
  BY <1>1, DeclineCallKeeps, KeepsSelf DEF Keeps
<1> HIDE DEF r
<1>3. Keeps(r, e) /\ e \in CoreType
  BY <1>2, AcceptEarlyMediaCallKeeps, KeepsSelf DEF Keeps
<1> HIDE DEF e
<1>4. Within(e, AcceptCall(e, c, FALSE))
  BY <1>3, AcceptCallWithin
<1>5. NotifyIncoming(s, c, reject) \in {r, e, AcceptCall(e, c, FALSE)}
  BY DEF NotifyIncoming, e, r, i
<1>6. Within(s, r)
  BY <1>1, <1>2, KeepsWithin, WithinTrans
<1>7. Within(s, e)
  BY <1>6, <1>3, KeepsWithin, WithinTrans
<1>8. Within(s, AcceptCall(e, c, FALSE))
  BY <1>7, <1>4, WithinTrans
<1> QED
  BY <1>5, <1>6, <1>7, <1>8

LEMMA CallReceivedLimited ==
  ASSUME NEW s \in CoreType, NEW c \in Call, NEW offer \in Offer,
         NEW replaced \in Call \cup {NoCall}, NEW reject \in BOOLEAN, CanAddCall(s)
  PROVE  Limited(s, CallReceived(s, c, offer, replaced, reject))
<1> DEFINE a == AddCall(s, c, "ringing")
           o == OfferMade(a, c, "invite", offer)
           n == Replacing(o, c, replaced)
<1>1. Limited(s, a) /\ a \in CoreType
  BY AddCallLimited DEF Limited, OpPhase
<1> HIDE DEF a
<1>2. Keeps(a, o) /\ o \in CoreType
  BY <1>1, OfferMadeKeeps DEF Keeps, PeerRequest
<1> HIDE DEF o
<1>3. Keeps(o, n) /\ n \in CoreType
  BY <1>2, ReplacingKeeps DEF Keeps
<1>4. CallReceived(s, c, offer, replaced, reject) \in {n, NotifyIncoming(n, c, reject)}
  BY DEF CallReceived, n, o, a
<1> HIDE DEF n
<1>5. Within(n, NotifyIncoming(n, c, reject))
  BY <1>3, NotifyIncomingWithin
<1> QED
  BY <1>1, <1>2, <1>3, <1>4, <1>5, KeepsWithin, LimitedWithin

-----------------------------------------------------------------------------
(* Callbacks from the SAL                                                  *)

LEMMA CallRingingKeeps ==
  ASSUME NEW s \in CoreType, NEW c \in Call, NEW md \in Dir \cup {"none"}
  PROVE  Keeps(s, CallRinging(s, c, md))
<1> DEFINE x == SetState(s, c, "OutgoingEarlyMedia")
           e == StopRinging(x)
           u == UpdateStreams(e, c, md)
           r == StartRinging(s)
<1>0. Keeps(s, x) /\ x \in CoreType
  BY SetStateKeeps DEF Keeps, CallState
<1>1. Keeps(s, e) /\ e \in CoreType
  <2> HIDE DEF x
  <2> QED
    BY <1>0, RingKeeps, KeepsTrans DEF Keeps
<1>2. Keeps(s, r) /\ r \in CoreType
  BY RingKeeps DEF Keeps
<1>3. CASE md = "none"
  <2>1. CallRinging(s, c, md) \in {s, SetState(r, c, "OutgoingRinging")}
    BY <1>3 DEF CallRinging
  <2> HIDE DEF r
  <2>2. Keeps(r, SetState(r, c, "OutgoingRinging"))
    BY <1>2, SetStateKeeps DEF CallState
  <2> QED
    BY <1>2, <2>1, <2>2, KeepsSelf, KeepsTrans
<1>4. CASE md # "none"
  <2>1. CallRinging(s, c, md) \in {s, StartRinging(u), StopRinging(u)}
    BY <1>4 DEF CallRinging
  <2> HIDE DEF e
  <2>2. Keeps(e, u) /\ u \in CoreType
    BY <1>1, <1>4, UpdateStreamsKeeps DEF Keeps
  <2> HIDE DEF u
  <2>3. Keeps(u, StartRinging(u)) /\ Keeps(u, StopRinging(u)) /\ Keeps(s, s)
    BY <2>2, RingKeeps, KeepsSelf
  <2> QED
    BY <1>1, <2>1, <2>2, <2>3, KeepsTrans
<1> QED
  BY <1>3, <1>4

LEMMA SetStateBack ==
  ASSUME NEW s \in CoreType, NEW c \in Call, NEW t \in CoreType
  PROVE  Keeps(s, SetState(s, c, t.prev[c]))
<1>1. t.prev[c] \in CallState
  BY DEF CoreType
<1> QED
  BY <1>1, SetStateKeeps

LEMMA AnswerKeeps ==
  ASSUME NEW s \in CoreType, NEW c \in Call, NEW hangup \in BOOLEAN
  PROVE  Keeps(s, Answer(s, c, hangup))
<1> DEFINE k == SetState(s, c, "Connected")
<1>1. Keeps(s, k) /\ k \in CoreType
  BY SetStateKeeps DEF Keeps, CallState
<1>2. Answer(s, c, hangup) \in {s, k, TerminateCall(k, c), SetState(s, c, s.prev[c])}
  BY DEF Answer
<1> HIDE DEF k
<1>3. Keeps(k, TerminateCall(k, c)) /\ Keeps(s, SetState(s, c, s.prev[c])) /\ Keeps(s, s)
  BY <1>1, TerminateCallKeeps, SetStateBack, KeepsSelf
<1> QED
  BY <1>1, <1>2, <1>3, KeepsTrans

LEMMA SettledWithin ==
  ASSUME NEW s \in CoreType, NEW c \in Call, NEW md \in Dir, NEW early \in BOOLEAN
  PROVE  Within(s, Settled(s, c, md, early))
<1> DEFINE u == UpdateStreams(s, c, md)
           v == IF md = "sendrecv" THEN MakeCurrent(u, c) ELSE u
           next == CASE md \in {"sendonly", "inactive"} -> "Paused"
                     [] md = "recvonly" -> "PausedByRemote"
                     [] OTHER -> "StreamsRunning"
<1>1. Keeps(s, u) /\ u \in CoreType
  BY UpdateStreamsKeeps DEF Keeps
<1>2. Settled(s, c, md, early) = IF early THEN v ELSE SetState(v, c, next)
  BY DEF Settled
<1> HIDE DEF u
<1>3. Within(u, v) /\ v \in CoreType
  BY <1>1, CurrentKeeps, KeepsSelf, KeepsWithin DEF Within
<1>4. next \in CallState
  BY DEF CallState
<1> HIDE DEF v, next
<1>5. Keeps(v, SetState(v, c, next))
  BY <1>3, <1>4, SetStateKeeps
<1> QED
  BY <1>1, <1>2, <1>3, <1>5, KeepsWithin, WithinTrans

LEMMA UsableAnswerType ==
  ASSUME NEW s \in CoreType, NEW c \in Call, NEW answer \in Dir \cup Unusable
  PROVE  UsableAnswer(s, c, answer) \in Dir \cup {"bad"}
<1>1. s.dir[c] \in Dir \cup {"none"}
  BY DEF CoreType
<1> QED
  BY <1>1 DEF UsableAnswer, Unusable

LEMMA CallAcceptedWithin ==
  ASSUME NEW s \in CoreType, NEW c \in Call, NEW answer \in Dir \cup Unusable,
         NEW hangup \in BOOLEAN
  PROVE  Within(s, CallAccepted(s, c, answer, hangup))
<1> DEFINE k == Answer(s, c, hangup)
           md == UsableAnswer(k, c, answer)
           early == s.state[c] = "EarlyUpdating"
<1>1. Keeps(s, k) /\ k \in CoreType
  BY AnswerKeeps DEF Keeps
<1>2. CallAccepted(s, c, answer, hangup) =
        CASE md = "bad" /\ k.prev[c] \in Outgoing -> AbortCall(k, c)
          [] md = "bad" /\ k.prev[c] \notin Outgoing -> SetState(k, c, k.prev[c])
          [] OTHER -> Settled(k, c, md, early)
  BY DEF CallAccepted
<1> HIDE DEF k, early
<1>3. md \in Dir \cup {"bad"} /\ early \in BOOLEAN
  BY <1>1, UsableAnswerType DEF early
<1> HIDE DEF md
<1>4. Keeps(k, AbortCall(k, c)) /\ Keeps(k, SetState(k, c, k.prev[c]))
  BY <1>1, AbortCallKeeps, SetStateBack
<1>5. ASSUME md # "bad" PROVE Within(k, Settled(k, c, md, early))
  BY <1>1, <1>3, <1>5, SettledWithin
<1>6. Within(k, CallAccepted(s, c, answer, hangup))
  BY <1>2, <1>4, <1>5, KeepsWithin
<1> QED
  BY <1>1, <1>6, KeepsWithin, WithinTrans

LEMMA CallAckKeeps ==
  ASSUME NEW s \in CoreType, NEW c \in Call, NEW md \in Dir \cup {"bad"}
  PROVE  Keeps(s, CallAck(s, c, md))
<1> DEFINE u == UpdateStreams(s, c, md)
<1>1. CASE md = "bad"
  BY <1>1, AbortCallKeeps DEF CallAck
<1>2. CASE md # "bad"
  <2>1. Keeps(s, u) /\ u \in CoreType
    BY <1>2, UpdateStreamsKeeps DEF Keeps
  <2>2. CallAck(s, c, md) = SetState(u, c, "StreamsRunning")
    BY <1>2 DEF CallAck
  <2> HIDE DEF u
  <2>3. Keeps(u, SetState(u, c, "StreamsRunning"))
    BY <2>1, SetStateKeeps DEF CallState
  <2> QED
    BY <2>1, <2>2, <2>3, KeepsTrans
<1> QED
  BY <1>1, <1>2

LEMMA CallTerminatedKeeps ==
  ASSUME NEW s \in CoreType, NEW c \in Call
  PROVE  Keeps(s, CallTerminated(s, c))
<1> DEFINE e == IF s.state[c] \in Alerting THEN EndReason(s, c, "timeout") ELSE s
           r == IF Cardinality(s.calls) = 1 \/ s.current # NoCall THEN StopRinging(e) ELSE e
           q == StopStreams(r, c)
<1>1. Keeps(s, e) /\ e \in CoreType
  BY EndReasonKeeps, KeepsSelf DEF Keeps
<1>2. CallTerminated(s, c) \in {s, SetState(q, c, "End")}
  BY DEF CallTerminated
<1> HIDE DEF e
<1>3. Keeps(e, r) /\ r \in CoreType
  BY <1>1, RingKeeps, KeepsSelf DEF Keeps
<1> HIDE DEF r
<1>4. Keeps(r, q) /\ q \in CoreType
  BY <1>3, StopStreamsKeeps DEF Keeps
<1> HIDE DEF q
<1>5. Keeps(q, SetState(q, c, "End")) /\ Keeps(s, s)
  BY <1>4, SetStateKeeps, KeepsSelf DEF CallState
<1> QED
  BY <1>1, <1>2, <1>3, <1>4, <1>5, KeepsTrans

LEMMA FailedCallKeeps ==
  ASSUME NEW s \in CoreType, NEW c \in Call, NEW reason
  PROVE  Keeps(s, FailedCall(s, c, reason))
<1> DEFINE r == StopRinging(s)
           q == StopStreams(r, c)
           x == IF s.state[c] \in Ended THEN q
                ELSE SetState(q, c, IF reason = "declined" THEN "End" ELSE "Error")
<1>1. Keeps(s, r) /\ r \in CoreType
  BY RingKeeps DEF Keeps
<1>2. FailedCall(s, c, reason) =
        IF s.referer[c] = NoCall THEN x ELSE QueueResume(x, s.referer[c])
  BY DEF FailedCall
<1>3. s.referer[c] = NoCall \/ s.referer[c] \in Call
  BY DEF CoreType
<1> HIDE DEF r
<1>4. Keeps(r, q) /\ q \in CoreType
  BY <1>1, StopStreamsKeeps DEF Keeps
<1> HIDE DEF q
<1>5. Keeps(q, x) /\ x \in CoreType
  BY <1>4, SetStateKeeps, KeepsSelf DEF Keeps, CallState
<1> HIDE DEF x
<1>6. ASSUME s.referer[c] \in Call PROVE Keeps(x, QueueResume(x, s.referer[c]))
  BY <1>5, <1>6, QueueResumeKeeps
<1>7. Keeps(s, x)
  BY <1>1, <1>4, <1>5, KeepsTrans
<1> QED
  BY <1>2, <1>3, <1>6, <1>7, KeepsTrans

LEMMA CallFailureKeeps ==
  ASSUME NEW s \in CoreType, NEW c \in Call, NEW reason, NEW sent \in BOOLEAN
  PROVE  Keeps(s, CallFailure(s, c, reason, sent))
<1> DEFINE f == IF reason = "redirect" THEN StopStreams(s, c) ELSE s
           retry == /\ reason \in {"redirect", "notacceptable"}
                    /\ s.state[c] \in Outgoing /\ s.retries[c] < MaxRetries
<1>1. Keeps(s, f) /\ f \in CoreType
  BY StopStreamsKeeps, KeepsSelf DEF Keeps
<1>2. f.retries = s.retries
  BY DEF StopStreams, CoreType
<1>3. CallFailure(s, c, reason, sent) =
        CASE retry -> RestartInvite(f, c, sent)
          [] reason = "pending" -> SetState(s, c, s.prev[c])
          [] reason # "pending" /\ s.state[c] \in Transient -> SetState(f, c, s.prev[c])
          [] OTHER -> FailedCall(f, c, reason)
  BY DEF CallFailure
<1> HIDE DEF f
<1>4. ASSUME retry PROVE Keeps(f, RestartInvite(f, c, sent))
  BY <1>1, <1>2, <1>4, RestartInviteKeeps
<1>5. /\ Keeps(s, SetState(s, c, s.prev[c])) /\ Keeps(f, SetState(f, c, s.prev[c]))
      /\ Keeps(f, FailedCall(f, c, reason))
  BY <1>1, SetStateBack, FailedCallKeeps
<1> HIDE DEF retry
<1>6. \/ Keeps(s, CallFailure(s, c, reason, sent))
      \/ Keeps(f, CallFailure(s, c, reason, sent))
  BY <1>3, <1>4, <1>5
<1> QED
  BY <1>1, <1>6, KeepsTrans

LEMMA ResumeTaskWithin ==
  ASSUME NEW s \in CoreType, NEW c \in Call
  PROVE  Within(s, ResumeTask(s, c))
<1> DEFINE d == DequeueResume(s, c)
<1>1. Keeps(s, d) /\ d \in CoreType
  BY QueueResumeKeeps DEF Keeps
<1>2. ResumeTask(s, c) \in {d, ResumeCall(d, c)}
  BY DEF ResumeTask
<1> HIDE DEF d
<1>3. Within(d, ResumeCall(d, c))
  BY <1>1, ResumeCallWithin
<1> QED
  BY <1>1, <1>2, <1>3, KeepsWithin, WithinTrans

-----------------------------------------------------------------------------
(* Updates of an established call                                          *)

LEMMA UpdateCallKeeps ==
  ASSUME NEW s \in CoreType, NEW c \in Call, NEW regather \in BOOLEAN
  PROVE  Keeps(s, UpdateCall(s, c, regather))
<1> DEFINE u == SetState(s, c, IF s.state[c] = "StreamsRunning" THEN "Updating" ELSE "EarlyUpdating")
           g == Gathering(u, c, TRUE)
<1>1. Keeps(s, u) /\ u \in CoreType
  BY SetStateKeeps DEF Keeps, CallState
<1>2. UpdateCall(s, c, regather) \in {g, SalUpdate(u, c, "reinvite")}
  BY DEF UpdateCall
<1> HIDE DEF u
<1>3. Keeps(u, g) /\ Keeps(u, SalUpdate(u, c, "reinvite"))
  BY <1>1, GatheringKeeps, SalUpdateKeeps DEF Request
<1> HIDE DEF g
<1> QED
  BY <1>1, <1>2, <1>3, KeepsTrans

LEMMA StartAcceptUpdateKeeps ==
  ASSUME NEW s \in CoreType, NEW c \in Call, NEW next \in CallState
  PROVE  Keeps(s, StartAcceptUpdate(s, c, next))
<1> DEFINE a == SalAccept(s, c)
           u == IF s.rmd[c] = "nosdp" THEN a ELSE UpdateStreams(a, c, DirOfOffer(s.rmd[c]))
<1>1. Keeps(s, a) /\ a \in CoreType
  BY SalAcceptKeeps DEF Keeps
<1>2. StartAcceptUpdate(s, c, next) = SetState(u, c, next)
  BY DEF StartAcceptUpdate
<1> HIDE DEF a
<1>3. Keeps(a, u) /\ u \in CoreType
  BY <1>1, AnswerOfferKeeps, KeepsSelf DEF Keeps
<1> HIDE DEF u
<1>4. Keeps(u, SetState(u, c, next))
  BY <1>3, SetStateKeeps
<1> QED
  BY <1>1, <1>2, <1>3, <1>4, KeepsTrans

LEMMA AcceptUpdateKeeps ==
  ASSUME NEW s \in CoreType, NEW c \in Call, NEW next \in CallState, NEW regather \in BOOLEAN
  PROVE  Keeps(s, AcceptUpdate(s, c, next, regather))
BY GatheringKeeps, StartAcceptUpdateKeeps DEF AcceptUpdate

LEMMA UpdateOfferedKeeps ==
  ASSUME NEW s \in CoreType, NEW c \in Call, NEW isUpdate \in BOOLEAN,
         NEW deferred \in BOOLEAN, NEW regather \in BOOLEAN
  PROVE  Keeps(s, UpdateOffered(s, c, isUpdate, deferred, regather))
<1> DEFINE u == SetState(s, c, "UpdatedByRemote")
           e == SetState(s, c, "EarlyUpdatedByRemote")
           us == AcceptUpdate(u, c, u.prev[c], regather)
           es == AcceptUpdate(e, c, e.prev[c], regather)
           ss == AcceptUpdate(s, c, "PausedByRemote", regather)
<1>1. Keeps(s, u) /\ u \in CoreType /\ Keeps(s, e) /\ e \in CoreType
  BY SetStateKeeps DEF Keeps, CallState
<1>2. UpdateOffered(s, c, isUpdate, deferred, regather) \in {s, u, us, es, ss}
  BY DEF UpdateOffered
<1> HIDE DEF u, e
<1>3. u.prev[c] \in CallState /\ e.prev[c] \in CallState /\ "PausedByRemote" \in CallState
  BY <1>1 DEF CoreType, CallState
<1>4. Keeps(u, us) /\ Keeps(e, es) /\ Keeps(s, ss) /\ Keeps(s, s)
  BY <1>1, <1>3, AcceptUpdateKeeps, KeepsSelf
<1> HIDE DEF us, es, ss
<1> QED
  BY <1>1, <1>2, <1>4, KeepsTrans

LEMMA UpdatedByRemoteKeeps ==
  ASSUME NEW s \in CoreType, NEW c \in Call, NEW isUpdate \in BOOLEAN,
         NEW compatible \in BOOLEAN, NEW deferred \in BOOLEAN, NEW regather \in BOOLEAN
  PROVE  Keeps(s, UpdatedByRemote(s, c, isUpdate, compatible, deferred, regather))
<1> DEFINE u == UpdateOffered(s, c, isUpdate, deferred, regather)
<1>1. Keeps(s, u) /\ u \in CoreType
  BY UpdateOfferedKeeps DEF Keeps
<1>2. UpdatedByRemote(s, c, isUpdate, compatible, deferred, regather)
        \in {SalDecline(s, c), ExpectMediaInAck(u, c), u}
  BY DEF UpdatedByRemote
<1> HIDE DEF u
<1>3. Keeps(s, SalDecline(s, c)) /\ Keeps(u, ExpectMediaInAck(u, c))
  BY <1>1, SalDeclineKeeps, ExpectMediaInAckKeeps
<1> QED
  BY <1>1, <1>2, <1>3, KeepsTrans

LEMMA CallUpdatingKeeps ==
  ASSUME NEW s \in CoreType, NEW c \in Call, NEW isUpdate \in BOOLEAN,
         NEW compatible \in BOOLEAN, NEW deferred \in BOOLEAN, NEW regather \in BOOLEAN
  PROVE  Keeps(s, CallUpdating(s, c, isUpdate, compatible, deferred, regather))
<1> DEFINE u == UpdatedByRemote(s, c, isUpdate, compatible, deferred, regather)
           r == AcceptUpdate(s, c, "StreamsRunning", regather)
           h == AcceptUpdate(s, c, "PausedByRemote", regather)
<1>1. CallUpdating(s, c, isUpdate, compatible, deferred, regather) \in {u, r, s, h, SalDecline(s, c)}
  BY DEF CallUpdating
<1>2. Keeps(s, u) /\ Keeps(s, s) /\ Keeps(s, SalDecline(s, c))
  BY UpdatedByRemoteKeeps, SalDeclineKeeps, KeepsSelf
<1>3. Keeps(s, r) /\ Keeps(s, h)
  BY AcceptUpdateKeeps DEF CallState
<1> HIDE DEF u, r, h
<1> QED
  BY <1>1, <1>2, <1>3

LEMMA IceGatheredWithin ==
  ASSUME NEW s \in CoreType, NEW c \in Call, NEW sent \in BOOLEAN
  PROVE  Within(s, IceGathered(s, c, sent))
<1> DEFINE g == Gathering(s, c, FALSE)
           n == NotifyIncoming(g, c, FALSE)
           i == StartInvite(g, c, sent)
<1>1. Keeps(s, g) /\ g \in CoreType
  BY GatheringKeeps DEF Keeps
<1>2. IceGathered(s, c, sent) \in
        {g, SalUpdate(g, c, "reinvite"), StartAcceptUpdate(g, c, s.prev[c]), i, n}
  BY DEF IceGathered
<1>3. s.prev[c] \in CallState /\ "reinvite" \in Request
  BY DEF CoreType, Request
<1> HIDE DEF g
<1>4. /\ Keeps(g, SalUpdate(g, c, "reinvite"))
      /\ Keeps(g, StartAcceptUpdate(g, c, s.prev[c]))
      /\ Keeps(g, i) /\ Within(g, n)
  BY <1>1, <1>3, SalUpdateKeeps, StartAcceptUpdateKeeps, StartInviteKeeps, NotifyIncomingWithin
<1> HIDE DEF n, i
<1> QED
  BY <1>1, <1>2, <1>4, KeepsWithin, WithinTrans

-----------------------------------------------------------------------------
(* The actions                                                             *)

LEMMA InputTypes ==
  /\ Sent \subseteq BOOLEAN /\ Hangup \subseteq BOOLEAN /\ Regather \subseteq BOOLEAN
BY DEF Sent, Hangup, Regather

LEMMA UserStepKeeps ==
  ASSUME TypeOK, NEW c \in Call,
         \/ AcceptEarlyMedia(c) \/ Decline(c) \/ Terminate(c) \/ Pause(c) \/ Update(c)
         \/ AcceptCallUpdate(c)
  PROVE  Keeps(lc, lc')
<1> USE DEF TypeOK
<1>1. CASE AcceptEarlyMedia(c)
  BY <1>1, AcceptEarlyMediaCallKeeps DEF AcceptEarlyMedia
<1>2. CASE Decline(c)
  BY <1>2, DeclineCallKeeps DEF Decline
<1>3. CASE Terminate(c)
  BY <1>3, TerminateCallKeeps DEF Terminate
<1>4. CASE Pause(c)
  BY <1>4, PauseCallKeeps DEF Pause
<1>5. CASE Update(c)
  BY <1>5, InputTypes, UpdateCallKeeps DEF Update
<1>6. CASE AcceptCallUpdate(c)
  <2>1. lc.prev[c] \in CallState
    BY DEF CoreType
  <2> QED
    BY <1>6, <2>1, InputTypes, AcceptUpdateKeeps DEF AcceptCallUpdate
<1> QED
  BY <1>1, <1>2, <1>3, <1>4, <1>5, <1>6

LEMMA UserStepLimited ==
  ASSUME TypeOK, NEW c \in Call, UserStep(c)
  PROVE  Limited(lc, lc')
<1> USE DEF TypeOK
<1>1. CASE Invite(c)
  BY <1>1, InputTypes, InviteCallLimited DEF Invite
<1>2. CASE Accept(c)
  BY <1>2, InputTypes, AcceptCallWithin, WithinIsLimited DEF Accept
<1>3. CASE Resume(c)
  BY <1>3, ResumeCallWithin, WithinIsLimited DEF Resume
<1>4. CASE \/ AcceptEarlyMedia(c) \/ Decline(c) \/ Terminate(c) \/ Pause(c) \/ Update(c)
           \/ AcceptCallUpdate(c)
  BY <1>4, UserStepKeeps, KeptIsLimited
<1> QED
  BY <1>1, <1>2, <1>3, <1>4 DEF UserStep

LEMMA TimerStepKeeps ==
  ASSUME TypeOK, NEW c \in Call, IncomingTimeout(c) \/ DelayedInvite(c)
  PROVE  Keeps(lc, lc')
<1> USE DEF TypeOK
<1>1. CASE IncomingTimeout(c)
  <2> DEFINE l == LogStatus(lc, c, "missed")
             e == EndReason(l, c, "timeout")
  <2>1. Keeps(lc, l) /\ l \in CoreType
    BY LogStatusKeeps DEF Keeps
  <2>2. lc' = DeclineCall(e, c)
    BY <1>1 DEF IncomingTimeout
  <2> HIDE DEF l
  <2>3. Keeps(l, e) /\ e \in CoreType
    BY <2>1, EndReasonKeeps DEF Keeps
  <2> HIDE DEF e
  <2> QED
    BY <2>1, <2>2, <2>3, DeclineCallKeeps, KeepsTrans
<1>2. CASE DelayedInvite(c)
  <2> DEFINE g == Gathering(lc, c, FALSE)
  <2>1. Keeps(lc, g) /\ g \in CoreType
    BY GatheringKeeps DEF Keeps
  <2>2. \E sent \in BOOLEAN : lc' = StartInvite(g, c, sent)
    BY <1>2, InputTypes DEF DelayedInvite
  <2> HIDE DEF g
  <2> QED
    BY <2>1, <2>2, StartInviteKeeps, KeepsTrans
<1> QED
  BY <1>1, <1>2

LEMMA TimerStepLimited ==
  ASSUME TypeOK, NEW c \in Call, TimerStep(c)
  PROVE  Limited(lc, lc')
<1> USE DEF TypeOK
<1>1. CASE IncomingTimeout(c) \/ DelayedInvite(c)
  BY <1>1, TimerStepKeeps, KeptIsLimited
<1>2. CASE Gathered(c)
  BY <1>2, InputTypes, IceGatheredWithin, WithinIsLimited DEF Gathered
<1>3. CASE RunTask(c)
  BY <1>3, ResumeTaskWithin, WithinIsLimited DEF RunTask
<1> QED
  BY <1>1, <1>2, <1>3 DEF TimerStep

\* The answers the far end gives to our requests are directions.
LEMMA DirOfAnswerType ==
  ASSUME NEW a \in Answers, a \notin Unusable, NEW local \in {"sendonly", "sendrecv"}
  PROVE  DirOfAnswer(local, a) \in Dir
BY DEF DirOfAnswer, Dir

LEMMA ClosingKeeps ==
  ASSUME NEW s \in CoreType, NEW c \in Call
  PROVE  Keeps(s, Closing(s, c))
<1> DEFINE o == Operation(s, c, "terminating")
           r == RequestDone(o, c)
<1>1. Keeps(s, o) /\ o \in CoreType
  BY OperationKeeps DEF Keeps, OpPhase
<1> HIDE DEF o
<1>2. Keeps(o, r) /\ r \in CoreType
  BY <1>1, RequestDoneKeeps DEF Keeps
<1> HIDE DEF r
<1>3. Keeps(r, NothingPending(r, c))
  BY <1>2, NothingPendingKeeps
<1>4. Closing(s, c) = NothingPending(r, c)
  BY DEF Closing, r, o
<1> QED
  BY <1>1, <1>2, <1>3, <1>4, KeepsTrans

LEMMA InviteFailedKeeps ==
  ASSUME TypeOK, NEW c \in Call, InviteFailed(c)
  PROVE  Keeps(lc, lc')
<1> USE DEF TypeOK
<1>1. PICK reason \in {"declined", "redirect", "notacceptable", "other", "pending"}, sent \in BOOLEAN :
        LET f == CallFailure(lc, c, reason, sent)
        IN lc' \in {f, SetState(RequestDone(f, c), c, "Released"), Closing(f, c)}
  BY DEF InviteFailed, Sent
<1> DEFINE f == CallFailure(lc, c, reason, sent)
           r == RequestDone(f, c)
<1>2. lc' \in {f, SetState(r, c, "Released"), Closing(f, c)}
  BY <1>1
<1>3. Keeps(lc, f) /\ f \in CoreType
  BY CallFailureKeeps DEF Keeps
<1> HIDE DEF f
<1>4. Keeps(f, r) /\ r \in CoreType
  BY <1>3, RequestDoneKeeps DEF Keeps
<1> HIDE DEF r
<1>5. Keeps(r, SetState(r, c, "Released")) /\ Keeps(f, Closing(f, c))
  BY <1>3, <1>4, SetStateKeeps, ClosingKeeps DEF CallState
<1> QED
  BY <1>2, <1>3, <1>4, <1>5, KeepsTrans

LEMMA OfferMadeThenUpdating ==
  ASSUME NEW s \in CoreType, NEW c \in Call, NEW request \in PeerRequest,
         NEW offer \in Offer, NEW isUpdate \in BOOLEAN, NEW compatible \in BOOLEAN,
         NEW deferred \in BOOLEAN, NEW regather \in BOOLEAN
  PROVE  Keeps(s, CallUpdating(OfferMade(s, c, request, offer), c,
                               isUpdate, compatible, deferred, regather))
<1> DEFINE o == OfferMade(s, c, request, offer)
           u == CallUpdating(o, c, isUpdate, compatible, deferred, regather)
<1>1. Keeps(s, o) /\ o \in CoreType
  BY OfferMadeKeeps DEF Keeps
<1> HIDE DEF o
<1>2. Keeps(o, u)
  BY <1>1, CallUpdatingKeeps
<1> HIDE DEF u
<1>3. Keeps(s, u)
  BY <1>1, <1>2, KeepsTrans
<1> QED
  BY <1>3 DEF u, o

LEMMA SalStepKeeps ==
  ASSUME TypeOK, NEW c \in Call,
         \/ Ringing(c) \/ InviteFailed(c) \/ CancelledTimeout(c) \/ OfferRejected(c)
         \/ EarlyUpdateRejected(c) \/ EarlyOffer(c) \/ PeerOffer(c) \/ Ack(c) \/ Bye(c)
         \/ Cancel(c) \/ Release(c) \/ OtherRequest(c)
  PROVE  Keeps(lc, lc')
<1> USE DEF TypeOK
<1>1. CASE Ringing(c)
  <2> DEFINE o == Operation(lc, c, "early")
  <2>1. Keeps(lc, o) /\ o \in CoreType
    BY OperationKeeps DEF Keeps, OpPhase
  <2>2. \E md \in Dir \cup {"none"} : lc' = CallRinging(o, c, md)
    BY <1>1, SwitchAssumption DEF Ringing
  <2> HIDE DEF o
  <2> QED
    BY <2>1, <2>2, CallRingingKeeps, KeepsTrans
<1>2. CASE InviteFailed(c)
  BY <1>2, InviteFailedKeeps
<1>3. CASE CancelledTimeout(c)
  <2> DEFINE f == CallFailure(lc, c, "other", TRUE)
  <2>1. Keeps(lc, f) /\ f \in CoreType
    BY CallFailureKeeps DEF Keeps
  <2>2. lc' = SetState(f, c, "Released")
    BY <1>3 DEF CancelledTimeout
  <2> HIDE DEF f
  <2>3. Keeps(f, lc')
    BY <2>1, <2>2, SetStateKeeps DEF CallState
  <2> QED
    BY <2>1, <2>3, KeepsTrans
<1>4. CASE OfferRejected(c)
  <2> DEFINE r == RequestDone(lc, c)
  <2>1. Keeps(lc, r) /\ r \in CoreType
    BY RequestDoneKeeps DEF Keeps
  <2>2. PICK reason \in {"declined", "redirect", "notacceptable", "pending", "other"}, sent \in BOOLEAN :
          lc' = CallFailure(r, c, reason, sent)
    BY <1>4 DEF OfferRejected, Sent
  <2> HIDE DEF r
  <2> QED
    BY <2>1, <2>2, CallFailureKeeps, KeepsTrans
<1>5. CASE EarlyUpdateRejected(c)
  BY <1>5, RequestDoneKeeps DEF EarlyUpdateRejected
<1>6. CASE EarlyOffer(c)
  <2>1. \E offer \in Offer, compatible, regather \in BOOLEAN :
          lc' = CallUpdating(OfferMade(lc, c, "update", offer), c, TRUE, compatible, FALSE, regather)
    BY <1>6, SwitchAssumption, InputTypes DEF EarlyOffer
  <2>2. "update" \in PeerRequest
    BY DEF PeerRequest
  <2> QED
    BY ZenonT(60), <2>1, <2>2, OfferMadeThenUpdating
<1>7. CASE PeerOffer(c)
  <2>1. \E offer \in Offer, request \in PeerRequest, isUpdate, compatible, deferred, regather \in BOOLEAN :
          lc' = CallUpdating(OfferMade(lc, c, request, offer), c, isUpdate, compatible, deferred, regather)
    BY <1>7, SwitchAssumption, InputTypes DEF PeerOffer, PeerRequest
  <2> QED
    BY <2>1, OfferMadeThenUpdating
<1>8. CASE Ack(c)
  <2>1. \E md \in Dir \cup {"bad"} : lc' = CallAck(lc, c, md)
    BY <1>8, SwitchAssumption DEF Ack, Unusable
  <2> QED
    BY <2>1, CallAckKeeps
<1>9. CASE Bye(c) \/ Cancel(c)
  <2> DEFINE t == CallTerminated(lc, c)
  <2>1. Keeps(lc, t) /\ t \in CoreType
    BY CallTerminatedKeeps DEF Keeps
  <2>2. lc' = Closing(t, c)
    BY <1>9 DEF Bye, Cancel
  <2> HIDE DEF t
  <2> QED
    BY <2>1, <2>2, ClosingKeeps, KeepsTrans
<1>10. CASE Release(c)
  BY <1>10, SetStateKeeps DEF Release, CallState
<1>11. CASE OtherRequest(c)
  BY <1>11 DEF OtherRequest, Keeps, CoreType
<1> QED
  BY <1>1, <1>2, <1>3, <1>4, <1>5, <1>6, <1>7, <1>8, <1>9, <1>10, <1>11

LEMMA SalStepLimited ==
  ASSUME TypeOK, NEW c \in Call, SalStep(c)
  PROVE  Limited(lc, lc')
<1> USE DEF TypeOK
<1>1. CASE Receive(c)
  <2>1. PICK offer \in Offers, reject \in Hangup, replaced \in Call \cup {NoCall} :
          lc' = CallReceived(lc, c, offer, replaced, reject)
    BY <1>1 DEF Receive, CoreType
  <2>2. CanAddCall(lc) /\ offer \in Offer /\ reject \in BOOLEAN
    BY <1>1, SwitchAssumption, InputTypes DEF Receive
  <2> QED
    BY <2>1, <2>2, CallReceivedLimited
<1>2. CASE Answered200(c)
  <2> DEFINE o == Operation(lc, c, "active")
  <2>1. Keeps(lc, o) /\ o \in CoreType
    BY OperationKeeps DEF Keeps, OpPhase
  <2>2. \E answer \in Dir \cup Unusable, hangup \in BOOLEAN : lc' = CallAccepted(o, c, answer, hangup)
    BY <1>2, SwitchAssumption, InputTypes DEF Answered200
  <2> HIDE DEF o
  <2> QED
    BY <2>1, <2>2, CallAcceptedWithin, KeepsWithin, WithinTrans, WithinIsLimited
<1>3. CASE OfferAccepted(c)
  <2> DEFINE r == RequestDone(lc, c)
             local == IF lc.ct[c] = "hold" THEN "sendonly" ELSE "sendrecv"
  <2>1. Keeps(lc, r) /\ r \in CoreType
    BY RequestDoneKeeps DEF Keeps
  <2>2. \A a \in Answers : a \notin Unusable => DirOfAnswer(local, a) \in Dir
    BY DirOfAnswerType
  <2>3. lc.dir[c] \in Dir \cup {"none"}
    BY DEF CoreType
  <2>4. \E answer \in Dir \cup Unusable : lc' = CallAccepted(r, c, answer, FALSE)
    BY <1>3, <2>2, <2>3 DEF OfferAccepted, Unusable
  <2> HIDE DEF r
  <2> QED
    BY <2>1, <2>4, CallAcceptedWithin, KeepsWithin, WithinTrans, WithinIsLimited
<1>4. CASE \/ Ringing(c) \/ InviteFailed(c) \/ CancelledTimeout(c) \/ OfferRejected(c)
           \/ EarlyUpdateRejected(c) \/ EarlyOffer(c) \/ PeerOffer(c) \/ Ack(c) \/ Bye(c)
           \/ Cancel(c) \/ Release(c) \/ OtherRequest(c)
  BY <1>4, SalStepKeeps, KeptIsLimited
<1>5. ASSUME NEW n \in Call, Refer(c, n) PROVE Limited(lc, lc')
  <2> DEFINE r == SetState(lc, c, "Refered")
  <2>1. Keeps(lc, r) /\ r \in CoreType
    BY SetStateKeeps DEF Keeps
  <2>2. \E sent \in BOOLEAN : lc' = StartReferedCall(r, c, n, sent)
    BY <1>5, InputTypes DEF Refer
  <2> HIDE DEF r
  <2> QED
    BY <2>1, <2>2, StartReferedCallLimited, KeepsLimited
<1> QED
  BY <1>1, <1>2, <1>3, <1>4, <1>5 DEF SalStep

LEMMA NextLimited ==
  ASSUME TypeOK, Next
  PROVE  Limited(lc, lc')
BY UserStepLimited, SalStepLimited, TimerStepLimited DEF Next

-----------------------------------------------------------------------------
(* Theorems                                                                *)

LEMMA InitType == Init => TypeOK
<1>1. "Idle" \in CallState /\ 0 \in 0..MaxRetries
  BY BoundAssumption DEF CallState
<1> QED
  BY <1>1 DEF Init, TypeOK, EmptyCore, CoreType, OpPhase, Request, Offer

\* Whatever the application, the far end and the timers do, and however many calls
\* there are, every handler leaves the core well typed: in particular no handler
\* stores LinphoneCallRefered, or a state that is none, in a call.
THEOREM TypeCorrect == Spec => []TypeOK
<1>1. TypeOK /\ [Next]_lc => TypeOK'
  BY NextLimited DEF Limited, TypeOK
<1> QED
  BY InitType, <1>1, PTL DEF Spec

\* Cardinality is a number only of a finite set, so the list is kept finite too.
LimitInv == IsFiniteSet(lc.calls) /\ WithinLimit

LEMMA LimitStep ==
  ASSUME TypeOK, LimitInv, Limited(lc, lc')
  PROVE  LimitInv'
<1>1. IsFiniteSet(lc.calls) /\ Cardinality(lc.calls) <= MaxCalls
  BY DEF LimitInv, WithinLimit
<1>2. CASE lc'.calls \subseteq lc.calls
  <2>1. IsFiniteSet(lc'.calls) /\ Cardinality(lc'.calls) <= Cardinality(lc.calls)
    BY <1>1, <1>2, FS_Subset
  <2>2. Cardinality(lc.calls) \in Nat /\ Cardinality(lc'.calls) \in Nat
    BY <1>1, <2>1, FS_CardinalityType
  <2> QED
    BY <1>1, <2>1, <2>2, BoundAssumption DEF LimitInv, WithinLimit
<1>3. ASSUME NEW c \in Call, NEW kept \in SUBSET lc.calls,
             Cardinality(kept) < MaxCalls, lc'.calls \subseteq kept \cup {c}
      PROVE  LimitInv'
  <2>1. IsFiniteSet(kept) /\ Cardinality(kept) \in Nat
    BY <1>1, FS_Subset, FS_CardinalityType
  <2>2. /\ IsFiniteSet(kept \cup {c})
        /\ Cardinality(kept \cup {c}) =
             IF c \in kept THEN Cardinality(kept) ELSE Cardinality(kept) + 1
    BY <2>1, FS_AddElement
  <2>3. Cardinality(kept \cup {c}) \in Nat /\ Cardinality(kept \cup {c}) <= MaxCalls
    BY <1>3, <2>1, <2>2, BoundAssumption
  <2>4. IsFiniteSet(lc'.calls) /\ Cardinality(lc'.calls) <= Cardinality(kept \cup {c})
    BY <1>3, <2>2, FS_Subset
  <2>5. Cardinality(lc'.calls) \in Nat
    BY <2>4, FS_CardinalityType
  <2> QED
    BY <2>3, <2>4, <2>5, BoundAssumption DEF LimitInv, WithinLimit
<1> QED
  BY <1>2, <1>3 DEF Limited

\* The limit of linphone_core_set_max_calls() holds through every handler that adds
\* a call: an INVITE sent, an INVITE received, and a transfer, which sends one
\* after it has put the transferred call on hold.
THEOREM LimitKept == Spec => []WithinLimit
<1>1. Init => LimitInv
  <2>1. Init => lc.calls = {}
    BY DEF Init, EmptyCore
  <2> QED
    BY <2>1, FS_EmptySet, BoundAssumption DEF LimitInv, WithinLimit
<1>2. TypeOK /\ LimitInv /\ [Next]_lc => LimitInv'
  <2>1. CASE UNCHANGED lc
    BY <2>1 DEF LimitInv, WithinLimit
  <2> QED
    BY <2>1, NextLimited, LimitStep
<1>3. LimitInv => WithinLimit
  BY DEF LimitInv
<1> QED
  BY TypeCorrect, <1>1, <1>2, <1>3, PTL DEF Spec

-----------------------------------------------------------------------------
(* The inductive invariant                                                 *)

\* The three faults under which the list really goes wrong: a call whose first INVITE
\* is answered 491 goes back to Idle, an update before the answer leaves the call in
\* EarlyUpdating, and refusing an early UPDATE of the caller ends the dialog but not
\* the call.
Mannerly == Faults \cap {"initial491", "earlyUpdate", "refusedUpdate"} = {}

\* The states between which an answered call moves.
Settling == Answered \ {"Connected"}

\* The phase of the operation in each state of the call.
OpFits(state, op) ==
  /\ state = "Idle" => op \in {"none", "ringing"}
  /\ state = "Released" => op = "none"
  /\ state \in Ended => op \notin {"inviting", "early", "ringing"}
  /\ state = "OutgoingInit" => op = "init"
  /\ state \in AwaitingAnswer => op \in {"inviting", "early"}
  /\ state \in Alerting => op = "ringing"
  /\ state \in Answered => op = "active"
  /\ state = "EarlyUpdatedByRemote" => op \in {"early", "ringing", "active"}
  /\ state # "EarlyUpdating"

\* A call is listed from its first state to its end.
ListFits(s, c) ==
  c \in s.calls <=> s.state[c] \in Live \/ (s.state[c] = "Idle" /\ s.op[c] = "ringing")

\* A request of ours waits for its answer only in an answered call.
RequestFits(s, c) ==
  s.ct[c] # "none" => s.op[c] = "active" /\ s.state[c] \in Settling \ {"Paused"} /\ s.prev[c] \in Settling

\* An INVITE waits for our answer as long as the call rings, and an UPDATE as long as
\* the call stays in EarlyUpdatedByRemote.
OfferFits(s, c) ==
  /\ s.op[c] = "ringing" /\ s.state[c] # "EarlyUpdatedByRemote" => s.pend[c] = {"invite"}
  /\ s.state[c] = "EarlyUpdatedByRemote" /\ s.op[c] # "active" => "update" \in s.pend[c]
  /\ s.state[c] = "Idle" /\ s.op[c] = "none" => s.pend[c] = {}
  /\ s.state[c] \in {"Idle", "IncomingReceived"} => s.dir[c] = "none"

\* What a refused request, or an answered offer, brings back is a state of an
\* answered call; but a paused call is never restored from UpdatedByRemote.
PrevFits(s, c) ==
  /\ s.state[c] \in Transient => s.prev[c] \in Settling
  /\ s.state[c] = "UpdatedByRemote" => s.prev[c] \in Settling \ {"Paused"}
  /\ s.state[c] = "EarlyUpdatedByRemote" /\ s.op[c] = "early" => s.prev[c] \in AwaitingAnswer

\* The call log, and the reason that settles it.
LogFits(s, c) ==
  /\ s.state[c] = "Idle" \/ s.op[c] = "ringing" => s.log[c] # "success"
  /\ s.err[c] # "none" => s.state[c] \in Ended
  /\ ~ UseIce => s.state[c] # "EarlyUpdatedByRemote"
  /\ ~ UseIce /\ s.state[c] \in Answered => s.log[c] = "success"

\* The row of one call.
CallFits(s, c) ==
  /\ OpFits(s.state[c], s.op[c])
  /\ ListFits(s, c) /\ RequestFits(s, c) /\ OfferFits(s, c) /\ PrevFits(s, c) /\ LogFits(s, c)
  /\ s.replaces[c] # c

\* The application that hangs up from a callback leaves a dangling current call.
CurrentFits(s) == "appHangup" \in Faults \/ s.current \in s.calls \cup {NoCall}

\* The inductive invariant of the calls.
Consistent(s) == s \in CoreType /\ CurrentFits(s) /\ \A c \in Call : CallFits(s, c)

\* No answered call is forgotten.
LogKept(s, t) == \A c \in Call : s.log[c] = "success" => t.log[c] = "success"

\* What is shown of every handler, which takes the core s to t.
Leads(s, t) == Consistent(t) /\ LogKept(s, t)

\* All that the invariant says of call c is unchanged.
Same(s, t, c) ==
  /\ t.state[c] = s.state[c] /\ t.prev[c] = s.prev[c]
  /\ t.op[c] = s.op[c] /\ t.ct[c] = s.ct[c] /\ t.pend[c] = s.pend[c] /\ t.dir[c] = s.dir[c]
  /\ t.err[c] = s.err[c] /\ t.log[c] = s.log[c] /\ t.replaces[c] = s.replaces[c]
  /\ c \in t.calls <=> c \in s.calls

\* Nothing but call c changes, and the current call at most to c.
Only(s, t, c) ==
  /\ t \in CoreType /\ t.current \in {s.current, NoCall, c}
  /\ \A d \in Call \ {c} : Same(s, t, d)

\* Media, tones, timers and tasks: nothing the invariant speaks of.
Silent(s, t) ==
  /\ t \in CoreType /\ t.current \in {s.current, NoCall}
  /\ \A d \in Call : Same(s, t, d)

-----------------------------------------------------------------------------
(* Composition                                                             *)

\* Handlers compose.
LEMMA LeadsTrans ==
  ASSUME NEW s, NEW t, NEW u, Leads(s, t), Leads(t, u)
  PROVE  Leads(s, u)
BY DEF Leads, LogKept

LEMMA LeadsSelf ==
  ASSUME NEW s, Consistent(s)
  PROVE  Leads(s, s)
BY DEF Leads, LogKept

\* The row of a call depends on nothing else.
LEMMA SameFits ==
  ASSUME NEW s, NEW t, NEW c \in Call, Same(s, t, c), CallFits(s, c)
  PROVE  CallFits(t, c)
BY DEF Same, CallFits, ListFits, RequestFits, OfferFits, PrevFits, LogFits

\* A handler of one call is right when the new row of that call is.
LEMMA OnlyLeads ==
  ASSUME NEW s, NEW t, NEW c \in Call, Consistent(s), Only(s, t, c), CallFits(t, c),
         s.log[c] = "success" => t.log[c] = "success",
         t.current = c => c \in t.calls \/ "appHangup" \in Faults
  PROVE  Leads(s, t)
<1>1. \A d \in Call : CallFits(t, d)
  BY SameFits DEF Only, Consistent
<1>2. CurrentFits(t)
  BY NoCallAssumption DEF Only, Consistent, CurrentFits, Same, CoreType
<1>3. LogKept(s, t)
  BY DEF LogKept, Only, Same
<1> QED BY <1>1, <1>2, <1>3 DEF Leads, Consistent, Only

LEMMA SilentLeads ==
  ASSUME NEW s, NEW t, Consistent(s), Silent(s, t)
  PROVE  Leads(s, t)
<1>1. \A d \in Call : CallFits(t, d)
  BY SameFits DEF Silent, Consistent
<1>2. CurrentFits(t)
  BY NoCallAssumption DEF Silent, Consistent, CurrentFits, Same, CoreType
<1> QED BY <1>1, <1>2 DEF Silent, Same, Leads, LogKept, Consistent

LEMMA SilentTrans ==
  ASSUME NEW s, NEW t, NEW u, Silent(s, t), Silent(t, u)
  PROVE  Silent(s, u)
BY DEF Silent, Same

LEMMA SilentOnly ==
  ASSUME NEW s, NEW t, NEW u, NEW c \in Call
  PROVE  /\ Silent(s, t) => Only(s, t, c)
         /\ Only(s, t, c) /\ Only(t, u, c) => Only(s, u, c)
BY DEF Silent, Only, Same

-----------------------------------------------------------------------------
(* Single updates of the core                                              *)

LEMMA RingIsSilent ==
  ASSUME NEW s \in CoreType
  PROVE  Silent(s, s) /\ Silent(s, StopRinging(s)) /\ Silent(s, StartRinging(s)) /\ Silent(s, NoCurrent(s))
<1>1. Silent(s, s) /\ Silent(s, StopRinging(s)) /\ Silent(s, StartRinging(s))
  BY RingKeeps DEF Silent, Same, Keeps, StopRinging, StartRinging
<1>2. NoCurrent(s) \in CoreType
  BY DEF NoCurrent, CoreType
<1>3. NoCurrent(s).current = NoCall
  BY DEF NoCurrent, CoreType
<1>4. \A d \in Call : Same(s, NoCurrent(s), d)
  BY DEF NoCurrent, Same
<1> QED BY <1>1, <1>2, <1>3, <1>4 DEF Silent

LEMMA MediaIsSilent ==
  ASSUME NEW s \in CoreType, NEW c \in Call, NEW b \in BOOLEAN
  PROVE  /\ Silent(s, Gathering(s, c, b)) /\ Silent(s, AutoPaused(s, c, b))
         /\ Silent(s, ExpectMediaInAck(s, c)) /\ Silent(s, StopStreams(s, c))
         /\ Silent(s, QueueResume(s, c)) /\ Silent(s, DequeueResume(s, c))
<1>1. Silent(s, Gathering(s, c, b)) /\ Silent(s, AutoPaused(s, c, b))
  BY GatheringKeeps, AutoPausedKeeps DEF Silent, Same, Keeps, Gathering, AutoPaused
<1>2. Silent(s, ExpectMediaInAck(s, c)) /\ Silent(s, StopStreams(s, c))
  BY ExpectMediaInAckKeeps, StopStreamsKeeps DEF Silent, Same, Keeps, ExpectMediaInAck, StopStreams
<1>3. Silent(s, QueueResume(s, c)) /\ Silent(s, DequeueResume(s, c))
  BY QueueResumeKeeps DEF Silent, Same, Keeps, QueueResume, DequeueResume
<1> QED BY <1>1, <1>2, <1>3

LEMMA RefererIsSilent ==
  ASSUME NEW s \in CoreType, NEW c \in Call, NEW ref \in Call \cup {NoCall}
  PROVE  Silent(s, Referer(s, c, ref))
BY RefererKeeps DEF Silent, Same, Keeps, Referer

LEMMA CurrentLeads ==
  ASSUME NEW s, NEW c \in Call, Consistent(s), c \in s.calls \/ "appHangup" \in Faults
  PROVE  Leads(s, MakeCurrent(s, c)) /\ \A d \in Call : Same(s, MakeCurrent(s, c), d)
<1> DEFINE t == MakeCurrent(s, c)
<1>1. t \in CoreType /\ t.current = c /\ t.calls = s.calls /\ \A d \in Call : Same(s, t, d)
  BY CurrentKeeps DEF Consistent, Within, Same, MakeCurrent, CoreType
<1> HIDE DEF t
<1>2. \A d \in Call : CallFits(t, d)
  BY <1>1, SameFits DEF Consistent
<1>3. CurrentFits(t)
  BY <1>1 DEF CurrentFits
<1> QED BY <1>1, <1>2, <1>3 DEF Leads, Consistent, LogKept, Same, t

-----------------------------------------------------------------------------
(* linphone_call_set_state()                                               *)

\* A call that is not over enters a state.
LEMMA SetStateMoves ==
  ASSUME NEW s \in CoreType, NEW c \in Call, NEW new \in CallState \ {"Released"},
         s.state[c] \notin Ended, s.state[c] # new
  PROVE  LET t == SetState(s, c, new)
         IN  /\ Only(s, t, c)
             /\ t.state[c] = new /\ t.prev[c] = s.state[c]
             /\ t.op[c] = s.op[c] /\ t.ct[c] = s.ct[c] /\ t.pend[c] = s.pend[c]
             /\ t.dir[c] = s.dir[c] /\ t.err[c] = s.err[c] /\ t.replaces[c] = s.replaces[c]
             /\ c \in t.calls <=> c \in s.calls /\ new \notin Ended
             /\ t.log[c] = CASE new = "Connected" -> "success"
                             [] new \in Ended /\ s.err[c] = "declined" -> "declined"
                             [] new \in Ended /\ s.err[c] = "timeout" -> "missed"
                             [] OTHER -> s.log[c]
             /\ new \in Ended => t.current # c
             /\ t.retries = s.retries
<1> DEFINE t == SetState(s, c, new)
           q == StateIs(Remembered(s, c), c, new)
<1>1. new \in CallState /\ new # "Refered" /\ new # "Released"
  BY DEF CallState
<1>2. t \in CoreType
  BY <1>1, SetStateKeeps DEF Keeps
<1>3. t = CASE new \in Ended -> Terminated(Logged(q, c), c)
            [] new = "Connected" -> LogStatus(q, c, "success")
            [] OTHER -> q
  BY <1>1 DEF SetState, Entered
<1>4. /\ q \in CoreType
      /\ q.state = [s.state EXCEPT ![c] = new] /\ q.prev = [s.prev EXCEPT ![c] = s.state[c]]
      /\ q.op = s.op /\ q.ct = s.ct /\ q.pend = s.pend /\ q.dir = s.dir /\ q.err = s.err
      /\ q.log = s.log /\ q.replaces = s.replaces /\ q.calls = s.calls /\ q.current = s.current
      /\ q.retries = s.retries
  <2> DEFINE r == Remembered(s, c)
  <2>1. r \in CoreType /\ q \in CoreType
    BY <1>1, RememberedKeeps, StateIsKeeps DEF Keeps
  <2>2. /\ r.prev = [s.prev EXCEPT ![c] = s.state[c]]
        /\ r.state = s.state /\ r.op = s.op /\ r.ct = s.ct /\ r.pend = s.pend /\ r.dir = s.dir
        /\ r.err = s.err /\ r.log = s.log /\ r.replaces = s.replaces /\ r.calls = s.calls
        /\ r.current = s.current /\ r.retries = s.retries
    BY DEF Remembered, CoreType
  <2> HIDE DEF r
  <2>3. /\ q.state = [r.state EXCEPT ![c] = new]
        /\ q.prev = r.prev /\ q.op = r.op /\ q.ct = r.ct /\ q.pend = r.pend /\ q.dir = r.dir
        /\ q.err = r.err /\ q.log = r.log /\ q.replaces = r.replaces /\ q.calls = r.calls
        /\ q.current = r.current /\ q.retries = r.retries
    BY <2>1 DEF StateIs, CoreType, r
  <2> QED BY <2>1, <2>2, <2>3
<1> HIDE DEF q
<1>5. CASE new \in Ended
  <2>1. t = Terminated(Logged(q, c), c)
    BY <1>3, <1>5 DEF Ended
  <2>2. /\ t.state = q.state /\ t.prev = q.prev /\ t.op = q.op /\ t.ct = q.ct /\ t.pend = q.pend
        /\ t.dir = q.dir /\ t.err = q.err /\ t.replaces = q.replaces /\ t.retries = q.retries
        /\ t.calls = q.calls \ {c} /\ t.current = IF q.current = c THEN NoCall ELSE q.current
        /\ t.log = Logged(q, c).log
    BY <2>1 DEF Terminated, Logged
  <2>3. t.log = [q.log EXCEPT ![c] = CASE q.err[c] = "declined" -> "declined"
                                      [] q.err[c] = "timeout" -> "missed"
                                      [] OTHER -> @]
    BY <2>2 DEF Logged
  <2>4. new # "Connected"
    BY <1>5 DEF Ended
  <2> HIDE DEF t
  <2> QED BY <1>2, <1>4, <1>5, <2>2, <2>3, <2>4, NoCallAssumption DEF Only, Same, CoreType, t
<1>6. CASE new = "Connected"
  <2>1. t = LogStatus(q, c, "success") /\ new \notin Ended
    BY <1>3, <1>6 DEF Ended
  <2>2. /\ t.state = q.state /\ t.prev = q.prev /\ t.op = q.op /\ t.ct = q.ct /\ t.pend = q.pend
        /\ t.dir = q.dir /\ t.err = q.err /\ t.replaces = q.replaces /\ t.retries = q.retries
        /\ t.calls = q.calls /\ t.current = q.current
        /\ t.log = [q.log EXCEPT ![c] = "success"]
    BY <2>1 DEF LogStatus
  <2> HIDE DEF t
  <2> QED BY <1>2, <1>4, <1>6, <2>1, <2>2 DEF Only, Same, CoreType, t
<1>7. CASE new \notin Ended /\ new # "Connected"
  <2>1. t = q
    BY <1>3, <1>7
  <2> HIDE DEF t
  <2> QED BY <1>2, <1>4, <1>7, <2>1 DEF Only, Same, CoreType, t
<1> QED BY <1>5, <1>6, <1>7

\* A call that is over stays so, but call->prevstate is overwritten.
LEMMA SetStateOver ==
  ASSUME NEW s, NEW c \in Call, Consistent(s), NEW new \in (CallState \ {"Released"}) \cup {"Refered"},
         s.state[c] \in Ended
  PROVE  LET t == SetState(s, c, new)
         IN  /\ Leads(s, t) /\ Only(s, t, c)
             /\ t.state[c] = s.state[c] /\ t.op[c] = s.op[c] /\ t.calls = s.calls
             /\ t.current = s.current
<1> DEFINE t == SetState(s, c, new)
<1>1. s \in CoreType /\ new # "Released"
  BY DEF Consistent, CallState
<1>2. t \in {s, Remembered(s, c)}
  BY <1>1 DEF SetState
<1>3. t \in CoreType
  BY <1>1, <1>2, RememberedKeeps DEF Keeps
<1>4. /\ \A d \in Call \ {c} : Same(s, t, d)
      /\ t.state = s.state /\ t.op = s.op /\ t.ct = s.ct /\ t.pend = s.pend /\ t.dir = s.dir
      /\ t.err = s.err /\ t.log = s.log /\ t.replaces = s.replaces /\ t.calls = s.calls
      /\ t.current = s.current
  BY <1>1, <1>2 DEF Remembered, Same, CoreType
<1> HIDE DEF t
<1>5. CallFits(s, c)
  BY DEF Consistent
<1>6. CallFits(t, c)
  BY <1>4, <1>5 DEF CallFits, ListFits, RequestFits, OfferFits, PrevFits, LogFits, Ended, Settling, Answered, Transient, Alerting
<1>7. Only(s, t, c)
  BY <1>3, <1>4 DEF Only
<1>8. t.current = c => c \in t.calls \/ "appHangup" \in Faults
  BY <1>4, NoCallAssumption DEF Consistent, CurrentFits
<1>9. Leads(s, t)
  BY <1>4, <1>6, <1>7, <1>8, OnlyLeads
<1> QED BY <1>4, <1>7, <1>9 DEF t

-----------------------------------------------------------------------------
(* The media and the requests of an answered call                          *)

LEMMA OnlyCalls ==
  ASSUME NEW s \in CoreType, NEW t, NEW c \in Call, Only(s, t, c),
         c \in t.calls <=> c \in s.calls
  PROVE  t.calls = s.calls
<1>1. t.calls \in SUBSET Call /\ s.calls \in SUBSET Call
  BY DEF Only, CoreType
<1>2. \A d \in Call : d \in t.calls <=> d \in s.calls
  BY DEF Only, Same
<1> QED BY <1>1, <1>2

LEMMA UpdateStreamsOnly ==
  ASSUME NEW s \in CoreType, NEW c \in Call, NEW dir \in Dir
  PROVE  LET t == UpdateStreams(s, c, dir)
         IN  /\ Only(s, t, c) /\ t.current = s.current /\ t.calls = s.calls
             /\ t.state = s.state /\ t.prev = s.prev /\ t.op = s.op /\ t.ct = s.ct
             /\ t.pend = s.pend /\ t.err = s.err /\ t.log = s.log /\ t.replaces = s.replaces
             /\ t.rmd = s.rmd
<1> DEFINE t == UpdateStreams(s, c, dir)
<1>1. t \in CoreType
  BY UpdateStreamsKeeps DEF Keeps
<1>2. /\ t.current = s.current /\ t.calls = s.calls
      /\ t.state = s.state /\ t.prev = s.prev /\ t.op = s.op /\ t.ct = s.ct
      /\ t.pend = s.pend /\ t.err = s.err /\ t.log = s.log /\ t.replaces = s.replaces
      /\ t.dir = [s.dir EXCEPT ![c] = dir] /\ t.rmd = s.rmd
  BY DEF UpdateStreams, CoreType
<1> HIDE DEF t
<1>3. \A d \in Call \ {c} : t.dir[d] = s.dir[d]
  BY <1>2 DEF CoreType
<1> QED BY <1>1, <1>2, <1>3 DEF Only, Same, t

LEMMA UpdateStreamsLeads ==
  ASSUME NEW s, NEW c \in Call, NEW dir \in Dir, Consistent(s),
         s.state[c] \notin {"Idle", "IncomingReceived"}
  PROVE  Leads(s, UpdateStreams(s, c, dir))
<1> DEFINE t == UpdateStreams(s, c, dir)
<1>1. /\ Only(s, t, c) /\ t.current = s.current /\ t.calls = s.calls
      /\ t.state = s.state /\ t.prev = s.prev /\ t.op = s.op /\ t.ct = s.ct
      /\ t.pend = s.pend /\ t.err = s.err /\ t.log = s.log /\ t.replaces = s.replaces
  BY UpdateStreamsOnly DEF Consistent
<1> HIDE DEF t
<1>2. CallFits(t, c)
  BY <1>1 DEF Consistent, CallFits, ListFits, RequestFits, OfferFits, PrevFits, LogFits
<1>3. t.current = c => c \in t.calls \/ "appHangup" \in Faults
  BY <1>1, NoCallAssumption DEF Consistent, CurrentFits
<1> QED BY <1>1, <1>2, <1>3, OnlyLeads DEF t

\* sal_call_update()
LEMMA SalUpdateOnly ==
  ASSUME NEW s \in CoreType, NEW c \in Call, NEW request \in Request, s.op[c] = "active"
  PROVE  LET t == SalUpdate(s, c, request)
         IN  /\ Only(s, t, c) /\ t.current = s.current /\ t.calls = s.calls
             /\ t.state = s.state /\ t.prev = s.prev /\ t.op = s.op /\ t.dir = s.dir
             /\ t.pend = s.pend /\ t.err = s.err /\ t.log = s.log /\ t.replaces = s.replaces
<1> DEFINE t == SalUpdate(s, c, request)
<1>1. t \in CoreType
  BY SalUpdateKeeps DEF Keeps
<1>2. t = IF CanUpdate(s, c) THEN [s EXCEPT !.ct[c] = request] ELSE s
  BY DEF SalUpdate
<1>3. /\ t.current = s.current /\ t.calls = s.calls
      /\ t.state = s.state /\ t.prev = s.prev /\ t.op = s.op /\ t.dir = s.dir
      /\ t.pend = s.pend /\ t.err = s.err /\ t.log = s.log /\ t.replaces = s.replaces
      /\ t.ct = IF CanUpdate(s, c) THEN [s.ct EXCEPT ![c] = request] ELSE s.ct
  BY <1>2 DEF CoreType
<1> HIDE DEF t
<1>4. \A d \in Call \ {c} : t.ct[d] = s.ct[d]
  BY <1>3 DEF CoreType
<1> QED BY <1>1, <1>3, <1>4 DEF Only, Same, t

LEMMA SalUpdateLeads ==
  ASSUME NEW s, NEW c \in Call, NEW request \in Request, Consistent(s),
         s.state[c] \in Transient
  PROVE  LET t == SalUpdate(s, c, request)
         IN  Leads(s, t) /\ Only(s, t, c)
<1> DEFINE t == SalUpdate(s, c, request)
<1>1. CallFits(s, c)
  BY DEF Consistent
<1>2. s.op[c] = "active" /\ s.state[c] \in Settling \ {"Paused"} /\ s.prev[c] \in Settling
  BY <1>1 DEF CallFits, OpFits, PrevFits, Transient, Settling, Answered
<1>3. /\ Only(s, t, c) /\ t.current = s.current /\ t.calls = s.calls
      /\ t.state = s.state /\ t.prev = s.prev /\ t.op = s.op /\ t.dir = s.dir
      /\ t.pend = s.pend /\ t.err = s.err /\ t.log = s.log /\ t.replaces = s.replaces
  BY <1>2, SalUpdateOnly DEF Consistent
<1> HIDE DEF t
<1>4. CallFits(t, c)
  BY <1>1, <1>2, <1>3 DEF CallFits, ListFits, RequestFits, OfferFits, PrevFits, LogFits
<1>5. t.current = c => c \in t.calls \/ "appHangup" \in Faults
  BY <1>3, NoCallAssumption DEF Consistent, CurrentFits
<1> QED BY <1>3, <1>4, <1>5, OnlyLeads DEF t

\* A call goes from one of its states to another.
LEMMA MoveLeads ==
  ASSUME NEW s, NEW c \in Call, NEW new \in Live, Consistent(s), s.state[c] \notin Ended, 
         s.state[c] # new => CallFits(SetState(s, c, new), c),
         c \in s.calls
  PROVE  LET t == SetState(s, c, new)
         IN  /\ Leads(s, t) /\ Only(s, t, c) /\ t.state[c] = new /\ t.calls = s.calls
             /\ t.op[c] = s.op[c] /\ t.pend[c] = s.pend[c]
<1> DEFINE t == SetState(s, c, new)
<1>1. s \in CoreType /\ new \in CallState \ {"Released"} /\ new \notin Ended
  BY DEF Consistent, Live
<1>2. CASE s.state[c] = new
  <2>1. t = s
    BY <1>2 DEF SetState
  <2> QED BY <1>1, <1>2, <2>1, LeadsSelf, RingIsSilent, SilentOnly
<1>3. CASE s.state[c] # new
  <2>1. /\ Only(s, t, c) /\ t.state[c] = new /\ t.op[c] = s.op[c]
        /\ c \in t.calls <=> c \in s.calls
        /\ s.log[c] = "success" => t.log[c] = "success"
        /\ t.pend[c] = s.pend[c]
    BY <1>1, <1>3, SetStateMoves
  <2> HIDE DEF t
  <2>2. CallFits(t, c)
    BY <1>3 DEF t
  <2>3. Leads(s, t)
    BY <2>1, <2>2, OnlyLeads
  <2>4. t.calls = s.calls
    BY <1>1, <2>1, OnlyCalls
  <2> QED BY <2>1, <2>3, <2>4 DEF t
<1> QED BY <1>2, <1>3

\* From and to the states of an answered call.
LEMMA MoveAnswered ==
  ASSUME NEW s, NEW c \in Call, NEW new \in Settling, Consistent(s),
         s.op[c] = "active",
         s.state[c] \in Settling \cup {"Connected", "EarlyUpdatedByRemote"},
         new \in Transient => s.state[c] \in Settling,
         new = "UpdatedByRemote" => s.state[c] \in Settling \ {"Paused"},
         s.ct[c] # "none" => new # "Paused"
  PROVE  LET t == SetState(s, c, new)
         IN  /\ Leads(s, t) /\ Only(s, t, c) /\ t.state[c] = new /\ t.calls = s.calls
             /\ t.op[c] = s.op[c] /\ t.pend[c] = s.pend[c]
<1> DEFINE t == SetState(s, c, new)
<1>1. s \in CoreType /\ new \in CallState \ {"Released"} /\ new \notin Ended /\ new \in Live
  BY DEF Consistent, Live, Settling, Answered, CallState, Ended
<1>2. s.state[c] \in Live /\ s.state[c] \notin Ended
  BY DEF Live, Settling, Answered, CallState, Ended
<1>3. c \in s.calls
  BY <1>2 DEF Consistent, CallFits, ListFits
<1>4. ASSUME s.state[c] # new PROVE CallFits(t, c)
  <2>1. /\ t.state[c] = new /\ t.prev[c] = s.state[c]
        /\ t.op[c] = s.op[c] /\ t.ct[c] = s.ct[c] /\ t.pend[c] = s.pend[c]
        /\ t.dir[c] = s.dir[c] /\ t.err[c] = s.err[c] /\ t.replaces[c] = s.replaces[c]
        /\ c \in t.calls <=> c \in s.calls
        /\ t.log[c] = s.log[c]
    BY <1>1, <1>2, <1>4, SetStateMoves DEF Settling
  <2> HIDE DEF t
  <2>2. /\ OpFits(new, "active") /\ new \notin {"Idle", "IncomingReceived", "EarlyUpdatedByRemote"}
        /\ new \in Answered
    BY DEF OpFits, Settling, Answered, Ended, AwaitingAnswer, Outgoing, Alerting
  <2>3. CallFits(s, c)
    BY DEF Consistent
  <2>4. s.ct[c] # "none" => s.state[c] \in Settling
    BY <2>3 DEF CallFits, RequestFits
  <2>5. ~ UseIce => s.log[c] = "success"
    BY <2>3 DEF CallFits, LogFits, Settling, Answered
  <2>6. s.err[c] = "none"
    BY <1>2, <2>3 DEF CallFits, LogFits
  <2>7. RequestFits(t, c)
    BY <2>1, <2>4 DEF RequestFits
  <2>8. OfferFits(t, c) /\ PrevFits(t, c)
    BY <2>1, <2>2 DEF OfferFits, PrevFits
  <2>9. ListFits(t, c)
    BY <1>1, <1>3, <2>1 DEF ListFits
  <2>10. LogFits(t, c)
    BY <2>1, <2>2, <2>5, <2>6 DEF LogFits
  <2> QED BY <2>1, <2>2, <2>3, <2>7, <2>8, <2>9, <2>10 DEF CallFits
<1> QED BY <1>1, <1>2, <1>3, <1>4, MoveLeads

LEMMA SilentParts ==
  ASSUME NEW s, NEW t, NEW c \in Call, Silent(s, t)
  PROVE  /\ t.state[c] = s.state[c] /\ t.prev[c] = s.prev[c] /\ t.op[c] = s.op[c]
         /\ t.ct[c] = s.ct[c] /\ t.pend[c] = s.pend[c] /\ t.dir[c] = s.dir[c]
         /\ t.err[c] = s.err[c] /\ t.log[c] = s.log[c] /\ t.replaces[c] = s.replaces[c]
         /\ c \in t.calls <=> c \in s.calls
         /\ t \in CoreType /\ Only(s, t, c)
BY SilentOnly DEF Silent, Same

\* _linphone_core_pause_call()
LEMMA PauseCallLeads ==
  ASSUME NEW s, NEW c \in Call, Consistent(s)
  PROVE  LET t == PauseCall(s, c)
         IN  /\ Leads(s, t) /\ Only(s, t, c) /\ t.calls = s.calls
             /\ s.state[c] \notin {"StreamsRunning", "PausedByRemote"} => t = s
             /\ s.state[c] \in {"StreamsRunning", "PausedByRemote"} =>
                  t.state[c] \in {s.state[c], "Pausing"}
<1> DEFINE u == SalUpdate(s, c, "hold")
           q == StopStreams(NoCurrent(u), c)
           t == SetState(q, c, "Pausing")
<1>1. CASE PauseCall(s, c) = s
  BY <1>1, LeadsSelf, RingIsSilent, SilentOnly DEF Consistent
<1>2. CASE PauseCall(s, c) # s
  <2>1. PauseCall(s, c) = t /\ s.state[c] \in {"StreamsRunning", "PausedByRemote"}
    BY <1>2 DEF PauseCall
  <2>2. CallFits(s, c) /\ s \in CoreType
    BY DEF Consistent
  <2>3. s.op[c] = "active" /\ "hold" \in Request
    BY <2>1, <2>2 DEF CallFits, OpFits, Answered, Request
  <2>4. /\ Only(s, u, c) /\ u.state = s.state /\ u.op = s.op /\ u.dir = s.dir /\ u.pend = s.pend
        /\ u.err = s.err /\ u.log = s.log /\ u.replaces = s.replaces /\ u.calls = s.calls
    BY <2>2, <2>3, SalUpdateOnly
  <2> HIDE DEF u
  <2>5. Silent(u, q) /\ q \in CoreType
    BY <2>4, RingIsSilent, MediaIsSilent, SilentTrans DEF Only, Silent
  <2>6. /\ Only(s, q, c) /\ q.state[c] = s.state[c] /\ q.op[c] = s.op[c] /\ q.dir[c] = s.dir[c]
        /\ q.pend[c] = s.pend[c] /\ q.err[c] = s.err[c] /\ q.log[c] = s.log[c]
        /\ q.replaces[c] = s.replaces[c] /\ (c \in q.calls <=> c \in s.calls)
    BY <2>4, <2>5, SilentParts, SilentOnly
  <2> HIDE DEF q
  <2>7. /\ "Pausing" \in CallState \ {"Released"} /\ q.state[c] \notin Ended /\ q.state[c] # "Pausing"
        /\ "Pausing" \notin Ended
    BY <2>1, <2>6 DEF CallState, Ended
  <2>8. /\ Only(q, t, c) /\ t.state[c] = "Pausing" /\ t.prev[c] = s.state[c]
        /\ t.op[c] = "active" /\ t.pend[c] = s.pend[c]
        /\ t.dir[c] = s.dir[c] /\ t.err[c] = s.err[c] /\ t.replaces[c] = s.replaces[c]
        /\ c \in t.calls <=> c \in s.calls
        /\ t.log[c] = s.log[c]
    BY <2>3, <2>5, <2>6, <2>7, SetStateMoves
  <2> HIDE DEF t
  <2>9. c \in s.calls
    BY <2>1, <2>2 DEF CallFits, ListFits, Live, CallState, Ended
  <2>10. s.err[c] = "none" /\ (~ UseIce => s.log[c] = "success")
    BY <2>1, <2>2 DEF CallFits, LogFits, Answered, Ended
  <2>11. s.state[c] \in Settling /\ "Pausing" \in Settling \ {"Paused"} /\ "Pausing" \in Live
    BY <2>1 DEF Settling, Answered, Live, CallState, Ended
  <2>12. OpFits(t.state[c], t.op[c])
    BY <2>8 DEF OpFits, Ended, AwaitingAnswer, Outgoing, Alerting
  <2>13. ListFits(t, c) /\ LogFits(t, c)
    BY <2>8, <2>9, <2>10, <2>11 DEF ListFits, LogFits
  <2>14. RequestFits(t, c) /\ OfferFits(t, c) /\ PrevFits(t, c)
    BY <2>8, <2>11 DEF RequestFits, OfferFits, PrevFits
  <2>15. CallFits(t, c)
    BY <2>2, <2>8, <2>12, <2>13, <2>14 DEF CallFits
  <2>16. Only(s, t, c)
    BY <2>6, <2>8, SilentOnly
  <2> QED BY <2>1, <2>2, <2>8, <2>9, <2>15, <2>16, OnlyLeads, OnlyCalls
<1> QED BY <1>1, <1>2

\* linphone_core_preempt_sound_resources()
LEMMA PreemptLeads ==
  ASSUME NEW s, Consistent(s)
  PROVE  /\ Leads(s, Preempt(s)) /\ Preempt(s).calls = s.calls
         /\ \A d \in Call : \/ s.current # d
                            \/ s.state[d] \notin {"StreamsRunning", "PausedByRemote"}
                            => Same(s, Preempt(s), d)
<1> DEFINE p == IF s.current # NoCall THEN PauseCall(s, s.current) ELSE s
<1>1. s \in CoreType /\ (s.current # NoCall => s.current \in Call)
  BY DEF Consistent, CoreType
<1>2. Preempt(s) = StopRinging(p)
  BY DEF Preempt
<1>3. CASE s.current = NoCall
  <2>1. Preempt(s) = StopRinging(s)
    BY <1>2, <1>3
  <2>2. StopRinging(s).calls = s.calls
    BY DEF StopRinging
  <2> QED BY <1>1, <2>1, <2>2, RingIsSilent, SilentLeads DEF Silent
<1>4. CASE s.current # NoCall
  <2> DEFINE c == s.current
             q == PauseCall(s, c)
  <2>1. c \in Call /\ Preempt(s) = StopRinging(q)
    BY <1>1, <1>2, <1>4
  <2>2. /\ Leads(s, q) /\ Only(s, q, c) /\ q.calls = s.calls
        /\ s.state[c] \notin {"StreamsRunning", "PausedByRemote"} => q = s
    BY <2>1, PauseCallLeads
  <2> HIDE DEF q
  <2>3. StopRinging(q).calls = q.calls
    BY DEF StopRinging
  <2>4. Consistent(q) /\ q \in CoreType
    BY <2>2 DEF Leads, Consistent
  <2>5. Silent(q, StopRinging(q))
    BY <2>4, RingIsSilent
  <2>6. Leads(s, StopRinging(q))
    BY <2>2, <2>4, <2>5, SilentLeads, LeadsTrans
  <2>7. \A d \in Call : d # c \/ q = s => Same(s, StopRinging(q), d)
    BY <2>2, <2>5 DEF Only, Silent, Same
  <2> QED BY <2>1, <2>2, <2>3, <2>6, <2>7
<1> QED BY <1>3, <1>4

-----------------------------------------------------------------------------
(* Ending a call                                                           *)

\* The row of a call that is over.
LEMMA EndedFits ==
  ASSUME NEW t, NEW c \in Call, t.state[c] \in Ended, t.op[c] \notin {"inviting", "early", "ringing"},
         c \notin t.calls, t.ct[c] = "none", t.replaces[c] # c
  PROVE  CallFits(t, c)
<1>1. /\ t.state[c] \notin Live \cup Transient \cup Answered \cup AwaitingAnswer \cup Alerting
      /\ t.state[c] \notin {"Idle", "IncomingReceived", "EarlyUpdatedByRemote", "UpdatedByRemote",
                            "Released", "OutgoingInit", "EarlyUpdating"}
  BY DEF Ended, Live, Transient, Answered, AwaitingAnswer, Outgoing, Alerting
<1>2. OpFits(t.state[c], t.op[c])
  BY <1>1 DEF OpFits
<1> QED BY <1>1, <1>2 DEF CallFits, ListFits, RequestFits, OfferFits, PrevFits, LogFits

LEMMA SalTerminateOnly ==
  ASSUME NEW s \in CoreType, NEW c \in Call
  PROVE  LET t == SalTerminate(s, c)
         IN  /\ Only(s, t, c) /\ t.current = s.current /\ t.calls = s.calls
             /\ t.state = s.state /\ t.prev = s.prev /\ t.dir = s.dir
             /\ t.err = s.err /\ t.log = s.log /\ t.replaces = s.replaces
             /\ t.op[c] = ClosingPhase(s.op[c]) /\ t.ct[c] = "none" /\ t.pend[c] = {}
             /\ t.retries = s.retries
<1> DEFINE t == SalTerminate(s, c)
<1>1. t \in CoreType
  BY SalTerminateKeeps DEF Keeps
<1>2. /\ t.current = s.current /\ t.calls = s.calls
      /\ t.state = s.state /\ t.prev = s.prev /\ t.dir = s.dir
      /\ t.err = s.err /\ t.log = s.log /\ t.replaces = s.replaces /\ t.retries = s.retries
      /\ t.op = [s.op EXCEPT ![c] = ClosingPhase(@)]
      /\ t.ct = [s.ct EXCEPT ![c] = "none"]
      /\ t.pend = [s.pend EXCEPT ![c] = {}]
  BY DEF SalTerminate, CoreType
<1> HIDE DEF t
<1>3. /\ t.op[c] = ClosingPhase(s.op[c]) /\ t.ct[c] = "none" /\ t.pend[c] = {}
      /\ \A d \in Call \ {c} : t.op[d] = s.op[d] /\ t.ct[d] = s.ct[d] /\ t.pend[d] = s.pend[d]
  BY <1>2 DEF CoreType
<1> QED BY <1>1, <1>2, <1>3 DEF Only, Same, t

LEMMA SalReleaseOnly ==
  ASSUME NEW s \in CoreType, NEW c \in Call
  PROVE  LET t == SalRelease(s, c)
         IN  /\ Only(s, t, c) /\ t.current = s.current /\ t.calls = s.calls
             /\ t.state = s.state /\ t.prev = s.prev /\ t.dir = s.dir
             /\ t.err = s.err /\ t.log = s.log /\ t.replaces = s.replaces
             /\ t.op[c] = "none" /\ t.ct = s.ct /\ t.pend = s.pend
<1> DEFINE t == SalRelease(s, c)
<1>1. t \in CoreType
  BY SalReleaseKeeps DEF Keeps
<1>2. /\ t.current = s.current /\ t.calls = s.calls
      /\ t.state = s.state /\ t.prev = s.prev /\ t.dir = s.dir
      /\ t.err = s.err /\ t.log = s.log /\ t.replaces = s.replaces
      /\ t.op = [s.op EXCEPT ![c] = "none"]
      /\ t.ct = s.ct /\ t.pend = s.pend
  BY DEF SalRelease, CoreType
<1> HIDE DEF t
<1>3. t.op[c] = "none" /\ \A d \in Call \ {c} : t.op[d] = s.op[d]
  BY <1>2 DEF CoreType
<1> QED BY <1>1, <1>2, <1>3 DEF Only, Same, t

LEMMA EndReasonOnly ==
  ASSUME NEW s \in CoreType, NEW c \in Call, NEW reason \in {"declined", "timeout"}
  PROVE  LET t == EndReason(s, c, reason)
         IN  /\ Only(s, t, c) /\ t.current = s.current /\ t.calls = s.calls
             /\ t.state = s.state /\ t.prev = s.prev /\ t.dir = s.dir
             /\ t.log = s.log /\ t.replaces = s.replaces
             /\ t.op = s.op /\ t.ct = s.ct /\ t.pend = s.pend /\ t.retries = s.retries
<1> DEFINE t == EndReason(s, c, reason)
<1>1. t \in CoreType
  BY EndReasonKeeps DEF Keeps
<1>2. /\ t.current = s.current /\ t.calls = s.calls
      /\ t.state = s.state /\ t.prev = s.prev /\ t.dir = s.dir
      /\ t.log = s.log /\ t.replaces = s.replaces
      /\ t.op = s.op /\ t.ct = s.ct /\ t.pend = s.pend /\ t.retries = s.retries
      /\ t.err = [s.err EXCEPT ![c] = reason]
  BY DEF EndReason, CoreType
<1> HIDE DEF t
<1>3. \A d \in Call \ {c} : t.err[d] = s.err[d]
  BY <1>2 DEF CoreType
<1> QED BY <1>1, <1>2, <1>3 DEF Only, Same, t

\* The end of a call, from whatever its operation has become.
Ends(s, t, c) ==
  /\ Only(s, t, c) /\ t.state[c] \in Ended /\ t.op[c] = s.op[c] /\ t.ct[c] = s.ct[c]
  /\ t.replaces[c] = s.replaces[c] /\ c \notin t.calls
  /\ t.current # c \/ (s.state[c] \in Ended /\ t.current = s.current)
  /\ \/ s.state[c] \in Ended
     \/ s.log[c] = "success" /\ s.err[c] = "none" /\ s.state[c] \notin Alerting
     => t.log[c] = s.log[c]
  /\ s.state[c] \notin Ended => t.prev[c] = s.state[c]

\* The static terminate_call()
LEMMA TerminateLocallyEnds ==
  ASSUME NEW s \in CoreType, NEW c \in Call, s.state[c] \notin {"Released"},
         s.state[c] \in Ended => c \notin s.calls
  PROVE  Ends(s, TerminateLocally(s, c), c)
<1> DEFINE e == IF s.state[c] = "IncomingReceived" /\ s.err[c] # "timeout"
                THEN EndReason(s, c, "declined") ELSE s
           q == StopStreams(StopRinging(e), c)
           t == SetState(q, c, "End")
<1>1. /\ Only(s, e, c) /\ e.current = s.current /\ e.calls = s.calls
      /\ e.state = s.state /\ e.prev = s.prev /\ e.dir = s.dir
      /\ e.log = s.log /\ e.replaces = s.replaces
      /\ e.op = s.op /\ e.ct = s.ct /\ e.pend = s.pend
      /\ s.state[c] # "IncomingReceived" => e.err = s.err
  BY EndReasonOnly, RingIsSilent, SilentOnly
<1> HIDE DEF e
<1>2. Silent(e, q) /\ q.current = e.current /\ q.calls = e.calls
  <2>1. Silent(e, q)
    BY <1>1, RingIsSilent, MediaIsSilent, SilentTrans DEF Only, Silent
  <2>2. e \in CoreType
    BY <1>1 DEF Only
  <2> QED BY <2>1, <2>2 DEF StopStreams, StopRinging, CoreType
<1> HIDE DEF q
<1>3. /\ Only(s, q, c) /\ q.current = s.current /\ q.calls = s.calls /\ q.state[c] = s.state[c]
      /\ q.op[c] = s.op[c] /\ q.ct[c] = s.ct[c] /\ q.replaces[c] = s.replaces[c]
      /\ q.log[c] = s.log[c] /\ q \in CoreType
      /\ s.state[c] # "IncomingReceived" => q.err[c] = s.err[c]
  BY <1>1, <1>2, SilentParts, SilentOnly
<1>4. TerminateLocally(s, c) = t
  BY DEF TerminateLocally, e, q
<1>5. "End" \in CallState \ {"Released"} /\ "End" \in Ended
  BY DEF CallState, Ended
<1>6. CASE s.state[c] \notin Ended
  <2>1. /\ Only(q, t, c) /\ t.state[c] = "End" /\ t.op[c] = q.op[c] /\ t.ct[c] = q.ct[c]
        /\ t.prev[c] = q.state[c] /\ t.replaces[c] = q.replaces[c] /\ c \notin t.calls /\ t.current # c
        /\ t.log[c] = CASE "End" = "Connected" -> "success"
                        [] "End" \in Ended /\ q.err[c] = "declined" -> "declined"
                        [] "End" \in Ended /\ q.err[c] = "timeout" -> "missed"
                        [] OTHER -> q.log[c]
    BY <1>3, <1>5, <1>6, SetStateMoves
  <2>2. q.err[c] = "none" => t.log[c] = q.log[c]
    BY <2>1
  <2> HIDE DEF t
  <2> QED BY <1>3, <1>4, <1>5, <1>6, <2>1, <2>2, SilentOnly DEF Ends, Alerting
<1>7. CASE s.state[c] \in Ended
  <2>1. t \in {q, Remembered(q, c)}
    BY <1>3, <1>5, <1>7 DEF SetState
  <2>2. /\ Only(q, t, c) /\ t.state = q.state /\ t.op = q.op /\ t.ct = q.ct /\ t.calls = q.calls
        /\ t.current = q.current /\ t.log = q.log /\ t.replaces = q.replaces
    <3>1. t \in CoreType
      BY <1>3, <2>1, RememberedKeeps DEF Keeps
    <3> HIDE DEF t
    <3>2. /\ t.state = q.state /\ t.op = q.op /\ t.ct = q.ct /\ t.calls = q.calls
          /\ t.current = q.current /\ t.log = q.log /\ t.replaces = q.replaces
          /\ \A d \in Call \ {c} : Same(q, t, d)
      BY <1>3, <2>1 DEF Remembered, Same, CoreType
    <3> QED BY <3>1, <3>2 DEF Only
  <2> HIDE DEF t
  <2>3. Only(s, t, c)
    BY <1>3, <2>2, SilentOnly
  <2> QED BY <1>3, <1>4, <1>7, <2>2, <2>3 DEF Ends
<1> QED BY <1>6, <1>7

\* linphone_core_terminate_call()
LEMMA TerminateCallLeads ==
  ASSUME NEW s, NEW c \in Call, Consistent(s), s.state[c] = "Idle" => s.op[c] = "ringing"
  PROVE  LET t == TerminateCall(s, c)
         IN  /\ Leads(s, t) /\ Only(s, t, c)
             /\ t.state[c] \in Ended \/ (s.state[c] = "Released" /\ t = s)
             /\ s.state[c] \notin Ended \cup {"Released"} => t.prev[c] = s.state[c]
<1> DEFINE t == TerminateCall(s, c)
<1>1. s \in CoreType /\ CallFits(s, c)
  BY DEF Consistent
<1>2. CASE s.state[c] \in {"Released", "End"}
  <2>1. t = s
    BY <1>2 DEF TerminateCall, Alerting
  <2> QED BY <1>1, <1>2, <2>1, LeadsSelf, RingIsSilent, SilentOnly DEF Ended
<1>3. CASE s.state[c] \notin {"Released", "End"}
  <2> DEFINE q == IF s.state[c] = "OutgoingInit" THEN SalRelease(s, c) ELSE SalTerminate(s, c)
  <2>1. t = TerminateLocally(q, c)
    BY <1>3 DEF TerminateCall, DeclineCall, Alerting
  <2>2. /\ Only(s, q, c) /\ q.current = s.current /\ q.calls = s.calls
        /\ q.state = s.state /\ q.err = s.err /\ q.log = s.log /\ q.replaces = s.replaces
    BY <1>1, SalTerminateOnly, SalReleaseOnly
  <2>3. q.op[c] \notin {"inviting", "early", "ringing"} /\ q.ct[c] = "none"
    <3>1. CASE s.state[c] = "OutgoingInit"
      <4>1. s.ct[c] = "none"
        BY <1>1, <3>1 DEF CallFits, RequestFits, Settling, Answered
      <4> QED BY <1>1, <3>1, <4>1, SalReleaseOnly
    <3>2. CASE s.state[c] # "OutgoingInit"
      BY <1>1, <3>2, SalTerminateOnly DEF ClosingPhase
    <3> QED BY <3>1, <3>2
  <2> HIDE DEF q, t
  <2>4. s.state[c] \in Ended => c \notin s.calls
    BY <1>1 DEF CallFits, ListFits, Live, Ended
  <2>5. Ends(q, t, c)
    BY <1>3, <2>1, <2>2, <2>4, TerminateLocallyEnds DEF Only
  <2>6. CallFits(t, c)
    BY <1>1, <2>2, <2>3, <2>5, EndedFits DEF Ends, CallFits
  <2>7. s.log[c] = "success" => t.log[c] = "success"
    <3>1. s.state[c] \in Alerting => s.log[c] # "success"
      BY <1>1 DEF CallFits, LogFits, OpFits
    <3>2. s.err[c] # "none" => s.state[c] \in Ended
      BY <1>1 DEF CallFits, LogFits
    <3> QED BY <2>2, <2>5, <3>1, <3>2 DEF Ends
  <2>8. t.current = c => c \in t.calls \/ "appHangup" \in Faults
    BY <2>2, <2>4, <2>5, NoCallAssumption DEF Ends, Consistent, CurrentFits
  <2>9. Only(s, t, c)
    BY <2>2, <2>5, SilentOnly DEF Ends
  <2>10. /\ t.state[c] \in Ended
         /\ s.state[c] \notin Ended \cup {"Released"} => t.prev[c] = s.state[c]
    BY <2>2, <2>5 DEF Ends
  <2>11. Leads(s, t)
    BY <1>1, <2>6, <2>7, <2>8, <2>9, OnlyLeads
  <2> QED BY <2>9, <2>10, <2>11 DEF t
<1> QED BY <1>2, <1>3

\* linphone_core_abort_call(), of a call that is connected
LEMMA AbortCallLeads ==
  ASSUME NEW s, NEW c \in Call, Consistent(s), s.state[c] \notin {"Idle", "Released"}
  PROVE  Leads(s, AbortCall(s, c))
<1> DEFINE q == SalTerminate(s, c)
           r == StopStreams(StopRinging(q), c)
           t == SetState(r, c, "Error")
<1>1. s \in CoreType /\ CallFits(s, c) /\ AbortCall(s, c) = t
  BY DEF Consistent, AbortCall
<1>2. /\ Only(s, q, c) /\ q.current = s.current /\ q.calls = s.calls /\ q.state = s.state
      /\ q.err = s.err /\ q.log = s.log /\ q.replaces = s.replaces
      /\ q.op[c] = ClosingPhase(s.op[c]) /\ q.ct[c] = "none" /\ q \in CoreType
  BY <1>1, SalTerminateOnly DEF Only
<1> HIDE DEF q
<1>3. Silent(q, r) /\ r.current = q.current
  <2>1. Silent(q, r)
    BY <1>2, RingIsSilent, MediaIsSilent, SilentTrans DEF Silent
  <2> QED BY <1>2, <2>1 DEF StopStreams, StopRinging, CoreType
<1> HIDE DEF r
<1>4. /\ Only(s, r, c) /\ r.current = s.current /\ r.state[c] = s.state[c]
      /\ r.err[c] = s.err[c] /\ r.log[c] = s.log[c] /\ r.replaces[c] = s.replaces[c]
      /\ r.op[c] = ClosingPhase(s.op[c]) /\ r.ct[c] = "none" /\ r \in CoreType
      /\ c \in r.calls <=> c \in s.calls
  BY <1>2, <1>3, SilentParts, SilentOnly
<1>5. r.op[c] \notin {"inviting", "early", "ringing"}
  BY <1>4 DEF ClosingPhase
<1>6. "Error" \in CallState \ {"Released"} /\ "Error" \in Ended /\ "Error" # "Connected"
  BY DEF CallState, Ended
<1>7. CASE s.state[c] \notin Ended
  <2>1. s.err[c] = "none"
    BY <1>1, <1>7 DEF CallFits, LogFits
  <2>2. /\ Only(r, t, c) /\ t.state[c] \in Ended /\ t.op[c] = r.op[c] /\ t.ct[c] = r.ct[c]
        /\ t.replaces[c] = r.replaces[c] /\ c \notin t.calls /\ t.current # c
        /\ t.log[c] = r.log[c]
    <3>1. CASE r.state[c] # "Error"
      BY <1>4, <1>6, <1>7, <2>1, <3>1, SetStateMoves
    <3>2. CASE r.state[c] = "Error"
      BY <1>4, <1>6, <1>7, <3>2
    <3> QED BY <3>1, <3>2
  <2> HIDE DEF t
  <2>3. CallFits(t, c)
    BY <1>1, <1>4, <1>5, <2>2, EndedFits DEF CallFits
  <2>4. Only(s, t, c)
    BY <1>4, <2>2, SilentOnly
  <2> QED BY <1>1, <1>4, <2>2, <2>3, <2>4, OnlyLeads
<1>8. CASE s.state[c] \in Ended
  <2>1. c \notin s.calls
    BY <1>1, <1>8 DEF CallFits, ListFits, Live, Ended
  <2>2. CallFits(r, c)
    BY <1>1, <1>4, <1>5, <1>8, <2>1, EndedFits DEF CallFits
  <2>3. r.current = c => "appHangup" \in Faults
    BY <1>4, <2>1, NoCallAssumption DEF Consistent, CurrentFits
  <2>4. Leads(s, r)
    BY <1>1, <1>4, <2>2, <2>3, OnlyLeads
  <2>5. Leads(r, t)
    BY <1>4, <1>6, <1>8, <2>4, SetStateOver DEF Leads
  <2> QED BY <1>1, <2>4, <2>5, LeadsTrans
<1> QED BY <1>7, <1>8

\* The loop of linphone_core_accept_call_with_params()
LEMMA CancelOutgoingLeads ==
  ASSUME NEW s, NEW c \in Call, Consistent(s)
  PROVE  LET t == CancelOutgoing(s, c)
         IN  /\ Leads(s, t) /\ Same(s, t, c)
             /\ t.current \in {s.current, NoCall}
<1> DEFINE gone == {a \in s.calls \ {c} : s.state[a] \in Outgoing}
           x == AllClosing(s, gone)
           y == AllTerminated(x, gone)
           z == AllEnded(y, gone)
           t == StopRinging(z)
<1>1. s \in CoreType /\ gone \subseteq Call \ {c}
  BY DEF Consistent, CoreType
<1>2. CancelOutgoing(s, c) = IF gone = {} THEN s ELSE t
  BY DEF CancelOutgoing
<1>3. CASE gone = {}
  BY <1>1, <1>2, <1>3, LeadsSelf, RingIsSilent DEF Silent
<1>4. CASE gone # {}
  <2>1. \A a \in gone : /\ s.state[a] \in Outgoing /\ a \in s.calls /\ CallFits(s, a)
                        /\ s.err[a] = "none" /\ s.state[a] \in Live
    <3> SUFFICES ASSUME NEW a \in gone
                 PROVE  /\ s.state[a] \in Outgoing /\ a \in s.calls /\ CallFits(s, a)
                        /\ s.err[a] = "none" /\ s.state[a] \in Live
      OBVIOUS
    <3>1. a \in Call /\ s.state[a] \in Outgoing /\ a \in s.calls /\ CallFits(s, a)
      BY <1>1 DEF Consistent
    <3>2. s.state[a] \notin Ended /\ s.state[a] \in Live
      BY <3>1 DEF Outgoing, Ended, Live, CallState
    <3> QED BY <3>1, <3>2 DEF CallFits, LogFits
  <2> HIDE DEF gone
  <2>2. x \in CoreType /\ y \in CoreType /\ z \in CoreType /\ t \in CoreType
    BY <1>1, AllClosingKeeps, AllTerminatedKeeps, AllEndedKeeps, RingKeeps DEF Keeps
  <2>3. /\ x.state = s.state /\ x.calls = s.calls /\ x.current = s.current /\ x.err = s.err
        /\ x.log = s.log /\ x.prev = s.prev /\ x.dir = s.dir /\ x.replaces = s.replaces
        /\ x.op = [a \in Call |-> IF a \notin gone THEN s.op[a]
                                  ELSE IF s.state[a] = "OutgoingInit" THEN "none"
                                  ELSE ClosingPhase(s.op[a])]
        /\ x.ct = [a \in Call |-> IF a \in gone THEN "none" ELSE s.ct[a]]
        /\ x.pend = [a \in Call |-> IF a \in gone THEN {} ELSE s.pend[a]]
    BY <1>1 DEF AllClosing, CoreType
  <2> HIDE DEF x
  <2>4. /\ y.state = x.state /\ y.calls = x.calls \ gone /\ y.err = x.err
        /\ y.current = IF x.current \in gone THEN NoCall ELSE x.current
        /\ y.log = x.log /\ y.prev = x.prev /\ y.dir = x.dir /\ y.replaces = x.replaces
        /\ y.op = x.op /\ y.ct = x.ct /\ y.pend = x.pend
    <3> DEFINE streams == [a \in Call |-> x.streams[a] /\ a \notin gone]
               gathering == [a \in Call |-> x.gathering[a] /\ a \notin gone]
               left == x.calls \ gone
               now == IF x.current \in gone THEN NoCall ELSE x.current
    <3>1. y = [x EXCEPT !.streams = streams, !.gathering = gathering, !.calls = left, !.current = now]
      BY DEF AllTerminated
    <3> HIDE DEF y, streams, gathering, left, now
    <3>2. /\ y.state = x.state /\ y.calls = left /\ y.err = x.err /\ y.current = now
          /\ y.log = x.log /\ y.prev = x.prev /\ y.dir = x.dir /\ y.replaces = x.replaces
          /\ y.op = x.op /\ y.ct = x.ct /\ y.pend = x.pend
      BY <2>2, <3>1 DEF CoreType
    <3> QED BY <3>2 DEF left, now
  <2> HIDE DEF y
  <2>5. /\ z.state = [a \in Call |-> IF a \in gone THEN "End" ELSE y.state[a]]
        /\ z.prev = [a \in Call |-> IF a \in gone THEN y.state[a] ELSE y.prev[a]]
        /\ z.log = [a \in Call |-> IF a \in gone THEN Logged(y, a).log[a] ELSE y.log[a]]
        /\ z.calls = y.calls /\ z.err = y.err /\ z.current = y.current
        /\ z.dir = y.dir /\ z.replaces = y.replaces
        /\ z.op = y.op /\ z.ct = y.ct /\ z.pend = y.pend
    BY ZenonT(60), <2>2 DEF AllEnded, CoreType
  <2>6. \A a \in gone : Logged(y, a).log[a] = y.log[a]
    <3> SUFFICES ASSUME NEW a \in gone PROVE Logged(y, a).log[a] = y.log[a]
      OBVIOUS
    <3>1. y.err[a] = "none" /\ a \in Call
      BY <1>1, <2>1, <2>3, <2>4
    <3>2. Logged(y, a).log = [y.log EXCEPT ![a] = CASE y.err[a] = "declined" -> "declined"
                                                   [] y.err[a] = "timeout" -> "missed"
                                                   [] OTHER -> @]
      BY <2>2 DEF Logged, CoreType
    <3>3. y.log \in [Call -> {"aborted", "success", "missed", "declined"}]
      BY <2>2 DEF CoreType
    <3>4. (CASE y.err[a] = "declined" -> "declined" [] y.err[a] = "timeout" -> "missed"
             [] OTHER -> y.log[a]) = y.log[a]
      BY <3>1
    <3> QED BY <3>1, <3>2, <3>3, <3>4
  <2> HIDE DEF z
  <2>7. /\ t.state = z.state /\ t.prev = z.prev /\ t.log = z.log /\ t.calls = z.calls
        /\ t.err = z.err /\ t.current = z.current /\ t.dir = z.dir /\ t.replaces = z.replaces
        /\ t.op = z.op /\ t.ct = z.ct /\ t.pend = z.pend
    BY <2>2 DEF StopRinging, CoreType
  <2> HIDE DEF t
  <2>8. \A d \in Call \ gone : Same(s, t, d)
    BY <2>3, <2>4, <2>5, <2>7 DEF Same
  <2>9. \A d \in gone : /\ t.state[d] \in Ended /\ t.log[d] = s.log[d]
                        /\ t.op[d] \notin {"inviting", "early", "ringing"}
                        /\ t.ct[d] = "none" /\ t.replaces[d] = s.replaces[d] /\ d \notin t.calls
    <3> SUFFICES ASSUME NEW d \in gone
                 PROVE  /\ t.state[d] \in Ended /\ t.log[d] = s.log[d]
                        /\ t.op[d] \notin {"inviting", "early", "ringing"}
                        /\ t.ct[d] = "none" /\ t.replaces[d] = s.replaces[d] /\ d \notin t.calls
      OBVIOUS
    <3>1. d \in Call
      BY <1>1
    <3>2. t.op[d] = IF s.state[d] = "OutgoingInit" THEN "none" ELSE ClosingPhase(s.op[d])
      BY <2>3, <2>4, <2>5, <2>7, <3>1
    <3>3. t.op[d] \notin {"inviting", "early", "ringing"}
      BY <3>2 DEF ClosingPhase
    <3>4. t.state[d] = "End" /\ t.log[d] = s.log[d]
      BY <2>3, <2>4, <2>5, <2>6, <2>7, <3>1
    <3> QED BY <2>3, <2>4, <2>5, <2>7, <3>1, <3>3, <3>4 DEF Ended
  <2>10. \A d \in Call : CallFits(t, d)
    BY <1>1, <2>8, <2>9, EndedFits, SameFits DEF Consistent, CallFits
  <2>11. t.current \in {s.current, NoCall} /\ t.calls = s.calls \ gone /\ t.current \notin gone
    BY <1>1, <2>3, <2>4, <2>5, <2>7, NoCallAssumption
  <2>12. CurrentFits(t)
    BY <2>11 DEF Consistent, CurrentFits
  <2>13. LogKept(s, t)
    BY <1>1, <2>8, <2>9 DEF LogKept, Same
  <2> QED BY <1>1, <1>2, <1>4, <2>2, <2>8, <2>10, <2>11, <2>12, <2>13 DEF Leads, Consistent
<1> QED BY <1>3, <1>4

-----------------------------------------------------------------------------
(* Resuming, and changing state after other updates                        *)

\* linphone_core_resume_call()
LEMMA ResumeCallLeads ==
  ASSUME NEW s, NEW c \in Call, Consistent(s)
  PROVE  Leads(s, ResumeCall(s, c))
<1> DEFINE m == Preempt(s)
           p == AutoPaused(m, c, FALSE)
           u == SalUpdate(p, c, "reinvite")
           r == SetState(u, c, "Resuming")
<1>1. s \in CoreType /\ CallFits(s, c)
  BY DEF Consistent
<1>2. ResumeCall(s, c) \in {s, p, MakeCurrent(r, c)}
  BY DEF ResumeCall
<1>3. s.state[c] # "Paused" => ResumeCall(s, c) = s
  BY DEF ResumeCall
<1>4. Leads(s, p) /\ p \in CoreType /\ (s.state[c] = "Paused" => Same(s, p, c))
  <2>1. Leads(s, m) /\ m \in CoreType /\ Consistent(m) /\ (s.state[c] = "Paused" => Same(s, m, c))
    BY PreemptLeads DEF Leads, Consistent
  <2> HIDE DEF m
  <2>2. Silent(m, p)
    BY <2>1, MediaIsSilent
  <2>3. Leads(m, p)
    BY <2>1, <2>2, SilentLeads
  <2> QED BY <2>1, <2>2, <2>3, LeadsTrans DEF Silent, Same
<1> HIDE DEF p
<1>5. ASSUME s.state[c] = "Paused" PROVE Leads(p, MakeCurrent(r, c))
  <2>1. /\ p.state[c] = "Paused" /\ p.op[c] = "active" /\ CallFits(p, c) /\ c \in p.calls
        /\ Consistent(p) /\ "reinvite" \in Request
    <3>1. Consistent(p) /\ CallFits(p, c)
      BY <1>4 DEF Leads, Consistent
    <3>2. p.state[c] = "Paused"
      BY <1>4, <1>5 DEF Same
    <3>3. p.op[c] = "active" /\ c \in p.calls
      BY <3>1, <3>2 DEF CallFits, OpFits, ListFits, Answered, Live, CallState, Ended
    <3> QED BY <3>1, <3>2, <3>3 DEF Request
  <2>2. /\ Only(p, u, c) /\ u.current = p.current /\ u.calls = p.calls /\ u.state = p.state
        /\ u.prev = p.prev /\ u.op = p.op /\ u.dir = p.dir /\ u.pend = p.pend /\ u.err = p.err
        /\ u.log = p.log /\ u.replaces = p.replaces /\ u \in CoreType
    BY <1>4, <2>1, SalUpdateOnly DEF Only
  <2> HIDE DEF u
  <2>3. "Resuming" \in CallState \ {"Released"} /\ "Resuming" \notin Ended /\ "Paused" \notin Ended
        /\ "Resuming" # "Paused"
    BY DEF CallState, Ended
  <2>4. /\ Only(u, r, c) /\ r.state[c] = "Resuming" /\ r.prev[c] = "Paused"
        /\ r.op[c] = "active" /\ r.pend[c] = p.pend[c]
        /\ r.dir[c] = p.dir[c] /\ r.err[c] = p.err[c] /\ r.replaces[c] = p.replaces[c]
        /\ c \in r.calls /\ r.log[c] = p.log[c]
    BY <2>1, <2>2, <2>3, SetStateMoves
  <2> HIDE DEF r
  <2>5. /\ p.err[c] = "none" /\ (~ UseIce => p.log[c] = "success")
        /\ "Resuming" \in Settling /\ "Paused" \in Settling /\ "Resuming" \in Live
        /\ OpFits("Resuming", "active") /\ "Resuming" # "EarlyUpdatedByRemote"
    BY <2>1 DEF CallFits, LogFits, OpFits, Answered, Ended, Settling, Live, CallState,
                AwaitingAnswer, Outgoing, Alerting
  <2>6. ListFits(r, c) /\ LogFits(r, c) /\ RequestFits(r, c) /\ OfferFits(r, c) /\ PrevFits(r, c)
    BY <2>4, <2>5 DEF ListFits, LogFits, RequestFits, OfferFits, PrevFits
  <2>7. CallFits(r, c)
    BY <2>1, <2>4, <2>5, <2>6 DEF CallFits
  <2>8. Only(p, r, c)
    BY <2>2, <2>4, SilentOnly
  <2>9. Leads(p, r)
    BY <2>1, <2>4, <2>7, <2>8, OnlyLeads
  <2>10. Leads(r, MakeCurrent(r, c))
    BY <2>4, <2>9, CurrentLeads DEF Leads
  <2> QED BY <2>9, <2>10, LeadsTrans
<1> QED BY <1>2, <1>3, <1>4, <1>5, LeadsSelf, LeadsTrans

\* A handler changes call c, and then the call enters a state.
LEMMA EnterLeads ==
  ASSUME NEW s, NEW q, NEW c \in Call, NEW new \in Live \ {"EarlyUpdatedByRemote"},
         Consistent(s), Only(s, q, c), q.state[c] \notin Ended \cup {new}, c \in q.calls,
         OpFits(new, q.op[c]), q.err[c] = "none", q.replaces[c] # c,
         q.ct[c] # "none" => q.op[c] = "active" /\ new \in Settling \ {"Paused"} /\ q.state[c] \in Settling,
         q.op[c] = "ringing" => q.pend[c] = {"invite"} /\ q.log[c] # "success",
         new = "IncomingReceived" => q.dir[c] = "none",
         new \in Transient => q.state[c] \in Settling,
         new = "UpdatedByRemote" => q.state[c] \in Settling \ {"Paused"},
         ~ UseIce /\ new \in Answered => new = "Connected" \/ q.log[c] = "success",
         s.log[c] = "success" => q.log[c] = "success"
  PROVE  LET t == SetState(q, c, new)
         IN  /\ Leads(s, t) /\ Only(s, t, c) /\ t.state[c] = new /\ t.prev[c] = q.state[c]
             /\ t.op[c] = q.op[c] /\ t.ct[c] = q.ct[c] /\ t.pend[c] = q.pend[c]
             /\ t.dir[c] = q.dir[c] /\ t.err[c] = "none" /\ t.replaces[c] = q.replaces[c]
             /\ t.log[c] = IF new = "Connected" THEN "success" ELSE q.log[c]
             /\ c \in t.calls
<1> DEFINE t == SetState(q, c, new)
<1>1. q \in CoreType /\ new \in CallState \ {"Released"} /\ new \notin Ended /\ new # "Idle"
  BY DEF Only, Live
<1>2. /\ Only(q, t, c)
      /\ t.state[c] = new /\ t.prev[c] = q.state[c]
      /\ t.op[c] = q.op[c] /\ t.ct[c] = q.ct[c] /\ t.pend[c] = q.pend[c]
      /\ t.dir[c] = q.dir[c] /\ t.err[c] = q.err[c] /\ t.replaces[c] = q.replaces[c]
      /\ c \in t.calls
      /\ t.log[c] = IF new = "Connected" THEN "success" ELSE q.log[c]
  BY <1>1, SetStateMoves
<1> HIDE DEF t
<1>3. Only(s, t, c)
  BY <1>2, SilentOnly
<1>4. ListFits(t, c) /\ RequestFits(t, c)
  BY <1>2 DEF ListFits, RequestFits
<1>5. OfferFits(t, c) /\ PrevFits(t, c)
  BY <1>1, <1>2 DEF OfferFits, PrevFits
<1>6. new = "Connected" => q.op[c] # "ringing"
  BY DEF OpFits, Answered
<1>7. LogFits(t, c)
  BY <1>1, <1>2, <1>6 DEF LogFits
<1>8. CallFits(t, c)
  BY <1>2, <1>4, <1>5, <1>7 DEF CallFits
<1>9. Leads(s, t)
  BY <1>2, <1>3, <1>8, OnlyLeads
<1> QED BY <1>2, <1>3, <1>9 DEF t

\* A handler changes call c, and then the call is over.
LEMMA EndLeads ==
  ASSUME NEW s, NEW q, NEW c \in Call, NEW new \in Ended,
         Consistent(s), Only(s, q, c), q.state[c] \notin Ended,
         q.op[c] \notin {"inviting", "early", "ringing"}, q.ct[c] = "none", q.replaces[c] # c,
         s.log[c] = "success" => q.log[c] = "success" /\ q.err[c] = "none"
  PROVE  LET t == SetState(q, c, new)
         IN  /\ Leads(s, t) /\ Only(s, t, c) /\ t.state[c] = new /\ t.op[c] = q.op[c]
             /\ t.replaces[c] = q.replaces[c] /\ t.current # c /\ c \notin t.calls
<1> DEFINE t == SetState(q, c, new)
<1>1. q \in CoreType /\ new \in CallState \ {"Released"} /\ new # q.state[c] /\ new # "Connected"
  BY DEF Only, Ended, CallState
<1>2. /\ Only(q, t, c) /\ t.state[c] = new /\ t.op[c] = q.op[c] /\ t.ct[c] = q.ct[c]
      /\ t.replaces[c] = q.replaces[c] /\ c \notin t.calls /\ t.current # c
      /\ q.err[c] = "none" => t.log[c] = q.log[c]
  BY <1>1, SetStateMoves
<1> HIDE DEF t
<1>3. Only(s, t, c)
  BY <1>2, SilentOnly
<1>4. CallFits(t, c)
  BY <1>2, EndedFits
<1>5. Leads(s, t)
  BY <1>2, <1>3, <1>4, OnlyLeads
<1> QED BY <1>2, <1>3, <1>5 DEF t

-----------------------------------------------------------------------------
(* Outgoing calls                                                          *)

LEMMA OperationOnly ==
  ASSUME NEW s \in CoreType, NEW c \in Call, NEW op \in OpPhase
  PROVE  LET t == Operation(s, c, op)
         IN  /\ Only(s, t, c) /\ t.current = s.current /\ t.calls = s.calls
             /\ t.state = s.state /\ t.prev = s.prev /\ t.dir = s.dir /\ t.ct = s.ct
             /\ t.pend = s.pend /\ t.err = s.err /\ t.log = s.log /\ t.replaces = s.replaces
             /\ t.rmd = s.rmd /\ t.streams = s.streams /\ t.ring = s.ring
             /\ t.retries = s.retries /\ t.referer = s.referer
             /\ t.op[c] = op
<1> DEFINE t == Operation(s, c, op)
<1>1. t \in CoreType
  BY OperationKeeps DEF Keeps
<1>2. /\ t.current = s.current /\ t.calls = s.calls
      /\ t.state = s.state /\ t.prev = s.prev /\ t.dir = s.dir /\ t.ct = s.ct
      /\ t.pend = s.pend /\ t.err = s.err /\ t.log = s.log /\ t.replaces = s.replaces
      /\ t.rmd = s.rmd /\ t.streams = s.streams /\ t.ring = s.ring
      /\ t.retries = s.retries /\ t.referer = s.referer
      /\ t.op = [s.op EXCEPT ![c] = op]
  BY DEF Operation, CoreType
<1> HIDE DEF t
<1>3. t.op[c] = op /\ \A d \in Call \ {c} : t.op[d] = s.op[d]
  BY <1>2 DEF CoreType
<1> QED BY <1>1, <1>2, <1>3 DEF Only, Same, t

\* linphone_core_start_invite(), of a call for which a handler has made the
\* operation ready
LEMMA StartInviteFrom ==
  ASSUME NEW b, NEW s, NEW c \in Call, NEW sent \in BOOLEAN,
         Consistent(b), Only(b, s, c), s.state[c] \in Outgoing, sent \/ s.op[c] = "init",
         c \in s.calls, s.ct[c] = "none", s.err[c] = "none", s.replaces[c] # c,
         b.log[c] = "success" => s.log[c] = "success"
  PROVE  Leads(b, StartInvite(s, c, sent))
<1> DEFINE q == Operation(s, c, "inviting")
           f == StopStreams(s, c)
<1>1. s \in CoreType
  BY DEF Only
<1>2. /\ s.state[c] \in Live /\ s.state[c] \notin Ended \cup Settling /\ "inviting" \in OpPhase
      /\ OpFits("OutgoingProgress", "inviting") /\ "OutgoingProgress" \in Live \ {"EarlyUpdatedByRemote"}
      /\ "OutgoingProgress" \notin Transient \cup {"UpdatedByRemote"} \cup Answered \cup {"Idle"}
      /\ "OutgoingProgress" # "IncomingReceived"
  BY DEF Outgoing, Live, CallState, Ended, Settling, Answered, OpFits, OpPhase, Alerting, AwaitingAnswer, Transient
<1>3. CASE sent
  <2>1. StartInvite(s, c, sent) = SetState(q, c, "OutgoingProgress")
    BY <1>3 DEF StartInvite
  <2>2. /\ Only(s, q, c) /\ q.calls = s.calls /\ q.state = s.state /\ q.ct = s.ct
        /\ q.err = s.err /\ q.log = s.log /\ q.replaces = s.replaces
        /\ q.op[c] = "inviting"
    BY <1>1, <1>2, OperationOnly
  <2> HIDE DEF q
  <2>3. Only(b, q, c)
    BY <2>2, SilentOnly
  <2>4. CASE s.state[c] = "OutgoingProgress"
    <3>1. SetState(q, c, "OutgoingProgress") = q
      BY <2>2, <2>4 DEF SetState
    <3>2. CallFits(q, c)
      BY <1>2, <2>2, <2>4 DEF CallFits, ListFits, RequestFits, OfferFits, PrevFits, LogFits
    <3> QED BY <2>1, <2>2, <2>3, <3>1, <3>2, OnlyLeads
  <2>5. CASE s.state[c] # "OutgoingProgress"
    BY <1>2, <2>1, <2>2, <2>3, <2>5, EnterLeads
  <2> QED BY <2>4, <2>5
<1>4. CASE ~ sent
  <2>1. StartInvite(s, c, sent) = SetState(f, c, "Error")
    BY <1>4 DEF StartInvite
  <2>2. Silent(s, f)
    BY <1>1, MediaIsSilent
  <2> HIDE DEF f
  <2>3. /\ f.state[c] = s.state[c] /\ f.op[c] = s.op[c] /\ f.ct[c] = s.ct[c]
        /\ f.err[c] = s.err[c] /\ f.log[c] = s.log[c] /\ f.replaces[c] = s.replaces[c]
    BY <2>2 DEF Silent, Same
  <2>4. Only(b, f, c)
    BY <2>2, SilentOnly
  <2> QED BY <1>2, <1>4, <2>1, <2>3, <2>4, EndLeads DEF Ended
<1> QED BY <1>3, <1>4

\* linphone_core_start_invite()
LEMMA StartInviteLeads ==
  ASSUME NEW s, NEW c \in Call, NEW sent \in BOOLEAN, Consistent(s), s.state[c] = "OutgoingInit"
  PROVE  Leads(s, StartInvite(s, c, sent))
<1>1. s \in CoreType /\ CallFits(s, c)
  BY DEF Consistent
<1>2. s.state[c] \in Outgoing \cap Live /\ s.op[c] = "init" /\ s.state[c] \notin Ended \cup Settling
  BY <1>1 DEF CallFits, OpFits, Outgoing, Live, CallState, Ended, Settling, Answered, Transient
<1>3. c \in s.calls /\ s.ct[c] = "none" /\ s.err[c] = "none" /\ s.replaces[c] # c
  BY <1>1, <1>2 DEF CallFits, ListFits, RequestFits, LogFits
<1>4. Only(s, s, c)
  BY <1>1, RingIsSilent, SilentOnly
<1> QED BY <1>2, <1>3, <1>4, StartInviteFrom

\* linphone_core_restart_invite()
LEMMA RestartInviteLeads ==
  ASSUME NEW s, NEW c \in Call, NEW sent \in BOOLEAN, Consistent(s), s.state[c] \in Outgoing,
         s.retries[c] < MaxRetries
  PROVE  Leads(s, RestartInvite(s, c, sent))
<1> DEFINE f == StopStreams(s, c)
           n == NextOperation(f, c)
<1>1. s \in CoreType /\ CallFits(s, c)
  BY DEF Consistent
<1>2. Silent(s, f) /\ f.retries = s.retries
  BY <1>1, MediaIsSilent DEF StopStreams, CoreType
<1>3. RestartInvite(s, c, sent) = StartInvite(n, c, sent)
  BY DEF RestartInvite
<1> HIDE DEF f
<1>4. /\ f.state[c] = s.state[c] /\ f.err[c] = s.err[c] /\ f.log[c] = s.log[c]
      /\ f.replaces[c] = s.replaces[c] /\ (c \in f.calls <=> c \in s.calls)
      /\ f \in CoreType /\ Only(s, f, c)
  BY <1>2, SilentParts
<1>5. n \in CoreType
  BY <1>2, <1>4, NextOperationKeeps DEF Keeps
<1>6. /\ n.current = f.current /\ n.calls = f.calls
      /\ n.state = f.state /\ n.prev = f.prev /\ n.dir = f.dir
      /\ n.err = f.err /\ n.log = f.log /\ n.replaces = f.replaces
      /\ n.op = [f.op EXCEPT ![c] = "init"]
      /\ n.ct = [f.ct EXCEPT ![c] = "none"] /\ n.pend = [f.pend EXCEPT ![c] = {}]
  BY <1>4 DEF NextOperation, CoreType
<1> HIDE DEF n
<1>7. /\ n.ct[c] = "none" /\ n.op[c] = "init"
      /\ \A d \in Call \ {c} : n.op[d] = f.op[d] /\ n.ct[d] = f.ct[d] /\ n.pend[d] = f.pend[d]
  BY <1>4, <1>6 DEF CoreType
<1>8. Only(f, n, c)
  BY <1>5, <1>6, <1>7 DEF Only, Same
<1>9. Only(s, n, c)
  BY <1>4, <1>8, SilentOnly
<1>10. s.state[c] \in Live /\ s.state[c] \notin Ended
  BY DEF Outgoing, Live, CallState, Ended
<1>11. c \in s.calls /\ s.err[c] = "none" /\ s.replaces[c] # c
  BY <1>1, <1>10 DEF CallFits, ListFits, LogFits
<1>12. Leads(s, StartInvite(n, c, sent))
  BY <1>4, <1>6, <1>7, <1>9, <1>11, StartInviteFrom
<1> QED BY <1>3, <1>12

LEMMA AddCallOnly ==
  ASSUME NEW s \in CoreType, NEW c \in Call, NEW op \in OpPhase
  PROVE  LET t == AddCall(s, c, op)
         IN  /\ Only(s, t, c) /\ t.current = s.current /\ t.calls = s.calls \cup {c}
             /\ t.state = s.state /\ t.prev = s.prev /\ t.dir = s.dir /\ t.ct = s.ct
             /\ t.pend = s.pend /\ t.err = s.err /\ t.log = s.log /\ t.replaces = s.replaces
             /\ t.op[c] = op
<1> DEFINE t == AddCall(s, c, op)
<1>1. t \in CoreType
  BY SwitchAssumption DEF AddCall, CoreType
<1>2. /\ t.current = s.current /\ t.calls = s.calls \cup {c}
      /\ t.state = s.state /\ t.prev = s.prev /\ t.dir = s.dir /\ t.ct = s.ct
      /\ t.pend = s.pend /\ t.err = s.err /\ t.log = s.log /\ t.replaces = s.replaces
      /\ t.op = [s.op EXCEPT ![c] = op]
  BY DEF AddCall, CoreType
<1> HIDE DEF t
<1>3. t.op[c] = op /\ \A d \in Call \ {c} : t.op[d] = s.op[d]
  BY <1>2 DEF CoreType
<1> QED BY <1>1, <1>2, <1>3 DEF Only, Same, t

\* The call becomes the current one.
LEMMA CurrentOnly ==
  ASSUME NEW s \in CoreType, NEW c \in Call
  PROVE  LET t == MakeCurrent(s, c)
         IN  /\ Only(s, t, c) /\ Same(s, t, c) /\ t.current = c /\ t.calls = s.calls /\ t.rmd = s.rmd
<1> DEFINE t == MakeCurrent(s, c)
<1>1. t \in CoreType /\ t.current = c /\ t.calls = s.calls /\ t.rmd = s.rmd /\ \A d \in Call : Same(s, t, d)
  BY CurrentKeeps DEF Within, Same, MakeCurrent, CoreType
<1> QED BY <1>1 DEF Only

\* linphone_core_invite_address_with_params()
LEMMA InviteCallLeads ==
  ASSUME NEW s, NEW c \in Call, NEW ref \in Call \cup {NoCall}, NEW sent \in BOOLEAN,
         Consistent(s), s.state[c] = "Idle", s.op[c] = "none"
  PROVE  Leads(s, InviteCall(s, c, ref, sent))
<1> DEFINE p == Preempt(s)
           a == AddCall(p, c, "init")
           r == Referer(a, c, ref)
           m == MakeCurrent(r, c)
           i == SetState(m, c, "OutgoingInit")
<1>1. Leads(s, p) /\ Same(s, p, c)
  BY PreemptLeads
<1> HIDE DEF p
<1>2. /\ Consistent(p) /\ p \in CoreType /\ p.state[c] = "Idle" /\ p.op[c] = "none" /\ CallFits(p, c)
      /\ "init" \in OpPhase
  BY <1>1 DEF Leads, Consistent, Same, OpPhase
<1>3. /\ p.ct[c] = "none" /\ p.pend[c] = {} /\ p.err[c] = "none" /\ p.log[c] # "success"
      /\ p.replaces[c] # c
  BY <1>2 DEF CallFits, RequestFits, OfferFits, LogFits, Ended
<1>4. Only(p, a, c) /\ a.op[c] = "init" /\ a.state[c] = "Idle" /\ a.ct[c] = "none" /\ a.err[c] = "none"
      /\ a.replaces[c] # c /\ c \in a.calls /\ a \in CoreType
  BY <1>2, <1>3, AddCallOnly DEF Only
<1> HIDE DEF a
<1>5. Only(a, r, c) /\ Same(a, r, c) /\ r \in CoreType
  BY <1>4, RefererIsSilent, SilentParts, SilentOnly DEF Silent
<1> HIDE DEF r
<1>6. Only(r, m, c) /\ Same(r, m, c)
  BY <1>5, CurrentOnly
<1> HIDE DEF m
<1>7. Only(p, m, c)
  BY <1>4, <1>5, <1>6, SilentOnly
<1>8. m.op[c] = "init" /\ m.state[c] = "Idle" /\ m.ct[c] = "none" /\ m.err[c] = "none"
      /\ m.replaces[c] # c /\ c \in m.calls
  BY <1>4, <1>5, <1>6 DEF Same
<1>9. /\ "OutgoingInit" \in Live \ {"EarlyUpdatedByRemote"} /\ OpFits("OutgoingInit", "init")
      /\ "OutgoingInit" \notin Transient \cup {"UpdatedByRemote"} \cup Answered
      /\ "OutgoingInit" \in Outgoing
      /\ "Idle" \notin Ended \cup {"OutgoingInit"}
  BY DEF Live, CallState, Ended, OpFits, Answered, Alerting, AwaitingAnswer, Outgoing, Transient
<1>10. Leads(p, i) /\ i.state[c] = "OutgoingInit"
  BY <1>2, <1>3, <1>7, <1>8, <1>9, EnterLeads
<1> HIDE DEF i
<1>11. Leads(i, StartInvite(i, c, sent))
  BY <1>9, <1>10, StartInviteLeads DEF Leads
<1>12. InviteCall(s, c, ref, sent) \in {p, i, StartInvite(i, c, sent)}
  BY DEF InviteCall, i, m, r, a, p
<1> QED BY <1>1, <1>10, <1>11, <1>12, LeadsTrans

\* linphone_core_start_refered_call()
LEMMA StartReferedCallLeads ==
  ASSUME NEW s, NEW c \in Call, NEW n \in Call \ {c}, NEW sent \in BOOLEAN,
         Consistent(s), s.state[n] = "Idle", s.op[n] = "none"
  PROVE  Leads(s, StartReferedCall(s, c, n, sent))
<1> DEFINE q == PauseCall(s, c)
           p == IF s.state[c] = "Paused" THEN s ELSE AutoPaused(q, c, TRUE)
<1>1. Leads(s, q) /\ Only(s, q, c) /\ Consistent(q) /\ q \in CoreType /\ s \in CoreType
  BY PauseCallLeads DEF Leads, Consistent
<1> HIDE DEF q
<1>2. Leads(s, p) /\ Only(s, p, c)
  <2>1. Silent(q, AutoPaused(q, c, TRUE))
    BY <1>1, MediaIsSilent
  <2>2. Leads(q, AutoPaused(q, c, TRUE)) /\ Only(q, AutoPaused(q, c, TRUE), c)
    BY <1>1, <2>1, SilentLeads, SilentOnly
  <2>3. Leads(s, s) /\ Only(s, s, c)
    BY <1>1, LeadsSelf, RingIsSilent, SilentOnly
  <2> QED BY <1>1, <2>2, <2>3, LeadsTrans, SilentOnly
<1>3. StartReferedCall(s, c, n, sent) = InviteCall(p, n, c, sent)
  BY DEF StartReferedCall, q
<1> HIDE DEF p
<1>4. Consistent(p) /\ p.state[n] = "Idle" /\ p.op[n] = "none"
  BY <1>2 DEF Leads, Only, Same
<1>5. Leads(p, InviteCall(p, n, c, sent))
  BY <1>4, InviteCallLeads
<1> QED BY <1>2, <1>3, <1>5, LeadsTrans

-----------------------------------------------------------------------------
(* Incoming calls                                                          *)

\* The row of a call that rings here.
LEMMA AlertingRow ==
  ASSUME NEW s, NEW c \in Call, Consistent(s), s.state[c] \in Alerting
  PROVE  /\ s.op[c] = "ringing" /\ s.pend[c] = {"invite"} /\ s.ct[c] = "none" /\ s.err[c] = "none"
         /\ s.log[c] # "success" /\ s.replaces[c] # c /\ c \in s.calls
         /\ s.state[c] \in Live /\ s.state[c] \notin Ended \cup Settling \cup Answered
         /\ s.state[c] \notin {"EarlyUpdatedByRemote", "Idle"}
<1>1. CallFits(s, c) /\ s.state[c] \notin Ended \cup Settling \cup Answered
      /\ s.state[c] \in Live /\ s.state[c] \notin {"EarlyUpdatedByRemote", "Idle"}
  BY DEF Consistent, Alerting, Ended, Settling, Answered, Live, CallState
<1>2. s.op[c] = "ringing" /\ s.ct[c] = "none" /\ s.err[c] = "none" /\ c \in s.calls
  BY <1>1 DEF CallFits, OpFits, RequestFits, LogFits, ListFits
<1> QED BY <1>1, <1>2 DEF CallFits, OfferFits, LogFits

\* linphone_core_decline_call(), once the reason is known
LEMMA DeclineCallLeads ==
  ASSUME NEW s, NEW q, NEW c \in Call, Consistent(s), Only(s, q, c), q.state[c] \in Alerting,
         s.log[c] # "success", q.replaces[c] # c
  PROVE  LET t == DeclineCall(q, c)
         IN  Leads(s, t) /\ Only(s, t, c) /\ t.state[c] \in Ended
<1> DEFINE r == SalTerminate(q, c)
           t == TerminateLocally(r, c)
<1>1. q \in CoreType /\ q.state[c] \notin Ended \cup {"Released"}
  BY DEF Only, Alerting, Ended
<1>2. /\ Only(q, r, c) /\ r.state = q.state /\ r.replaces = q.replaces
      /\ r.op[c] = ClosingPhase(q.op[c]) /\ r.ct[c] = "none"
  BY <1>1, SalTerminateOnly
<1>3. r.op[c] \notin {"inviting", "early", "ringing"}
  BY <1>2 DEF ClosingPhase
<1> HIDE DEF r
<1>4. Ends(r, t, c)
  BY <1>1, <1>2, TerminateLocallyEnds DEF Only
<1>5. DeclineCall(q, c) = t
  BY DEF DeclineCall, r
<1> HIDE DEF t
<1>6. CallFits(t, c)
  BY <1>2, <1>3, <1>4, EndedFits DEF Ends
<1>7. Only(s, t, c) /\ t.state[c] \in Ended /\ t.current # c
  BY <1>1, <1>2, <1>4, SilentOnly DEF Ends
<1> QED BY <1>5, <1>6, <1>7, OnlyLeads

\* The media follow our answer to the last offer.
LEMMA AnswerOfferLeads ==
  ASSUME NEW s, NEW c \in Call, NEW u \in CoreType, Consistent(s), u.rmd[c] # "nosdp",
         s.state[c] \notin {"Idle", "IncomingReceived"}
  PROVE  LET t == UpdateStreams(s, c, DirOfOffer(u.rmd[c]))
         IN  Leads(s, t) /\ Only(s, t, c) /\ t.state = s.state /\ t.op = s.op
<1>1. DirOfOffer(u.rmd[c]) \in Dir
  BY DirOfOfferType DEF CoreType
<1> QED BY <1>1, UpdateStreamsLeads, UpdateStreamsOnly DEF Consistent

\* linphone_core_accept_early_media_with_params()
LEMMA AcceptEarlyMediaCallLeads ==
  ASSUME NEW s, NEW c \in Call, Consistent(s), s.state[c] = "IncomingReceived"
  PROVE  LET t == AcceptEarlyMediaCall(s, c)
         IN  Leads(s, t) /\ t.state[c] = "IncomingEarlyMedia"
<1> DEFINE e == SetState(s, c, "IncomingEarlyMedia")
           u == UpdateStreams(e, c, DirOfOffer(s.rmd[c]))
<1>1. s \in CoreType /\ Only(s, s, c)
  BY RingIsSilent, SilentOnly DEF Consistent
<1>2. /\ "IncomingEarlyMedia" \in Live \ {"EarlyUpdatedByRemote"}
      /\ OpFits("IncomingEarlyMedia", "ringing")
      /\ "IncomingEarlyMedia" \notin Transient \cup {"UpdatedByRemote"} \cup Answered
      /\ "IncomingReceived" \in Alerting
  BY DEF Live, CallState, Ended, OpFits, Answered, Alerting, AwaitingAnswer, Outgoing, Transient
<1>3. Leads(s, e) /\ e.state[c] = "IncomingEarlyMedia"
  BY <1>1, <1>2, AlertingRow, EnterLeads DEF Alerting
<1> HIDE DEF e
<1>4. ASSUME s.rmd[c] # "nosdp" PROVE Leads(e, u) /\ u.state[c] = "IncomingEarlyMedia"
  BY <1>1, <1>3, <1>4, AnswerOfferLeads DEF Leads
<1>5. AcceptEarlyMediaCall(s, c) = IF s.rmd[c] = "nosdp" THEN e ELSE u
  BY DEF AcceptEarlyMediaCall, e
<1> HIDE DEF u
<1> QED BY <1>3, <1>4, <1>5, LeadsTrans

\* What linphone_core_accept_call_with_params() does before it answers
LEMMA PrepareAcceptLeads ==
  ASSUME NEW s, NEW c \in Call, Consistent(s), s.state[c] \in Alerting
  PROVE  LET t == PrepareAccept(s, c)
         IN  Leads(s, t) /\ Same(s, t, c)
<1> DEFINE o == CancelOutgoing(s, c)
           d == o.replaces[c]
           r == IF ReplacesLive(o, c) THEN TerminateCall(o, d) ELSE o
           p == IF r.current # c THEN Preempt(r) ELSE r
<1>1. Leads(s, o) /\ Same(s, o, c)
  BY CancelOutgoingLeads
<1>2. PrepareAccept(s, c) = StopRinging(p)
  BY DEF PrepareAccept
<1> HIDE DEF o
<1>3. Consistent(o) /\ o \in CoreType /\ CallFits(o, c)
  BY <1>1 DEF Leads, Consistent
<1>4. Leads(o, r) /\ Same(o, r, c)
  <2>1. ASSUME ReplacesLive(o, c)
        PROVE  Leads(o, TerminateCall(o, d)) /\ Same(o, TerminateCall(o, d), c)
    <3>1. d \in Call /\ o.op[d] # "none" /\ d # c
      BY <1>3, <2>1 DEF ReplacesLive, CoreType, CallFits
    <3>2. CallFits(o, d)
      BY <1>3, <3>1 DEF Consistent
    <3>3. o.state[d] = "Idle" => o.op[d] = "ringing"
      BY <3>1, <3>2 DEF CallFits, OpFits
    <3> HIDE DEF d
    <3>4. Leads(o, TerminateCall(o, d)) /\ Only(o, TerminateCall(o, d), d)
      BY <1>3, <3>1, <3>3, TerminateCallLeads
    <3> QED BY <3>1, <3>4 DEF Only
  <2>2. Leads(o, o) /\ Same(o, o, c)
    BY <1>3, LeadsSelf, RingIsSilent DEF Silent
  <2> QED BY <2>1, <2>2
<1> HIDE DEF r
<1>5. Consistent(r) /\ r \in CoreType /\ r.state[c] \in Alerting
  BY <1>1, <1>4 DEF Leads, Consistent, Same
<1>6. Leads(r, p) /\ Same(r, p, c)
  <2>1. r.state[c] \notin {"StreamsRunning", "PausedByRemote"}
    BY <1>5 DEF Alerting
  <2>2. Leads(r, Preempt(r)) /\ Same(r, Preempt(r), c)
    BY <1>5, <2>1, PreemptLeads
  <2>3. Leads(r, r) /\ Same(r, r, c)
    BY <1>5, LeadsSelf, RingIsSilent DEF Silent
  <2> QED BY <2>2, <2>3
<1> HIDE DEF p
<1>7. Consistent(p) /\ p \in CoreType
  BY <1>6 DEF Leads, Consistent
<1>8. Silent(p, StopRinging(p))
  BY <1>7, RingIsSilent
<1>9. Leads(p, StopRinging(p)) /\ Same(p, StopRinging(p), c)
  BY <1>7, <1>8, SilentLeads DEF Silent
<1>10. Leads(s, StopRinging(p))
  BY <1>1, <1>4, <1>6, <1>9, LeadsTrans
<1>11. Same(s, StopRinging(p), c)
  BY <1>1, <1>4, <1>6, <1>9 DEF Same
<1> QED BY <1>2, <1>10, <1>11

\* sal_call_accept() of the INVITE that rings
LEMMA SalAcceptInviteOnly ==
  ASSUME NEW s \in CoreType, NEW c \in Call, s.pend[c] = {"invite"}, s.op[c] = "ringing"
  PROVE  LET t == SalAccept(s, c)
         IN  /\ Only(s, t, c) /\ t.current = s.current /\ t.calls = s.calls
             /\ t.state = s.state /\ t.prev = s.prev /\ t.dir = s.dir /\ t.ct = s.ct
             /\ t.err = s.err /\ t.log = s.log /\ t.replaces = s.replaces
             /\ t.op[c] = "active" /\ t.pend[c] = {}
<1> DEFINE t == SalAccept(s, c)
<1>1. t \in CoreType
  BY SalAcceptKeeps DEF Keeps
<1>2. t = [s EXCEPT !.pend[c] = {}, !.op[c] = IF @ = "ringing" THEN "active" ELSE @]
  BY DEF SalAccept
<1>3. /\ t.current = s.current /\ t.calls = s.calls
      /\ t.state = s.state /\ t.prev = s.prev /\ t.dir = s.dir /\ t.ct = s.ct
      /\ t.err = s.err /\ t.log = s.log /\ t.replaces = s.replaces
      /\ t.op = [s.op EXCEPT ![c] = "active"] /\ t.pend = [s.pend EXCEPT ![c] = {}]
  BY <1>2 DEF CoreType
<1> HIDE DEF t
<1>4. /\ t.op[c] = "active" /\ t.pend[c] = {}
      /\ \A d \in Call \ {c} : t.op[d] = s.op[d] /\ t.pend[d] = s.pend[d]
  BY <1>3 DEF CoreType
<1> QED BY <1>1, <1>3, <1>4 DEF Only, Same, t

\* linphone_core_accept_call_with_params()
LEMMA AcceptCallLeads ==
  ASSUME NEW s, NEW c \in Call, NEW hangup \in BOOLEAN, Consistent(s), s.state[c] \in Alerting
  PROVE  Leads(s, AcceptCall(s, c, hangup))
<1> DEFINE p == PrepareAccept(s, c)
           a == SalAccept(p, c)
           m == MakeCurrent(a, c)
           k == SetState(m, c, "Connected")
           h == IF hangup THEN TerminateCall(k, c) ELSE k
           u == UpdateStreams(h, c, DirOfOffer(s.rmd[c]))
           t == SetState(u, c, "StreamsRunning")
<1>1. AcceptCall(s, c, hangup) = IF s.rmd[c] = "nosdp" THEN ExpectMediaInAck(h, c) ELSE t
  BY DEF AcceptCall
<1>2. Leads(s, p) /\ Same(s, p, c)
  BY PrepareAcceptLeads
<1> HIDE DEF p
<1>3. Consistent(p) /\ p \in CoreType /\ p.state[c] \in Alerting
  BY <1>2 DEF Leads, Consistent, Same
<1>4. /\ p.op[c] = "ringing" /\ p.pend[c] = {"invite"} /\ p.ct[c] = "none" /\ p.err[c] = "none"
      /\ p.replaces[c] # c /\ c \in p.calls /\ p.log[c] # "success"
      /\ p.state[c] \notin Ended \cup Answered
  BY <1>3, AlertingRow
<1>5. /\ Only(p, a, c) /\ a.calls = p.calls /\ a.state = p.state /\ a.ct = p.ct /\ a.err = p.err
      /\ a.log = p.log /\ a.replaces = p.replaces /\ a.op[c] = "active" /\ a.pend[c] = {}
      /\ a \in CoreType
  BY <1>3, <1>4, SalAcceptInviteOnly DEF Only
<1> HIDE DEF a
<1>6. Only(a, m, c) /\ Same(a, m, c)
  BY <1>5, CurrentOnly
<1> HIDE DEF m
<1>7. /\ Only(p, m, c) /\ m.state[c] \notin Ended \cup {"Connected"} /\ c \in m.calls
      /\ m.op[c] = "active" /\ m.err[c] = "none" /\ m.replaces[c] # c /\ m.ct[c] = "none"
      /\ m.log[c] = p.log[c]
  BY <1>4, <1>5, <1>6, SilentOnly DEF Same, Answered
<1>8. /\ "Connected" \in Live \ {"EarlyUpdatedByRemote"} /\ OpFits("Connected", "active")
      /\ "Connected" \notin Transient \cup {"UpdatedByRemote"}
  BY DEF Live, CallState, Ended, OpFits, Answered, Alerting, AwaitingAnswer, Outgoing, Transient
<1>9. Leads(p, k) /\ k.state[c] = "Connected" /\ k.op[c] = "active"
  BY <1>3, <1>7, <1>8, EnterLeads
<1> HIDE DEF k
<1>10. Leads(k, h) /\ (h.state[c] \in Ended \/ (h.state[c] = "Connected" /\ h.op[c] = "active"))
  BY <1>9, TerminateCallLeads, LeadsSelf DEF Leads
<1> HIDE DEF h
<1>11. Consistent(h) /\ h \in CoreType /\ Leads(s, h)
  <2>1. Leads(s, h)
    BY <1>2, <1>9, <1>10, LeadsTrans
  <2> QED BY <2>1 DEF Leads, Consistent
<1>12. CASE s.rmd[c] = "nosdp"
  <2>1. Silent(h, ExpectMediaInAck(h, c))
    BY <1>11, MediaIsSilent
  <2>2. Leads(h, ExpectMediaInAck(h, c))
    BY <1>11, <2>1, SilentLeads
  <2> QED BY <1>1, <1>11, <1>12, <2>2, LeadsTrans
<1>13. CASE s.rmd[c] # "nosdp"
  <2>1. h.state[c] \notin {"Idle", "IncomingReceived"}
    BY <1>10 DEF Ended
  <2>2. s \in CoreType
    BY DEF Consistent
  <2>3. Leads(h, u) /\ u.state[c] = h.state[c] /\ u.op[c] = h.op[c]
    BY <1>11, <1>13, <2>1, <2>2, AnswerOfferLeads
  <2> HIDE DEF u
  <2>4. Consistent(u)
    BY <2>3 DEF Leads
  <2>5. Leads(u, t)
    <3>1. CASE h.state[c] \in Ended
      <4>1. "StreamsRunning" \in (CallState \ {"Released"}) \cup {"Refered"}
        BY DEF CallState
      <4> QED BY <2>3, <2>4, <3>1, <4>1, SetStateOver
    <3>2. CASE h.state[c] = "Connected" /\ h.op[c] = "active"
      <4>1. "StreamsRunning" \in Settling \ {"EarlyUpdatedByRemote"}
            /\ "StreamsRunning" \notin Transient \cup {"UpdatedByRemote"}
        BY DEF Settling, Answered, Transient
      <4> QED BY <2>3, <2>4, <3>2, <4>1, MoveAnswered
    <3> QED BY <1>10, <3>1, <3>2
  <2> HIDE DEF t
  <2> QED BY <1>1, <1>11, <1>13, <2>3, <2>5, LeadsTrans
<1> QED BY <1>12, <1>13

\* The only call becomes the current one and rings.
LEMMA AnnounceLeads ==
  ASSUME NEW s, NEW c \in Call, Consistent(s), s.state[c] = "Idle", s.op[c] = "ringing"
  PROVE  LET t == Announce(s, c)
         IN  Leads(s, t) /\ t.state[c] = "IncomingReceived"
<1> DEFINE k == MakeCurrent(s, c)
           m == StartRinging(k)
<1>1. s \in CoreType /\ CallFits(s, c)
  BY DEF Consistent
<1>2. Only(s, k, c) /\ Same(s, k, c) /\ k \in CoreType
  BY <1>1, CurrentOnly DEF Only
<1> HIDE DEF k
<1>3. Only(k, m, c) /\ Same(k, m, c)
  BY <1>2, RingIsSilent, SilentOnly DEF Silent
<1>4. Announce(s, c) \in {SetState(m, c, "IncomingReceived"), SetState(s, c, "IncomingReceived")}
  BY DEF Announce, k
<1> HIDE DEF m
<1>5. Only(s, s, c)
  BY <1>1, RingIsSilent, SilentOnly
<1>6. ASSUME NEW q, Only(s, q, c), Same(s, q, c)
      PROVE  Leads(s, SetState(q, c, "IncomingReceived"))
             /\ SetState(q, c, "IncomingReceived").state[c] = "IncomingReceived"
  <2>1. /\ s.pend[c] = {"invite"} /\ s.ct[c] = "none" /\ s.err[c] = "none" /\ s.dir[c] = "none"
        /\ s.log[c] # "success" /\ s.replaces[c] # c /\ c \in s.calls
    BY <1>1 DEF CallFits, RequestFits, OfferFits, LogFits, ListFits, Ended
  <2>2. /\ q.pend[c] = {"invite"} /\ q.ct[c] = "none" /\ q.err[c] = "none" /\ q.dir[c] = "none"
        /\ q.log[c] # "success" /\ q.replaces[c] # c /\ c \in q.calls
        /\ q.state[c] = "Idle" /\ q.op[c] = "ringing"
    BY <1>6, <2>1 DEF Same
  <2>3. /\ "IncomingReceived" \in Live \ {"EarlyUpdatedByRemote"}
        /\ OpFits("IncomingReceived", "ringing")
        /\ "IncomingReceived" \notin Transient \cup {"UpdatedByRemote"} \cup Answered
        /\ "Idle" \notin Ended \cup {"IncomingReceived"}
    BY DEF Live, CallState, Ended, OpFits, Answered, Alerting, AwaitingAnswer, Outgoing, Transient
  <2> QED BY <1>6, <2>1, <2>2, <2>3, EnterLeads
<1>7. Only(s, m, c) /\ Same(s, m, c)
  BY <1>2, <1>3, SilentOnly DEF Same
<1>8. Same(s, s, c)
  BY DEF Same
<1> QED BY <1>4, <1>5, <1>6, <1>7, <1>8

\* linphone_core_notify_incoming_call()
LEMMA NotifyIncomingLeads ==
  ASSUME NEW s, NEW c \in Call, NEW reject \in BOOLEAN,
         Consistent(s), s.state[c] = "Idle", s.op[c] = "ringing"
  PROVE  Leads(s, NotifyIncoming(s, c, reject))
<1> DEFINE i == Announce(s, c)
           r == IF reject THEN DeclineCall(i, c) ELSE i
           e == IF EarlyMedia THEN AcceptEarlyMediaCall(r, c) ELSE r
<1>1. Leads(s, i) /\ i.state[c] = "IncomingReceived"
  BY AnnounceLeads
<1>2. /\ NotifyIncoming(s, c, reject) \in {r, e, AcceptCall(e, c, FALSE)}
      /\ r.state[c] # "IncomingReceived" => NotifyIncoming(s, c, reject) = r
  BY DEF NotifyIncoming
<1> HIDE DEF i
<1>3. Consistent(i) /\ i \in CoreType /\ "IncomingReceived" \in Alerting
  BY <1>1 DEF Leads, Consistent, Alerting
<1>4. CASE reject
  <2>1. Only(i, i, c) /\ i.log[c] # "success" /\ i.replaces[c] # c
    BY <1>1, <1>3, AlertingRow, RingIsSilent, SilentOnly
  <2>2. Leads(i, DeclineCall(i, c)) /\ DeclineCall(i, c).state[c] \in Ended
    BY <1>1, <1>3, <2>1, DeclineCallLeads
  <2>3. r = DeclineCall(i, c)
    BY <1>4
  <2> HIDE DEF r
  <2>4. NotifyIncoming(s, c, reject) = r
    BY <1>2, <2>2, <2>3 DEF Ended
  <2> QED BY <1>1, <2>2, <2>3, <2>4, LeadsTrans
<1>5. CASE ~ reject
  <2>1. r = i
    BY <1>5
  <2> HIDE DEF r
  <2>2. Leads(i, e) /\ e.state[c] \in Alerting
    <3>1. Leads(i, AcceptEarlyMediaCall(r, c)) /\ AcceptEarlyMediaCall(r, c).state[c] = "IncomingEarlyMedia"
      BY <1>1, <1>3, <2>1, AcceptEarlyMediaCallLeads
    <3>2. Leads(i, r) /\ r.state[c] = "IncomingReceived"
      BY <1>1, <1>3, <2>1, LeadsSelf
    <3>3. e = AcceptEarlyMediaCall(r, c) \/ e = r
      OBVIOUS
    <3> HIDE DEF e
    <3>4. CASE e = r
      BY <3>2, <3>4 DEF Alerting
    <3>5. CASE e = AcceptEarlyMediaCall(r, c)
      BY <3>1, <3>5 DEF Alerting
    <3> QED BY <3>3, <3>4, <3>5
  <2> HIDE DEF e
  <2>3. Leads(e, AcceptCall(e, c, FALSE))
    BY <2>2, AcceptCallLeads DEF Leads
  <2>4. Leads(s, r)
    BY <1>1, <2>1
  <2>5. Leads(s, e)
    BY <1>1, <2>2, LeadsTrans
  <2>6. Leads(s, AcceptCall(e, c, FALSE))
    BY <2>3, <2>5, LeadsTrans
  <2>7. NotifyIncoming(s, c, reject) \in {r, e, AcceptCall(e, c, FALSE)}
    BY <1>2
  <2> QED BY <2>4, <2>5, <2>6, <2>7
<1> QED BY <1>4, <1>5

\* What call_received() does before it announces the call
LEMMA ReceivedLeads ==
  ASSUME NEW s, NEW c \in Call, NEW offer \in Offer, NEW replaced \in (Call \ {c}) \cup {NoCall},
         Consistent(s), s.state[c] = "Idle", s.op[c] = "none"
  PROVE  LET t == Replacing(OfferMade(AddCall(s, c, "ringing"), c, "invite", offer), c, replaced)
         IN  Leads(s, t) /\ Only(s, t, c) /\ t.state[c] = "Idle" /\ t.op[c] = "ringing"
<1> DEFINE a == AddCall(s, c, "ringing")
           o == OfferMade(a, c, "invite", offer)
           n == Replacing(o, c, replaced)
<1>1. s \in CoreType /\ CallFits(s, c) /\ "ringing" \in OpPhase /\ "invite" \in PeerRequest
  BY DEF Consistent, OpPhase, PeerRequest
<1>2. /\ Only(s, a, c) /\ a.current = s.current /\ a.calls = s.calls \cup {c}
      /\ a.state = s.state /\ a.dir = s.dir /\ a.ct = s.ct /\ a.prev = s.prev
      /\ a.pend = s.pend /\ a.err = s.err /\ a.log = s.log /\ a.replaces = s.replaces
      /\ a.op[c] = "ringing" /\ a \in CoreType
  BY <1>1, AddCallOnly DEF Only
<1> HIDE DEF a
<1>3. /\ o.current = a.current /\ o.calls = a.calls /\ o.op = a.op /\ o.prev = a.prev
      /\ o.state = a.state /\ o.dir = a.dir /\ o.ct = a.ct
      /\ o.err = a.err /\ o.log = a.log /\ o.replaces = a.replaces
      /\ o.pend = [a.pend EXCEPT ![c] = @ \cup {"invite"}] /\ o \in CoreType
  <2>1. o \in CoreType
    BY <1>1, <1>2, OfferMadeKeeps DEF Keeps
  <2> QED BY <1>2, <2>1 DEF OfferMade, CoreType
<1> HIDE DEF o
<1>4. /\ n.current = o.current /\ n.calls = o.calls /\ n.op = o.op /\ n.prev = o.prev
      /\ n.state = o.state /\ n.dir = o.dir /\ n.ct = o.ct
      /\ n.err = o.err /\ n.log = o.log /\ n.pend = o.pend
      /\ n.replaces = [o.replaces EXCEPT ![c] = replaced] /\ n \in CoreType
  <2>1. n \in CoreType
    BY <1>3, ReplacingKeeps DEF Keeps
  <2> QED BY <1>3, <2>1 DEF Replacing, CoreType
<1> HIDE DEF n
<1>5. /\ n.pend[c] = s.pend[c] \cup {"invite"} /\ n.replaces[c] = replaced
      /\ \A d \in Call \ {c} : n.pend[d] = a.pend[d] /\ n.replaces[d] = a.replaces[d]
  BY <1>2, <1>3, <1>4 DEF CoreType
<1>6. Only(a, n, c)
  BY <1>3, <1>4, <1>5 DEF Only, Same
<1>7. Only(s, n, c)
  BY <1>2, <1>6, SilentOnly
<1>8. /\ s.ct[c] = "none" /\ s.pend[c] = {} /\ s.err[c] = "none" /\ s.log[c] # "success"
      /\ s.dir[c] = "none"
  BY <1>1 DEF CallFits, RequestFits, OfferFits, LogFits, Ended
<1>9. /\ n.state[c] = "Idle" /\ n.op[c] = "ringing" /\ n.pend[c] = {"invite"} /\ n.dir[c] = "none"
       /\ n.ct[c] = "none" /\ n.err[c] = "none" /\ n.log[c] # "success" /\ n.replaces[c] # c
       /\ c \in n.calls
  BY <1>2, <1>3, <1>4, <1>5, <1>8, NoCallAssumption
<1>10. OpFits("Idle", "ringing") /\ "Idle" \notin Transient \cup {"UpdatedByRemote"} \cup Answered
  BY DEF OpFits, Answered, Alerting, AwaitingAnswer, Outgoing, Ended, Transient
<1>11. CallFits(n, c)
  BY <1>9, <1>10 DEF CallFits, ListFits, RequestFits, OfferFits, PrevFits, LogFits
<1>12. Leads(s, n)
  BY <1>7, <1>8, <1>9, <1>11, OnlyLeads
<1> QED BY <1>7, <1>9, <1>12 DEF a, o, n

\* call_received()
LEMMA CallReceivedLeads ==
  ASSUME NEW s, NEW c \in Call, NEW offer \in Offer, NEW replaced \in (Call \ {c}) \cup {NoCall},
         NEW reject \in BOOLEAN, Consistent(s), s.state[c] = "Idle", s.op[c] = "none"
  PROVE  Leads(s, CallReceived(s, c, offer, replaced, reject))
<1> DEFINE n == Replacing(OfferMade(AddCall(s, c, "ringing"), c, "invite", offer), c, replaced)
<1>1. CallReceived(s, c, offer, replaced, reject) \in {n, NotifyIncoming(n, c, reject)}
  BY DEF CallReceived
<1>2. Leads(s, n) /\ n.state[c] = "Idle" /\ n.op[c] = "ringing"
  BY ReceivedLeads
<1> HIDE DEF n
<1>3. Leads(n, NotifyIncoming(n, c, reject))
  BY <1>2, NotifyIncomingLeads DEF Leads
<1> QED BY <1>1, <1>2, <1>3, LeadsTrans

-----------------------------------------------------------------------------
(* Answers to our INVITE and to our offers                                 *)

\* Where a call can be when its operation is in a given phase.
LEMMA PhaseStates ==
  ASSUME NEW s, NEW c \in Call, Consistent(s)
  PROVE  /\ s.op[c] \in {"inviting", "early"} =>
              s.state[c] \in AwaitingAnswer \cup {"EarlyUpdatedByRemote"}
         /\ s.op[c] = "active" =>
              s.state[c] \in Settling \cup {"Connected", "EarlyUpdatedByRemote"} \cup Ended
         /\ s.op[c] \in {"cancelling", "terminating"} => s.state[c] \in Ended
         /\ s.state[c] \in Ended => c \notin s.calls
         /\ s.state[c] = "EarlyUpdatedByRemote" => UseIce
<1>1. CallFits(s, c) /\ s.state[c] \in CallState
  BY DEF Consistent, CoreType
<1>2. /\ s.op[c] \in {"inviting", "early"} =>
            s.state[c] \in AwaitingAnswer \cup {"EarlyUpdatedByRemote"}
      /\ s.op[c] \in {"cancelling", "terminating"} => s.state[c] \in Ended
  BY <1>1 DEF CallFits, OpFits, CallState, Ended, AwaitingAnswer, Outgoing, Alerting, Answered
<1>3. s.state[c] = "EarlyUpdatedByRemote" => UseIce
  BY <1>1 DEF CallFits, LogFits
<1>4. s.op[c] = "active" =>
              s.state[c] \in Settling \cup {"Connected", "EarlyUpdatedByRemote"} \cup Ended
  BY <1>1, <1>3 DEF CallFits, OpFits, CallState, Ended, AwaitingAnswer, Outgoing, Alerting, Answered, Settling
<1>5. s.state[c] \in Ended => c \notin s.calls
  BY <1>1 DEF CallFits, ListFits, Live, Ended
<1> QED BY <1>2, <1>3, <1>4, <1>5

\* The row of a call that was announced and is not over.
LEMMA LiveRow ==
  ASSUME NEW s, NEW c \in Call, Consistent(s), s.state[c] \in Live
  PROVE  /\ c \in s.calls /\ s.err[c] = "none" /\ s.replaces[c] # c
         /\ s.op[c] = "ringing" => s.log[c] # "success"
         /\ s.op[c] # "active" => s.ct[c] = "none"
         /\ s.ct[c] # "none" =>
              s.op[c] = "active" /\ s.state[c] \in Settling \ {"Paused"} /\ s.prev[c] \in Settling
<1>1. CallFits(s, c) /\ s.state[c] \notin Ended \cup {"Idle"}
  BY DEF Consistent, Live
<1> QED BY <1>1 DEF CallFits, ListFits, RequestFits, LogFits

\* A provisional response makes an early dialog.
LEMMA EarlyDialogLeads ==
  ASSUME NEW s, NEW c \in Call, Consistent(s), s.op[c] \in {"inviting", "early"}
  PROVE  LET t == Operation(s, c, "early")
         IN  Leads(s, t) /\ t.op[c] = "early"
<1> DEFINE t == Operation(s, c, "early")
<1>1. s \in CoreType /\ CallFits(s, c) /\ "early" \in OpPhase
  BY DEF Consistent, OpPhase
<1>2. /\ Only(s, t, c) /\ t.current = s.current /\ t.calls = s.calls
      /\ t.state = s.state /\ t.prev = s.prev /\ t.dir = s.dir /\ t.ct = s.ct
      /\ t.pend = s.pend /\ t.err = s.err /\ t.log = s.log /\ t.replaces = s.replaces
      /\ t.op[c] = "early"
  BY <1>1, OperationOnly
<1> HIDE DEF t
<1>3. s.state[c] \in AwaitingAnswer \cup {"EarlyUpdatedByRemote"}
  BY PhaseStates
<1>4. s.state[c] \in Live /\ s.state[c] \notin Answered
  BY <1>3 DEF AwaitingAnswer, Outgoing, Live, CallState, Ended, Answered
<1>5. s.state[c] = "EarlyUpdatedByRemote" => s.op[c] = "early"
  BY <1>1 DEF CallFits, OpFits
<1>6. OpFits(t.state[c], t.op[c])
  BY <1>2, <1>3 DEF OpFits, AwaitingAnswer, Outgoing, Ended, Alerting, Answered
<1>7. CallFits(t, c)
  BY <1>1, <1>2, <1>3, <1>4, <1>5, <1>6 DEF CallFits, ListFits, RequestFits, OfferFits, PrevFits, LogFits
<1>8. t.current = c => c \in t.calls \/ "appHangup" \in Faults
  BY <1>2, NoCallAssumption DEF Consistent, CurrentFits
<1>9. Leads(s, t)
  BY <1>2, <1>7, <1>8, OnlyLeads
<1> QED BY <1>2, <1>9 DEF t

\* The states of an outgoing call that was not answered.
LEMMA MoveEarlyLeads ==
  ASSUME NEW s, NEW q, NEW c \in Call, NEW new \in {"OutgoingRinging", "OutgoingEarlyMedia"},
         Consistent(s), s.op[c] = "early", Silent(s, q)
  PROVE  LET t == SetState(q, c, new)
         IN  Leads(s, t) /\ t.state[c] = new
<1> DEFINE t == SetState(q, c, new)
<1>1. s.state[c] \in AwaitingAnswer \cup {"EarlyUpdatedByRemote"}
  BY PhaseStates
<1>2. s.state[c] \in Live /\ s.state[c] \notin Ended
  BY <1>1 DEF AwaitingAnswer, Outgoing, Live, CallState, Ended
<1>3. c \in s.calls /\ s.err[c] = "none" /\ s.replaces[c] # c /\ s.ct[c] = "none"
  BY <1>2, LiveRow
<1>4. /\ Only(s, q, c) /\ q.state[c] = s.state[c] /\ q.op[c] = "early" /\ q.ct[c] = "none"
      /\ c \in q.calls /\ q.err[c] = "none" /\ q.replaces[c] # c /\ q.log[c] = s.log[c]
  BY <1>3, SilentOnly DEF Silent, Same
<1>5. /\ new \in Live \ {"EarlyUpdatedByRemote"} /\ OpFits(new, "early")
      /\ new \notin Transient \cup {"UpdatedByRemote", "IncomingReceived"} \cup Answered
  BY DEF Live, CallState, Ended, OpFits, Answered, Alerting, AwaitingAnswer, Outgoing, Transient
<1>6. CASE q.state[c] = new
  <2>1. t = q
    BY <1>6 DEF SetState
  <2> QED BY <1>6, <2>1, SilentLeads
<1>7. CASE q.state[c] # new
  BY <1>2, <1>4, <1>5, <1>7, EnterLeads
<1> QED BY <1>6, <1>7

\* call_ringing()
LEMMA CallRingingLeads ==
  ASSUME NEW s, NEW c \in Call, NEW md \in Dir \cup {"none"}, Consistent(s), s.op[c] = "early"
  PROVE  Leads(s, CallRinging(s, c, md))
<1> DEFINE r == SetState(StartRinging(s), c, "OutgoingRinging")
           e == SetState(s, c, "OutgoingEarlyMedia")
           p == StopRinging(e)
           u == UpdateStreams(p, c, md)
<1>1. s \in CoreType
  BY DEF Consistent
<1>2. /\ md = "none" => CallRinging(s, c, md) \in {s, r}
      /\ md # "none" => CallRinging(s, c, md) \in {s, StartRinging(u), StopRinging(u)}
  BY DEF CallRinging
<1>3. Leads(s, s) /\ Leads(s, r)
  BY <1>1, LeadsSelf, RingIsSilent, MoveEarlyLeads
<1>4. Leads(s, e) /\ e.state[c] = "OutgoingEarlyMedia"
  BY <1>1, RingIsSilent, MoveEarlyLeads
<1> HIDE DEF e
<1>5. Consistent(e) /\ e \in CoreType
  BY <1>4 DEF Leads, Consistent
<1>6. Silent(e, p) /\ Leads(e, p)
  BY <1>5, RingIsSilent, SilentLeads
<1> HIDE DEF p
<1>7. Consistent(p) /\ p.state[c] = "OutgoingEarlyMedia"
  BY <1>4, <1>6 DEF Leads, Silent, Same
<1>8. ASSUME md # "none" PROVE Leads(s, StartRinging(u)) /\ Leads(s, StopRinging(u))
  <2>1. Leads(p, u)
    BY <1>7, <1>8, UpdateStreamsLeads
  <2> HIDE DEF u
  <2>2. Consistent(u) /\ u \in CoreType
    BY <2>1 DEF Leads, Consistent
  <2>3. Leads(u, StartRinging(u)) /\ Leads(u, StopRinging(u))
    BY <2>2, RingIsSilent, SilentLeads
  <2>4. Leads(s, u)
    BY <1>4, <1>6, <2>1, LeadsTrans
  <2> QED BY <2>3, <2>4, LeadsTrans
<1> QED BY <1>2, <1>3, <1>8

\* A refused request, or an unusable answer, brings back call->prevstate.
LEMMA RestoreLeads ==
  ASSUME NEW s, NEW c \in Call, Consistent(s), s.op[c] = "active", s.ct[c] = "none",
         s.state[c] \in Settling \ {"Paused"}, s.prev[c] \in Settling
  PROVE  Leads(s, SetState(s, c, s.prev[c]))
BY MoveAnswered

\* The second half of call_accepted(), from the core k its first half leaves.
AnswerFits(k, c) ==
  \/ k.state[c] \in Ended /\ "appHangup" \in Faults /\ k.prev[c] = "Connected"
  \/ /\ k.op[c] = "active" /\ k.ct[c] = "none"
     /\ k.state[c] \in Settling \cup {"Connected", "EarlyUpdatedByRemote"}
     /\ \/ k.prev[c] \in Outgoing
        \/ k.state[c] \in Settling \ {"Paused"} /\ k.prev[c] \in Settling

\* call_accepted() with a usable description
LEMMA SettledLeads ==
  ASSUME NEW k, NEW c \in Call, NEW md \in Dir, Consistent(k),
         \/ k.state[c] \in Ended /\ "appHangup" \in Faults
         \/ /\ k.op[c] = "active" /\ k.ct[c] = "none"
            /\ k.state[c] \in Settling \cup {"Connected", "EarlyUpdatedByRemote"}
  PROVE  Leads(k, Settled(k, c, md, FALSE))
<1> DEFINE u == UpdateStreams(k, c, md)
           v == IF md = "sendrecv" THEN MakeCurrent(u, c) ELSE u
           new == CASE md \in {"sendonly", "inactive"} -> "Paused"
                    [] md = "recvonly" -> "PausedByRemote"
                    [] OTHER -> "StreamsRunning"
<1>1. k \in CoreType /\ k.state[c] \notin {"Idle", "IncomingReceived"}
  BY DEF Consistent, Ended, Settling, Answered
<1>2. /\ Leads(k, u) /\ u.state = k.state /\ u.op = k.op /\ u.ct = k.ct /\ u.calls = k.calls
  BY <1>1, UpdateStreamsLeads, UpdateStreamsOnly
<1>3. Settled(k, c, md, FALSE) = SetState(v, c, new)
  BY DEF Settled
<1> HIDE DEF u
<1>4. k.state[c] \in Settling \cup {"Connected", "EarlyUpdatedByRemote"} => k.state[c] \in Live
  BY DEF Settling, Answered, Live, CallState, Ended
<1>5. c \in u.calls \/ "appHangup" \in Faults
  BY <1>2, <1>4, LiveRow
<1>6. Leads(u, MakeCurrent(u, c)) /\ Same(u, MakeCurrent(u, c), c)
  BY <1>2, <1>5, CurrentLeads DEF Leads
<1>7. Leads(u, v) /\ Same(u, v, c)
  <2>1. Leads(u, u) /\ Same(u, u, c)
    BY <1>2, LeadsSelf DEF Leads, Same
  <2> QED BY <1>6, <2>1
<1> HIDE DEF v
<1>8. /\ Consistent(v) /\ v.state[c] = k.state[c] /\ v.op[c] = k.op[c] /\ v.ct[c] = k.ct[c]
  BY <1>2, <1>7 DEF Leads, Same
<1>9. new \in {"Paused", "PausedByRemote", "StreamsRunning"}
  OBVIOUS
<1>10. /\ new \in Settling /\ new \notin Transient \cup {"UpdatedByRemote"}
       /\ new \in CallState \ {"Released"}
  BY <1>9 DEF Settling, Answered, Transient, CallState
<1> HIDE DEF new
<1>11. Leads(v, SetState(v, c, new))
  BY <1>8, <1>10, SetStateOver, MoveAnswered
<1> QED BY <1>2, <1>3, <1>7, <1>11, LeadsTrans

\* call_accepted(), after the switch at its head
LEMMA AcceptedLeads ==
  ASSUME NEW q, NEW c \in Call, NEW answer \in Dir \cup Unusable, NEW hangup \in BOOLEAN,
         q.state[c] # "EarlyUpdating", Consistent(Answer(q, c, hangup)), AnswerFits(Answer(q, c, hangup), c)
  PROVE  Leads(Answer(q, c, hangup), CallAccepted(q, c, answer, hangup))
<1> DEFINE k == Answer(q, c, hangup)
           md == UsableAnswer(k, c, answer)
<1>1. Consistent(k) /\ AnswerFits(k, c) /\ k \in CoreType
  BY DEF Consistent
<1>2. CallAccepted(q, c, answer, hangup)
        = CASE md = "bad" /\ k.prev[c] \in Outgoing -> AbortCall(k, c)
            [] md = "bad" /\ k.prev[c] \notin Outgoing -> SetState(k, c, k.prev[c])
            [] OTHER -> Settled(k, c, md, FALSE)
  BY DEF CallAccepted
<1> HIDE DEF k
<1>3. md \in Dir \cup {"bad"}
  BY <1>1, UsableAnswerType
<1> HIDE DEF md
<1>4. k.state[c] \notin {"Idle", "Released"}
  BY <1>1 DEF AnswerFits, Ended, Settling, Answered
<1>5. CASE md = "bad" /\ k.prev[c] \in Outgoing
  BY <1>1, <1>2, <1>4, <1>5, AbortCallLeads DEF k
<1>6. CASE md = "bad" /\ k.prev[c] \notin Outgoing
  <2>1. CallAccepted(q, c, answer, hangup) = SetState(k, c, k.prev[c])
    BY <1>2, <1>6
  <2>2. Leads(k, SetState(k, c, k.prev[c]))
    <3>1. CASE k.state[c] \in Ended /\ k.prev[c] = "Connected"
      <4>1. "Connected" \in (CallState \ {"Released"}) \cup {"Refered"}
        BY DEF CallState
      <4> QED BY <1>1, <3>1, <4>1, SetStateOver
    <3>2. CASE /\ k.op[c] = "active" /\ k.ct[c] = "none"
               /\ k.state[c] \in Settling \ {"Paused"} /\ k.prev[c] \in Settling
      BY <1>1, <3>2, RestoreLeads
    <3> QED BY <1>1, <1>6, <3>1, <3>2 DEF AnswerFits
  <2> QED BY <2>1, <2>2 DEF k
<1>7. CASE md # "bad"
  <2>1. CallAccepted(q, c, answer, hangup) = Settled(k, c, md, FALSE)
    BY <1>2, <1>7
  <2>2. Leads(k, Settled(k, c, md, FALSE))
    BY <1>1, <1>3, <1>7, SettledLeads DEF AnswerFits
  <2> QED BY <2>1, <2>2 DEF k
<1> QED BY <1>5, <1>6, <1>7

\* The switch at the head of call_accepted(), for a 2xx on our INVITE
LEMMA AnswerLeads ==
  ASSUME NEW s, NEW c \in Call, NEW hangup \in BOOLEAN,
         Consistent(s), s.op[c] \in {"inviting", "early"}, hangup => "appHangup" \in Faults
  PROVE  LET q == Operation(s, c, "active")
             k == Answer(q, c, hangup)
         IN  q.state[c] # "EarlyUpdating" /\ Leads(s, k) /\ AnswerFits(k, c)
<1> DEFINE q == Operation(s, c, "active")
           k == Answer(q, c, hangup)
           connected == SetState(q, c, "Connected")
<1>1. s \in CoreType /\ CallFits(s, c) /\ "active" \in OpPhase
  BY DEF Consistent, OpPhase
<1>2. /\ Only(s, q, c) /\ q.current = s.current /\ q.calls = s.calls
      /\ q.state = s.state /\ q.prev = s.prev /\ q.dir = s.dir /\ q.ct = s.ct
      /\ q.pend = s.pend /\ q.err = s.err /\ q.log = s.log /\ q.replaces = s.replaces
      /\ q.op[c] = "active"
  BY <1>1, OperationOnly
<1>3. s.state[c] \in AwaitingAnswer \cup {"EarlyUpdatedByRemote"}
  BY PhaseStates
<1>4. /\ s.state[c] \in Live /\ s.state[c] \notin Ended \cup {"Connected", "Released", "Idle", "EarlyUpdating"}
  BY <1>3 DEF AwaitingAnswer, Outgoing, Live, CallState, Ended
<1>5. c \in s.calls /\ s.err[c] = "none" /\ s.replaces[c] # c /\ s.ct[c] = "none"
  BY <1>4, LiveRow
<1>6. /\ s.state[c] \in AwaitingAnswer => k = IF hangup THEN TerminateCall(connected, c) ELSE connected
      /\ s.state[c] \notin AwaitingAnswer => k = q
  BY <1>2, <1>3 DEF Answer, AwaitingAnswer, Outgoing
<1> HIDE DEF q
<1>7. Leads(s, k) /\ AnswerFits(k, c)
  <2>1. CASE s.state[c] \in AwaitingAnswer
    <3>1. /\ "Connected" \in Live \ {"EarlyUpdatedByRemote"} /\ OpFits("Connected", "active")
          /\ "Connected" \notin Transient \cup {"UpdatedByRemote", "IncomingReceived"}
      BY DEF Live, CallState, Ended, OpFits, Answered, Alerting, AwaitingAnswer, Outgoing, Transient
    <3>2. /\ Leads(s, connected) /\ connected.state[c] = "Connected" /\ connected.op[c] = "active"
          /\ connected.prev[c] = s.state[c] /\ connected.ct[c] = "none"
      BY <1>2, <1>4, <1>5, <3>1, EnterLeads
    <3> HIDE DEF connected
    <3>3. CASE hangup
      <4>1. k = TerminateCall(connected, c)
        BY <1>6, <2>1, <3>3
      <4>2. /\ Leads(connected, TerminateCall(connected, c))
            /\ TerminateCall(connected, c).state[c] \in Ended
            /\ TerminateCall(connected, c).prev[c] = "Connected"
        BY <3>2, TerminateCallLeads DEF Leads, Ended
      <4> HIDE DEF k
      <4> QED BY <3>2, <3>3, <4>1, <4>2, LeadsTrans DEF AnswerFits
    <3>4. CASE ~ hangup
      <4>1. k = connected
        BY <1>6, <2>1, <3>4
      <4> HIDE DEF k
      <4> QED BY <2>1, <3>2, <4>1 DEF AnswerFits, AwaitingAnswer
    <3> QED BY <3>3, <3>4
  <2>2. CASE s.state[c] = "EarlyUpdatedByRemote"
    <3>1. k = q
      BY <1>6, <2>2 DEF AwaitingAnswer, Outgoing
    <3> HIDE DEF k
    <3>2. UseIce
      BY <2>2, PhaseStates
    <3>3. s.op[c] = "early" /\ s.prev[c] \in AwaitingAnswer
      BY <1>1, <2>2 DEF CallFits, OpFits, PrevFits
    <3>4. OpFits(q.state[c], "active")
      BY <1>2, <2>2 DEF OpFits, Answered, Alerting, AwaitingAnswer, Outgoing, Ended
    <3>5. s.state[c] \notin Answered \cup Transient
      BY <2>2 DEF Answered, Transient
    <3>6. CallFits(q, c)
      BY <1>2, <1>4, <1>5, <2>2, <3>2, <3>3, <3>4, <3>5
         DEF CallFits, ListFits, RequestFits, OfferFits, PrevFits, LogFits
    <3>7. Leads(s, q)
      BY <1>2, <1>5, <3>6, OnlyLeads
    <3> QED BY <1>2, <1>5, <2>2, <3>1, <3>2, <3>3, <3>7 DEF AnswerFits, AwaitingAnswer
  <2> QED BY <1>3, <2>1, <2>2
<1>8. q.state[c] # "EarlyUpdating"
  BY <1>2, <1>4
<1> QED BY <1>7, <1>8 DEF q

\* A 2xx on our INVITE
LEMMA Answered200Leads ==
  ASSUME NEW s, NEW c \in Call, NEW answer \in Dir \cup Unusable, NEW hangup \in BOOLEAN,
         Consistent(s), s.op[c] \in {"inviting", "early"}, hangup => "appHangup" \in Faults
  PROVE  Leads(s, CallAccepted(Operation(s, c, "active"), c, answer, hangup))
<1> DEFINE q == Operation(s, c, "active")
           k == Answer(q, c, hangup)
<1>1. q.state[c] # "EarlyUpdating" /\ Leads(s, k) /\ AnswerFits(k, c)
  BY AnswerLeads
<1>2. Leads(k, CallAccepted(q, c, answer, hangup))
  BY <1>1, AcceptedLeads DEF Leads
<1> QED BY <1>1, <1>2, LeadsTrans

LEMMA RequestDoneOnly ==
  ASSUME NEW s \in CoreType, NEW c \in Call
  PROVE  LET t == RequestDone(s, c)
         IN  /\ Only(s, t, c) /\ t.current = s.current /\ t.calls = s.calls
             /\ t.state = s.state /\ t.prev = s.prev /\ t.dir = s.dir /\ t.op = s.op
             /\ t.pend = s.pend /\ t.err = s.err /\ t.log = s.log /\ t.replaces = s.replaces
             /\ t.retries = s.retries /\ t.ct[c] = "none"
<1> DEFINE t == RequestDone(s, c)
<1>1. t \in CoreType
  BY RequestDoneKeeps DEF Keeps
<1>2. /\ t.current = s.current /\ t.calls = s.calls
      /\ t.state = s.state /\ t.prev = s.prev /\ t.dir = s.dir /\ t.op = s.op
      /\ t.pend = s.pend /\ t.err = s.err /\ t.log = s.log /\ t.replaces = s.replaces
      /\ t.retries = s.retries /\ t.ct = [s.ct EXCEPT ![c] = "none"]
  BY DEF RequestDone, CoreType
<1> HIDE DEF t
<1>3. t.ct[c] = "none" /\ \A d \in Call \ {c} : t.ct[d] = s.ct[d]
  BY <1>2 DEF CoreType
<1> QED BY <1>1, <1>2, <1>3 DEF Only, Same, t

\* A response ends our request.
LEMMA RequestDoneLeads ==
  ASSUME NEW s, NEW c \in Call, Consistent(s)
  PROVE  Leads(s, RequestDone(s, c))
<1> DEFINE t == RequestDone(s, c)
<1>1. /\ Only(s, t, c) /\ t.current = s.current /\ t.calls = s.calls
      /\ t.state = s.state /\ t.prev = s.prev /\ t.dir = s.dir /\ t.op = s.op
      /\ t.pend = s.pend /\ t.err = s.err /\ t.log = s.log /\ t.replaces = s.replaces
      /\ t.ct[c] = "none"
  BY RequestDoneOnly DEF Consistent
<1> HIDE DEF t
<1>2. CallFits(t, c)
  BY <1>1 DEF Consistent, CallFits, ListFits, RequestFits, OfferFits, PrevFits, LogFits
<1>3. t.current = c => c \in t.calls \/ "appHangup" \in Faults
  BY <1>1, NoCallAssumption DEF Consistent, CurrentFits
<1>4. Leads(s, t)
  BY <1>1, <1>2, <1>3, OnlyLeads
<1> QED BY <1>4 DEF t

\* A response accepts our re-INVITE or UPDATE
LEMMA OfferAcceptedLeads ==
  ASSUME NEW s, NEW c \in Call, NEW answer \in Dir \cup Unusable, Consistent(s), s.ct[c] # "none"
  PROVE  Leads(s, CallAccepted(RequestDone(s, c), c, answer, FALSE))
<1> DEFINE q == RequestDone(s, c)
           k == Answer(q, c, FALSE)
<1>1. s \in CoreType /\ s.op[c] = "active" /\ s.state[c] \in Settling \ {"Paused"}
      /\ s.prev[c] \in Settling
  BY DEF Consistent, CallFits, RequestFits
<1>2. Leads(s, q) /\ q.state = s.state /\ q.prev = s.prev /\ q.op = s.op /\ q.ct[c] = "none"
  BY <1>1, RequestDoneLeads, RequestDoneOnly
<1> HIDE DEF q
<1>3. s.state[c] \notin AwaitingAnswer \cup {"EarlyUpdating"}
  BY <1>1 DEF Settling, Answered, AwaitingAnswer, Outgoing
<1>4. k = q
  BY <1>2, <1>3 DEF Answer
<1>5. Consistent(k) /\ AnswerFits(k, c)
  BY <1>1, <1>2, <1>4 DEF Leads, AnswerFits
<1>6. Leads(k, CallAccepted(q, c, answer, FALSE))
  BY <1>2, <1>3, <1>5, AcceptedLeads
<1> QED BY <1>2, <1>4, <1>6, LeadsTrans DEF q

\* call_ack()
LEMMA CallAckLeads ==
  ASSUME NEW s, NEW c \in Call, NEW md \in Dir \cup {"bad"}, Consistent(s), s.op[c] = "active"
  PROVE  Leads(s, CallAck(s, c, md))
<1> DEFINE u == UpdateStreams(s, c, md)
<1>1. s.state[c] \in Settling \cup {"Connected", "EarlyUpdatedByRemote"} \cup Ended /\ s \in CoreType
  BY PhaseStates DEF Consistent
<1>2. s.state[c] \notin {"Idle", "Released", "IncomingReceived"}
  BY <1>1 DEF Settling, Answered, Ended
<1>3. CASE md = "bad"
  BY <1>2, <1>3, AbortCallLeads DEF CallAck
<1>4. CASE md # "bad"
  <2>1. CallAck(s, c, md) = SetState(u, c, "StreamsRunning")
    BY <1>4 DEF CallAck
  <2>2. Leads(s, u) /\ u.state = s.state /\ u.op = s.op
    BY <1>1, <1>2, <1>4, UpdateStreamsLeads, UpdateStreamsOnly
  <2> HIDE DEF u
  <2>3. /\ "StreamsRunning" \in Settling
        /\ "StreamsRunning" \in CallState \ {"Released"}
        /\ "StreamsRunning" \notin Transient \cup {"UpdatedByRemote"}
    BY DEF Settling, Answered, CallState, Transient
  <2>4. Consistent(u)
    BY <2>2 DEF Leads
  <2>5. Leads(u, SetState(u, c, "StreamsRunning"))
    BY <1>1, <2>2, <2>3, <2>4, SetStateOver, MoveAnswered
  <2> QED BY <2>1, <2>2, <2>5, LeadsTrans
<1> QED BY <1>3, <1>4

-----------------------------------------------------------------------------
(* The end of a dialog, refusals and timeouts                              *)

LEMMA NothingPendingOnly ==
  ASSUME NEW s \in CoreType, NEW c \in Call
  PROVE  LET t == NothingPending(s, c)
         IN  /\ Only(s, t, c) /\ t.current = s.current /\ t.calls = s.calls
             /\ t.state = s.state /\ t.prev = s.prev /\ t.dir = s.dir /\ t.op = s.op
             /\ t.ct = s.ct /\ t.err = s.err /\ t.log = s.log /\ t.replaces = s.replaces
             /\ t.pend[c] = {} /\ t.rmd = s.rmd
<1> DEFINE t == NothingPending(s, c)
<1>1. t \in CoreType
  BY NothingPendingKeeps DEF Keeps
<1>2. /\ t.current = s.current /\ t.calls = s.calls
      /\ t.state = s.state /\ t.prev = s.prev /\ t.dir = s.dir /\ t.op = s.op
      /\ t.ct = s.ct /\ t.err = s.err /\ t.log = s.log /\ t.replaces = s.replaces
      /\ t.pend = [s.pend EXCEPT ![c] = {}] /\ t.rmd = s.rmd
  BY DEF NothingPending, CoreType
<1> HIDE DEF t
<1>3. t.pend[c] = {} /\ \A d \in Call \ {c} : t.pend[d] = s.pend[d]
  BY <1>2 DEF CoreType
<1> QED BY <1>1, <1>2, <1>3 DEF Only, Same, t

\* The dialog of a call that is over is closing.
LEMMA ClosingLeads ==
  ASSUME NEW s, NEW x, NEW c \in Call, Consistent(s), Only(s, x, c), x.state[c] \in Ended,
         c \notin x.calls, x.replaces[c] # c, x.current = c => "appHangup" \in Faults,
         s.log[c] = "success" => x.log[c] = "success"
  PROVE  Leads(s, Closing(x, c))
<1> DEFINE o == Operation(x, c, "terminating")
           r == RequestDone(o, c)
           t == NothingPending(r, c)
<1>1. Closing(x, c) = t /\ x \in CoreType /\ "terminating" \in OpPhase
  BY DEF Closing, Only, OpPhase
<1>2. /\ Only(x, o, c) /\ o.current = x.current /\ o.calls = x.calls /\ o.state = x.state
      /\ o.log = x.log /\ o.replaces = x.replaces /\ o.op[c] = "terminating"
  BY <1>1, OperationOnly
<1> HIDE DEF o
<1>3. /\ Only(o, r, c) /\ r.current = o.current /\ r.calls = o.calls /\ r.state = o.state
      /\ r.log = o.log /\ r.replaces = o.replaces /\ r.op = o.op /\ r.ct[c] = "none"
  BY <1>2, RequestDoneOnly DEF Only
<1> HIDE DEF r
<1>4. /\ Only(r, t, c) /\ t.current = r.current /\ t.calls = r.calls /\ t.state = r.state
      /\ t.log = r.log /\ t.replaces = r.replaces /\ t.op = r.op /\ t.ct = r.ct
  BY <1>3, NothingPendingOnly DEF Only
<1> HIDE DEF t
<1>5. /\ t.current = x.current /\ t.calls = x.calls /\ t.state = x.state /\ t.log = x.log
      /\ t.replaces = x.replaces /\ t.op[c] = "terminating" /\ t.ct[c] = "none"
  BY <1>2, <1>3, <1>4
<1>6. Only(s, t, c)
  BY <1>2, <1>3, <1>4, SilentOnly
<1>7. CallFits(t, c)
  BY <1>5, EndedFits
<1> QED BY <1>1, <1>5, <1>6, <1>7, OnlyLeads

\* call_released(), and the release of an operation that failed
LEMMA ReleaseLeads ==
  ASSUME NEW s, NEW q, NEW c \in Call, Consistent(s), Only(s, q, c), q.state[c] \in Ended,
         c \notin q.calls, q.current = c => "appHangup" \in Faults,
         s.log[c] = "success" => q.log[c] = "success"
  PROVE  Leads(s, SetState(q, c, "Released"))
<1> DEFINE m == Remembered(q, c)
           i == StateIs(m, c, "Released")
           n == NoOperation(i, c)
           r == NoReferer(n, c)
           t == Destroyed(r, c)
<1>1. q \in CoreType /\ "Released" \in CallState /\ "Released" \notin Ended
  BY DEF Only, CallState, Ended
<1>2. /\ Only(q, m, c) /\ m.current = q.current /\ m.calls = q.calls /\ m.state = q.state
      /\ m.log = q.log /\ m \in CoreType
  <2>1. m \in CoreType
    BY <1>1, RememberedKeeps DEF Keeps
  <2>2. /\ m.current = q.current /\ m.calls = q.calls /\ m.state = q.state /\ m.log = q.log
        /\ m.op = q.op /\ m.ct = q.ct /\ m.pend = q.pend /\ m.dir = q.dir /\ m.err = q.err
        /\ m.replaces = q.replaces /\ m.prev = [q.prev EXCEPT ![c] = q.state[c]]
    BY <1>1 DEF Remembered, CoreType
  <2> HIDE DEF m
  <2>3. \A d \in Call \ {c} : m.prev[d] = q.prev[d]
    BY <1>1, <2>2 DEF CoreType
  <2> QED BY <2>1, <2>2, <2>3 DEF Only, Same
<1> HIDE DEF m
<1>3. /\ Only(m, i, c) /\ i.current = m.current /\ i.calls = m.calls /\ i.state[c] = "Released"
      /\ i.log = m.log /\ i \in CoreType
  <2>1. i \in CoreType
    BY <1>1, <1>2, StateIsKeeps DEF Keeps
  <2>2. /\ i.current = m.current /\ i.calls = m.calls /\ i.prev = m.prev /\ i.log = m.log
        /\ i.op = m.op /\ i.ct = m.ct /\ i.pend = m.pend /\ i.dir = m.dir /\ i.err = m.err
        /\ i.replaces = m.replaces /\ i.state = [m.state EXCEPT ![c] = "Released"]
    BY <1>2 DEF StateIs, CoreType
  <2> HIDE DEF i
  <2>3. i.state[c] = "Released" /\ \A d \in Call \ {c} : i.state[d] = m.state[d]
    BY <1>2, <2>2 DEF CoreType
  <2> QED BY <2>1, <2>2, <2>3 DEF Only, Same
<1> HIDE DEF i
<1>4. /\ Only(i, n, c) /\ n.current = i.current /\ n.calls = i.calls /\ n.state = i.state
      /\ n.log = i.log /\ n.op[c] = "none" /\ n.ct[c] = "none" /\ n.pend[c] = {}
      /\ n.replaces[c] = NoCall /\ n \in CoreType
  <2>1. n \in CoreType
    BY <1>3, NoOperationKeeps DEF Keeps
  <2>2. /\ n.current = i.current /\ n.calls = i.calls /\ n.prev = i.prev /\ n.log = i.log
        /\ n.state = i.state /\ n.dir = i.dir /\ n.err = i.err
        /\ n.op = [i.op EXCEPT ![c] = "none"] /\ n.ct = [i.ct EXCEPT ![c] = "none"]
        /\ n.pend = [i.pend EXCEPT ![c] = {}] /\ n.replaces = [i.replaces EXCEPT ![c] = NoCall]
    BY <1>3 DEF NoOperation, CoreType
  <2> HIDE DEF n
  <2>3. /\ n.op[c] = "none" /\ n.ct[c] = "none" /\ n.pend[c] = {} /\ n.replaces[c] = NoCall
        /\ \A d \in Call \ {c} : /\ n.op[d] = i.op[d] /\ n.ct[d] = i.ct[d]
                                 /\ n.pend[d] = i.pend[d] /\ n.replaces[d] = i.replaces[d]
    BY <1>3, <2>2 DEF CoreType
  <2> QED BY <2>1, <2>2, <2>3 DEF Only, Same
<1> HIDE DEF n
<1>5. Silent(n, r)
  BY <1>4, RefererIsSilent DEF NoReferer, Referer
<1> HIDE DEF r
<1>6. /\ Only(n, r, c) /\ r.state[c] = "Released" /\ r.log[c] = n.log[c]
      /\ r.op[c] = "none" /\ r.ct[c] = "none" /\ r.pend[c] = {} /\ r.replaces[c] = NoCall
      /\ c \notin r.calls /\ r.current \in {n.current, NoCall} /\ r \in CoreType
  BY <1>2, <1>3, <1>4, <1>5, SilentOnly DEF Silent, Same
<1>7. /\ Only(r, t, c) /\ t.current = r.current /\ t.calls = r.calls /\ t.state = r.state
      /\ t.log = r.log /\ t.op = r.op /\ t.ct = r.ct /\ t.pend = r.pend
      /\ t.replaces = r.replaces /\ t.err[c] = "none" /\ t \in CoreType
  <2>1. t \in CoreType
    BY <1>6, DestroyedKeeps DEF Keeps
  <2>2. /\ t.current = r.current /\ t.calls = r.calls /\ t.state = r.state /\ t.log = r.log
        /\ t.op = r.op /\ t.ct = r.ct /\ t.pend = r.pend /\ t.replaces = r.replaces
        /\ t.err = [r.err EXCEPT ![c] = "none"] /\ t.prev = [r.prev EXCEPT ![c] = "Idle"]
        /\ t.dir = [r.dir EXCEPT ![c] = "none"]
    BY <1>6 DEF Destroyed, CoreType
  <2> HIDE DEF t
  <2>3. /\ t.err[c] = "none"
        /\ \A d \in Call \ {c} : /\ t.err[d] = r.err[d] /\ t.prev[d] = r.prev[d]
                                 /\ t.dir[d] = r.dir[d]
    BY <1>6, <2>2 DEF CoreType
  <2> QED BY <2>1, <2>2, <2>3 DEF Only, Same
<1>8. SetState(q, c, "Released") = t
  <2>1. SetState(q, c, "Released") = Entered(q, c, "Released")
    BY <1>1 DEF SetState
  <2>2. Entered(q, c, "Released") = ReleasedCall(i, c)
    BY <1>1 DEF Entered, i, m
  <2>3. c \notin i.calls
    BY <1>2, <1>3
  <2> QED BY <2>1, <2>2, <2>3 DEF ReleasedCall, r, n
<1> HIDE DEF t
<1>9. Only(s, t, c)
  BY <1>2, <1>3, <1>4, <1>6, <1>7, SilentOnly
<1>10. OpFits("Released", "none")
       /\ "Released" \notin Live \cup Transient \cup Answered
  BY DEF OpFits, Live, CallState, Ended, Answered, Alerting, AwaitingAnswer, Outgoing, Transient
<1>11. CallFits(t, c)
  BY <1>6, <1>7, <1>10, NoCallAssumption DEF CallFits, ListFits, RequestFits, OfferFits, PrevFits, LogFits
<1>12. t.log[c] = q.log[c] /\ (t.current = c => "appHangup" \in Faults)
  BY <1>2, <1>3, <1>4, <1>6, <1>7, NoCallAssumption
<1> QED BY <1>8, <1>9, <1>11, <1>12, OnlyLeads

\* call_released()
LEMMA ReleasedLeads ==
  ASSUME NEW s, NEW c \in Call, Consistent(s), s.op[c] \in {"cancelling", "terminating"}
  PROVE  Leads(s, SetState(s, c, "Released"))
<1>1. s.state[c] \in Ended /\ c \notin s.calls /\ Only(s, s, c)
  BY PhaseStates, RingIsSilent, SilentOnly DEF Consistent
<1>2. s.current = c => "appHangup" \in Faults
  BY <1>1, NoCallAssumption DEF Consistent, CurrentFits
<1> QED BY <1>1, <1>2, ReleaseLeads

\* call_terminated(): the call is over, its operation is not.
LEMMA CallTerminatedOnly ==
  ASSUME NEW s, NEW c \in Call, Consistent(s), s.state[c] # "Released"
  PROVE  LET x == CallTerminated(s, c)
         IN  /\ Only(s, x, c) /\ x.state[c] \in Ended /\ c \notin x.calls
             /\ x.replaces[c] # c
             /\ x.current = c => "appHangup" \in Faults
             /\ s.log[c] = "success" => x.log[c] = "success"
<1> DEFINE e == IF s.state[c] \in Alerting THEN EndReason(s, c, "timeout") ELSE s
           r == IF Cardinality(s.calls) = 1 \/ s.current # NoCall THEN StopRinging(e) ELSE e
           q == StopStreams(r, c)
           t == SetState(q, c, "End")
           x == CallTerminated(s, c)
<1>1. s \in CoreType /\ CallFits(s, c)
  BY DEF Consistent
<1>2. CASE s.state[c] \in Ended
  <2>1. x = s
    BY <1>2 DEF CallTerminated
  <2>2. c \notin s.calls /\ Only(s, s, c) /\ s.replaces[c] # c
    BY <1>1, <1>2, PhaseStates, RingIsSilent, SilentOnly DEF CallFits
  <2>3. s.current = c => "appHangup" \in Faults
    BY <2>2, NoCallAssumption DEF Consistent, CurrentFits
  <2> QED BY <1>2, <2>1, <2>2, <2>3
<1>3. CASE s.state[c] \notin Ended
  <2>1. x = t
    BY <1>3 DEF CallTerminated
  <2>2. /\ Only(s, e, c) /\ e.state = s.state /\ e.log = s.log /\ e.replaces = s.replaces
        /\ s.state[c] \notin Alerting => e.err = s.err
        /\ e \in CoreType
    <3>1. Only(s, s, c)
      BY <1>1, RingIsSilent, SilentOnly
    <3> QED BY <1>1, <3>1, EndReasonOnly DEF Only
  <2> HIDE DEF e
  <2>3. Silent(e, r) /\ r \in CoreType
    BY <2>2, RingIsSilent DEF Silent
  <2> HIDE DEF r
  <2>4. Silent(e, q) /\ q \in CoreType
    BY <2>3, MediaIsSilent, SilentTrans DEF Silent
  <2> HIDE DEF q
  <2>5. /\ Only(s, q, c) /\ q.state[c] = s.state[c] /\ q.log[c] = s.log[c]
        /\ q.replaces[c] = s.replaces[c] /\ q.err[c] = e.err[c]
    BY <2>2, <2>4, SilentOnly DEF Silent, Same
  <2>6. "End" \in CallState \ {"Released"} /\ "End" \in Ended /\ "End" # "Connected"
    BY DEF CallState, Ended
  <2>7. /\ Only(q, t, c) /\ t.state[c] = "End" /\ t.replaces[c] = q.replaces[c]
        /\ c \notin t.calls /\ t.current # c
        /\ q.err[c] = "none" => t.log[c] = q.log[c]
    BY <1>3, <2>4, <2>5, <2>6, SetStateMoves
  <2> HIDE DEF t
  <2>8. s.log[c] = "success" => t.log[c] = "success"
    <3>1. s.state[c] \in Alerting => s.log[c] # "success"
      BY AlertingRow
    <3>2. s.err[c] = "none"
      BY <1>1, <1>3 DEF CallFits, LogFits
    <3> QED BY <2>2, <2>5, <2>7, <3>1, <3>2
  <2>9. Only(s, t, c) /\ t.replaces[c] # c
    BY <1>1, <2>5, <2>7, SilentOnly DEF CallFits
  <2> HIDE DEF x
  <2> QED BY <2>1, <2>6, <2>7, <2>8, <2>9 DEF x
<1> HIDE DEF x
<1> QED BY <1>2, <1>3 DEF x

\* BYE, or the end of the dialog, and CANCEL
LEMMA DialogEndLeads ==
  ASSUME NEW s, NEW c \in Call, Consistent(s), s.op[c] \in {"active", "ringing"}
  PROVE  Leads(s, Closing(CallTerminated(s, c), c))
<1>1. s.state[c] # "Released"
  BY DEF Consistent, CallFits, OpFits
<1> QED BY <1>1, CallTerminatedOnly, ClosingLeads

\* The fatal end of call_failure(): the call is over, its operation is not.
LEMMA FailedCallOnly ==
  ASSUME NEW s, NEW f, NEW c \in Call, NEW reason, Consistent(s), Silent(s, f),
         f.retries = s.retries, s.state[c] # "Released"
  PROVE  LET x == FailedCall(f, c, reason)
         IN  /\ Only(s, x, c) /\ x.state[c] \in Ended /\ c \notin x.calls
             /\ x.replaces[c] # c /\ x.op[c] = s.op[c] /\ x.ct[c] = s.ct[c]
             /\ x.current = c => "appHangup" \in Faults
             /\ s.log[c] = "success" => x.log[c] = "success"
             /\ x.retries = s.retries
<1> DEFINE r == StopRinging(f)
           q == StopStreams(r, c)
           t == IF f.state[c] \in Ended THEN q
                ELSE SetState(q, c, IF reason = "declined" THEN "End" ELSE "Error")
           x == FailedCall(f, c, reason)
<1>1. s \in CoreType /\ CallFits(s, c) /\ f \in CoreType
  BY DEF Consistent, Silent
<1>2. Silent(s, r) /\ r.retries = s.retries /\ r \in CoreType
  <2>1. Silent(s, r) /\ r \in CoreType
    BY <1>1, RingIsSilent, SilentTrans DEF Silent
  <2> QED BY <1>1, <2>1 DEF StopRinging, CoreType
<1> HIDE DEF r
<1>3. Silent(s, q) /\ q.retries = s.retries /\ q \in CoreType
  <2>1. Silent(s, q) /\ q \in CoreType
    BY <1>2, MediaIsSilent, SilentTrans DEF Silent
  <2> QED BY <1>2, <2>1 DEF StopStreams, CoreType
<1> HIDE DEF q
<1>4. /\ Only(s, q, c) /\ q.state[c] = s.state[c] /\ q.op[c] = s.op[c] /\ q.ct[c] = s.ct[c]
      /\ q.replaces[c] = s.replaces[c] /\ q.log[c] = s.log[c] /\ q.err[c] = s.err[c]
      /\ c \in q.calls <=> c \in s.calls
  BY <1>3, SilentOnly DEF Silent, Same
<1>5. f.state[c] = s.state[c] /\ s.replaces[c] # c
  BY <1>1 DEF Silent, Same, CallFits
<1>6. /\ Only(s, t, c) /\ t.state[c] \in Ended /\ c \notin t.calls
      /\ t.replaces[c] # c /\ t.op[c] = s.op[c] /\ t.ct[c] = s.ct[c]
      /\ t.current = c => "appHangup" \in Faults
      /\ s.log[c] = "success" => t.log[c] = "success"
      /\ t.retries = s.retries
  <2>1. CASE s.state[c] \in Ended
    <3>1. t = q
      BY <1>5, <2>1
    <3>2. c \notin s.calls
      BY <2>1, PhaseStates
    <3>3. q.current = c => "appHangup" \in Faults
      <4>1. q.current \in {s.current, NoCall}
        BY <1>3 DEF Silent
      <4>2. s.current = c => "appHangup" \in Faults
        BY <3>2, NoCallAssumption DEF Consistent, CurrentFits
      <4> QED BY <4>1, <4>2, NoCallAssumption
    <3> HIDE DEF t
    <3> QED BY <1>3, <1>4, <1>5, <2>1, <3>1, <3>2, <3>3
  <2>2. CASE s.state[c] \notin Ended
    <3> DEFINE new == IF reason = "declined" THEN "End" ELSE "Error"
    <3>1. t = SetState(q, c, new)
      BY <1>5, <2>2
    <3>2. new \in CallState \ {"Released"} /\ new \in Ended /\ new # "Connected"
      BY DEF CallState, Ended
    <3> HIDE DEF new, t
    <3>3. /\ Only(q, t, c) /\ t.state[c] = new /\ t.replaces[c] = q.replaces[c]
          /\ c \notin t.calls /\ t.current # c /\ t.op[c] = q.op[c] /\ t.ct[c] = q.ct[c]
          /\ q.err[c] = "none" => t.log[c] = q.log[c]
          /\ t.retries = q.retries
      BY <1>3, <1>4, <2>2, <3>1, <3>2, SetStateMoves
    <3>4. s.err[c] = "none"
      BY <1>1, <2>2 DEF CallFits, LogFits
    <3>5. Only(s, t, c)
      BY <1>4, <3>3, SilentOnly
    <3> QED BY <1>3, <1>4, <1>5, <3>2, <3>3, <3>4, <3>5
  <2> QED BY <2>1, <2>2
<1>7. x = IF f.referer[c] = NoCall THEN t ELSE QueueResume(t, f.referer[c])
  BY DEF FailedCall, q, r
<1> HIDE DEF t, x
<1>8. CASE f.referer[c] = NoCall
  BY <1>6, <1>7, <1>8 DEF x
<1>9. CASE f.referer[c] # NoCall
  <2>1. f.referer[c] \in Call /\ t \in CoreType
    BY <1>1, <1>6, <1>9 DEF CoreType, Only
  <2>2. x = QueueResume(t, f.referer[c])
    BY <1>7, <1>9
  <2>3. Silent(t, x)
    BY <2>1, <2>2, MediaIsSilent
  <2>4. x.retries = t.retries /\ x.current = t.current
    BY <2>1, <2>2 DEF QueueResume, CoreType
  <2>5. /\ Only(t, x, c) /\ x.state[c] = t.state[c] /\ x.op[c] = t.op[c] /\ x.ct[c] = t.ct[c]
        /\ x.replaces[c] = t.replaces[c] /\ x.log[c] = t.log[c]
        /\ c \in x.calls <=> c \in t.calls
    BY <2>3, SilentOnly DEF Silent, Same
  <2>6. Only(s, x, c)
    BY <1>6, <2>5, SilentOnly
  <2> QED BY <1>6, <2>4, <2>5, <2>6 DEF x
<1> QED BY <1>8, <1>9

\* The fatal end of a call with a confirmed dialog
LEMMA FailedCallLeads ==
  ASSUME NEW s, NEW f, NEW c \in Call, NEW reason, Consistent(s), Silent(s, f),
         f.retries = s.retries, s.state[c] # "Released", s.op[c] = "active", s.ct[c] = "none"
  PROVE  Leads(s, FailedCall(f, c, reason))
<1> DEFINE x == FailedCall(f, c, reason)
<1>1. /\ Only(s, x, c) /\ x.state[c] \in Ended /\ c \notin x.calls
      /\ x.replaces[c] # c /\ x.op[c] = s.op[c] /\ x.ct[c] = s.ct[c]
      /\ x.current = c => "appHangup" \in Faults
      /\ s.log[c] = "success" => x.log[c] = "success"
  BY FailedCallOnly, Z3
<1> HIDE DEF x
<1>2. CallFits(x, c)
  BY <1>1, EndedFits
<1>3. Leads(s, x)
  BY <1>1, <1>2, OnlyLeads
<1> QED BY <1>3 DEF x

\* A final response refuses our re-INVITE.
LEMMA OfferRejectedLeads ==
  ASSUME NEW s, NEW c \in Call, NEW reason, NEW sent \in BOOLEAN, Consistent(s), s.ct[c] # "none"
  PROVE  Leads(s, CallFailure(RequestDone(s, c), c, reason, sent))
<1> DEFINE q == RequestDone(s, c)
           f == IF reason = "redirect" THEN StopStreams(q, c) ELSE q
<1>1. s \in CoreType /\ s.op[c] = "active" /\ s.state[c] \in Settling \ {"Paused"}
      /\ s.prev[c] \in Settling
  BY DEF Consistent, CallFits, RequestFits
<1>2. /\ Leads(s, q) /\ q.state = s.state /\ q.prev = s.prev /\ q.op = s.op /\ q.ct[c] = "none"
  BY <1>1, RequestDoneLeads, RequestDoneOnly
<1>3. q.state[c] \notin Outgoing /\ q.state[c] # "Released"
  BY <1>1, <1>2 DEF Settling, Answered, Outgoing
<1>4. CallFailure(q, c, reason, sent)
        \in {SetState(q, c, q.prev[c]), SetState(f, c, q.prev[c]), FailedCall(f, c, reason)}
  BY <1>3 DEF CallFailure
<1> HIDE DEF q
<1>5. Consistent(q) /\ q \in CoreType
  BY <1>2 DEF Leads, Consistent
<1>6. Silent(q, f) /\ f.retries = q.retries /\ Leads(q, f)
  <2>1. Silent(q, q) /\ Silent(q, StopStreams(q, c))
    BY <1>5, RingIsSilent, MediaIsSilent
  <2>2. StopStreams(q, c).retries = q.retries
    BY <1>5 DEF StopStreams, CoreType
  <2>3. Silent(q, f) /\ f.retries = q.retries
    BY <2>1, <2>2
  <2> QED BY <1>5, <2>3, SilentLeads
<1> HIDE DEF f
<1>7. Leads(q, SetState(q, c, q.prev[c]))
  BY <1>1, <1>2, <1>5, RestoreLeads
<1>8. Leads(q, SetState(f, c, q.prev[c]))
  <2>1. /\ Consistent(f) /\ f.prev[c] = q.prev[c] /\ f.op[c] = q.op[c] /\ f.state[c] = q.state[c]
        /\ f.ct[c] = "none"
    BY <1>2, <1>6 DEF Leads, Silent, Same
  <2>2. Leads(f, SetState(f, c, f.prev[c]))
    BY <1>1, <1>2, <2>1, RestoreLeads
  <2> QED BY <1>6, <2>1, <2>2, LeadsTrans
<1>9. Leads(q, FailedCall(f, c, reason))
  BY <1>1, <1>2, <1>3, <1>5, <1>6, FailedCallLeads
<1>10. Leads(q, CallFailure(q, c, reason, sent))
  BY <1>4, <1>7, <1>8, <1>9
<1> QED BY <1>2, <1>10, LeadsTrans DEF q

LEMMA RestartInviteRetries ==
  ASSUME NEW s, NEW c \in Call, NEW sent \in BOOLEAN, Consistent(s), s.state[c] \in Outgoing,
         s.retries[c] < MaxRetries
  PROVE  RestartInvite(s, c, sent).retries[c] # s.retries[c]
<1> DEFINE f == StopStreams(s, c)
           n == NextOperation(f, c)
           q == IF sent THEN Operation(n, c, "inviting") ELSE StopStreams(n, c)
           new == IF sent THEN "OutgoingProgress" ELSE "Error"
           t == SetState(q, c, new)
<1>1. s \in CoreType /\ "inviting" \in OpPhase
  BY DEF Consistent, OpPhase
<1>2. RestartInvite(s, c, sent) = t
  BY DEF RestartInvite, StartInvite
<1>3. f \in CoreType /\ f.retries = s.retries /\ f.state = s.state
  <2>1. f \in CoreType
    BY <1>1, StopStreamsKeeps DEF Keeps
  <2> QED BY <1>1, <2>1 DEF StopStreams, CoreType
<1> HIDE DEF f
<1>4. n \in CoreType /\ n.state = f.state /\ n.retries = [f.retries EXCEPT ![c] = @ + 1]
  <2>1. n \in CoreType
    BY <1>3, NextOperationKeeps DEF Keeps
  <2> QED BY <1>3, <2>1 DEF NextOperation, CoreType
<1> HIDE DEF n
<1>5. q \in CoreType /\ q.state = n.state /\ q.retries = n.retries
  <2>1. CASE sent
    BY <1>1, <1>4, <2>1, OperationOnly DEF Only
  <2>2. CASE ~ sent
    <3>1. q \in CoreType
      BY <1>4, <2>2, StopStreamsKeeps DEF Keeps
    <3> QED BY <1>4, <2>2, <3>1 DEF StopStreams, CoreType
  <2> QED BY <2>1, <2>2
<1> HIDE DEF q
<1>6. t.retries = q.retries
  <2>1. CASE q.state[c] = new
    BY <2>1 DEF SetState
  <2>2. CASE q.state[c] # new
    <3>1. q.state[c] \notin Ended /\ new \in CallState \ {"Released"}
      BY <1>3, <1>4, <1>5 DEF Outgoing, Ended, CallState
    <3> QED BY <1>5, <2>2, <3>1, SetStateMoves
  <2> QED BY <2>1, <2>2
<1> HIDE DEF t
<1>7. t.retries[c] = s.retries[c] + 1
  BY <1>1, <1>3, <1>4, <1>5, <1>6 DEF CoreType
<1>8. s.retries[c] \in 0..MaxRetries
  BY <1>1 DEF CoreType
<1> QED BY <1>2, <1>7, <1>8, BoundAssumption

\* An error response to our INVITE
LEMMA InviteFailedLeads ==
  ASSUME NEW s, NEW c \in Call, NEW reason, NEW sent \in BOOLEAN, reason # "pending",
         Consistent(s), s.op[c] \in {"inviting", "early"}
  PROVE  LET f == CallFailure(s, c, reason, sent)
         IN  Leads(s, IF f.retries[c] # s.retries[c] THEN f
                      ELSE IF s.op[c] = "inviting" THEN SetState(RequestDone(f, c), c, "Released")
                      ELSE Closing(f, c))
<1> DEFINE g == IF reason = "redirect" THEN StopStreams(s, c) ELSE s
           retry == /\ reason \in {"redirect", "notacceptable"}
                    /\ s.state[c] \in Outgoing /\ s.retries[c] < MaxRetries
           f == CallFailure(s, c, reason, sent)
<1>1. s \in CoreType /\ s.state[c] \in AwaitingAnswer \cup {"EarlyUpdatedByRemote"}
  BY PhaseStates DEF Consistent
<1>2. s.state[c] \notin Transient \cup {"Released"}
  BY <1>1 DEF AwaitingAnswer, Outgoing, Transient
<1>3. /\ retry => f = RestartInvite(g, c, sent)
      /\ ~ retry => f = FailedCall(g, c, reason)
  BY <1>2 DEF CallFailure
<1>4. Silent(s, g) /\ g.retries = s.retries /\ Leads(s, g) /\ Consistent(g) /\ g.state[c] = s.state[c]
  <2>1. Silent(s, s) /\ Silent(s, StopStreams(s, c))
    BY <1>1, RingIsSilent, MediaIsSilent
  <2>2. StopStreams(s, c).retries = s.retries
    BY <1>1 DEF StopStreams, CoreType
  <2>3. Silent(s, g) /\ g.retries = s.retries
    BY <2>1, <2>2
  <2> HIDE DEF g
  <2>4. Leads(s, g)
    BY <2>3, SilentLeads
  <2> QED BY <2>3, <2>4 DEF Leads, Silent, Same
<1> HIDE DEF g, f
<1>5. CASE retry
  <2>1. f.retries[c] # s.retries[c]
    BY <1>3, <1>4, <1>5, RestartInviteRetries
  <2>2. Leads(g, f)
    BY <1>3, <1>4, <1>5, RestartInviteLeads
  <2>3. Leads(s, f)
    BY <1>4, <2>2, LeadsTrans
  <2> QED BY <2>1, <2>3 DEF f
<1>6. CASE ~ retry
  <2>1. f = FailedCall(g, c, reason)
    BY <1>3, <1>6
  <2>2. /\ Only(s, f, c) /\ f.state[c] \in Ended /\ c \notin f.calls
        /\ f.replaces[c] # c
        /\ f.current = c => "appHangup" \in Faults
        /\ s.log[c] = "success" => f.log[c] = "success"
        /\ f.retries = s.retries
    <3> DEFINE x == FailedCall(g, c, reason)
    <3>1. /\ Only(s, x, c) /\ x.state[c] \in Ended /\ c \notin x.calls
          /\ x.replaces[c] # c
          /\ x.current = c => "appHangup" \in Faults
          /\ s.log[c] = "success" => x.log[c] = "success"
          /\ x.retries = s.retries
      <4>1. Consistent(s) /\ Silent(s, g) /\ g.retries = s.retries /\ s.state[c] # "Released"
        BY <1>2, <1>4
      <4> QED BY <4>1, FailedCallOnly, Z3
    <3> QED BY <2>1, <3>1
  <2>3. Leads(s, Closing(f, c))
    BY <2>2, ClosingLeads
  <2>4. Leads(s, SetState(RequestDone(f, c), c, "Released"))
    <3> DEFINE d == RequestDone(f, c)
    <3>1. /\ Only(f, d, c) /\ d.state = f.state /\ d.calls = f.calls /\ d.current = f.current
          /\ d.log = f.log
      BY <2>2, RequestDoneOnly DEF Only
    <3> HIDE DEF d
    <3>2. Only(s, d, c)
      BY <2>2, <3>1, SilentOnly
    <3>3. Leads(s, SetState(d, c, "Released"))
      BY <2>2, <3>1, <3>2, ReleaseLeads
    <3> QED BY <3>3 DEF d
  <2> QED BY <2>2, <2>3, <2>4 DEF f
<1> QED BY <1>5, <1>6

\* The transaction of an INVITE we no longer want times out.
LEMMA CancelledTimeoutLeads ==
  ASSUME NEW s, NEW c \in Call, Consistent(s), s.op[c] = "cancelling"
  PROVE  Leads(s, SetState(CallFailure(s, c, "other", TRUE), c, "Released"))
<1>1. s \in CoreType /\ s.state[c] \in Ended
  BY PhaseStates DEF Consistent
<1>2. s.state[c] \notin Transient \cup Outgoing \cup {"Released"}
  BY <1>1 DEF Ended, Transient, Outgoing
<1>3. CallFailure(s, c, "other", TRUE) = FailedCall(s, c, "other")
  BY <1>2 DEF CallFailure
<1>4. Silent(s, s)
  BY <1>1, RingIsSilent
<1> DEFINE f == FailedCall(s, c, "other")
<1>5. /\ Only(s, f, c) /\ f.state[c] \in Ended /\ c \notin f.calls
      /\ f.current = c => "appHangup" \in Faults
      /\ s.log[c] = "success" => f.log[c] = "success"
  BY <1>2, <1>4, FailedCallOnly
<1> HIDE DEF f
<1>6. Leads(s, SetState(f, c, "Released"))
  BY <1>5, ReleaseLeads
<1> QED BY <1>3, <1>6 DEF f

\* The user let it ring too long.
LEMMA IncomingTimeoutLeads ==
  ASSUME NEW s, NEW c \in Call, Consistent(s), s.state[c] \in Alerting
  PROVE  Leads(s, DeclineCall(EndReason(LogStatus(s, c, "missed"), c, "timeout"), c))
<1> DEFINE m == LogStatus(s, c, "missed")
           q == EndReason(m, c, "timeout")
<1>1. s \in CoreType /\ s.log[c] # "success" /\ s.replaces[c] # c
  BY AlertingRow DEF Consistent
<1>2. Only(s, m, c) /\ m.state = s.state /\ m.replaces = s.replaces /\ m \in CoreType
  <2>1. m \in CoreType
    BY <1>1, LogStatusKeeps DEF Keeps
  <2>2. /\ m.current = s.current /\ m.calls = s.calls
        /\ m.state = s.state /\ m.prev = s.prev /\ m.dir = s.dir /\ m.op = s.op /\ m.ct = s.ct
        /\ m.pend = s.pend /\ m.err = s.err /\ m.replaces = s.replaces
        /\ m.log = [s.log EXCEPT ![c] = "missed"]
    BY <1>1 DEF LogStatus, CoreType
  <2> HIDE DEF m
  <2>3. \A d \in Call \ {c} : m.log[d] = s.log[d]
    BY <1>1, <2>2 DEF CoreType
  <2> QED BY <2>1, <2>2, <2>3 DEF Only, Same
<1> HIDE DEF m
<1>3. Only(m, q, c) /\ q.state = m.state /\ q.replaces = m.replaces
  BY <1>2, EndReasonOnly
<1> HIDE DEF q
<1>4. Only(s, q, c) /\ q.state[c] \in Alerting /\ q.replaces[c] # c
  BY <1>1, <1>2, <1>3, SilentOnly
<1>5. Leads(s, DeclineCall(q, c))
  BY <1>1, <1>4, DeclineCallLeads
<1> QED BY <1>5 DEF q, m

\* resume_call_after_failed_transfer()
LEMMA ResumeTaskLeads ==
  ASSUME NEW s, NEW c \in Call, Consistent(s)
  PROVE  Leads(s, ResumeTask(s, c))
<1> DEFINE q == DequeueResume(s, c)
<1>1. s \in CoreType
  BY DEF Consistent
<1>2. ResumeTask(s, c) \in {q, ResumeCall(q, c)}
  BY DEF ResumeTask
<1>3. Leads(s, q)
  BY <1>1, MediaIsSilent, SilentLeads
<1> HIDE DEF q
<1>4. Leads(q, ResumeCall(q, c))
  BY <1>3, ResumeCallLeads DEF Leads
<1> QED BY <1>2, <1>3, <1>4, LeadsTrans

-----------------------------------------------------------------------------
(* Updates                                                                 *)

\* linphone_core_update_call() of a running call
LEMMA UpdateCallLeads ==
  ASSUME NEW s, NEW c \in Call, NEW regather \in BOOLEAN, Consistent(s), s.state[c] = "StreamsRunning"
  PROVE  Leads(s, UpdateCall(s, c, regather))
<1> DEFINE u == SetState(s, c, "Updating")
<1>1. /\ s.op[c] = "active" /\ s.state[c] \in Settling
      /\ "Updating" \in Settling \ {"Paused", "UpdatedByRemote"}
  BY DEF Consistent, CallFits, OpFits, Settling, Answered
<1>2. Leads(s, u) /\ u.state[c] = "Updating"
  BY <1>1, MoveAnswered
<1>3. UpdateCall(s, c, regather) \in {Gathering(u, c, TRUE), SalUpdate(u, c, "reinvite")}
  BY DEF UpdateCall
<1> HIDE DEF u
<1>4. Consistent(u) /\ u \in CoreType /\ "reinvite" \in Request
  BY <1>2 DEF Leads, Consistent, Request
<1>5. Leads(u, Gathering(u, c, TRUE))
  BY <1>4, MediaIsSilent, SilentLeads
<1>6. Leads(u, SalUpdate(u, c, "reinvite"))
  BY <1>2, <1>4, SalUpdateLeads DEF Transient
<1>7. Leads(s, Gathering(u, c, TRUE)) /\ Leads(s, SalUpdate(u, c, "reinvite"))
  BY <1>2, <1>5, <1>6, LeadsTrans
<1> QED BY <1>3, <1>7

\* Nothing but what the far end asks for of call c, and offers, changes.
Asks(s, t, c) ==
  /\ t \in CoreType
  /\ t.state = s.state /\ t.prev = s.prev /\ t.op = s.op /\ t.ct = s.ct /\ t.dir = s.dir
  /\ t.err = s.err /\ t.log = s.log /\ t.replaces = s.replaces
  /\ t.calls = s.calls /\ t.current = s.current
  /\ \A d \in Call \ {c} : t.pend[d] = s.pend[d]

LEMMA OfferMadeAsks ==
  ASSUME NEW s \in CoreType, NEW c \in Call, NEW request \in PeerRequest, NEW offer \in Offer
  PROVE  LET t == OfferMade(s, c, request, offer)
         IN  Asks(s, t, c) /\ t.pend[c] = s.pend[c] \cup {request} /\ t.rmd[c] = offer
<1> DEFINE t == OfferMade(s, c, request, offer)
<1>1. t \in CoreType
  BY OfferMadeKeeps DEF Keeps
<1>2. /\ t.state = s.state /\ t.prev = s.prev /\ t.op = s.op /\ t.ct = s.ct /\ t.dir = s.dir
      /\ t.err = s.err /\ t.log = s.log /\ t.replaces = s.replaces
      /\ t.calls = s.calls /\ t.current = s.current
      /\ t.pend = [s.pend EXCEPT ![c] = @ \cup {request}]
      /\ t.rmd = [s.rmd EXCEPT ![c] = offer]
  BY DEF OfferMade, CoreType
<1> HIDE DEF t
<1> QED BY <1>1, <1>2 DEF Asks, CoreType, t

LEMMA SalAcceptAsks ==
  ASSUME NEW s \in CoreType, NEW c \in Call, s.op[c] # "ringing" \/ "update" \in s.pend[c]
  PROVE  LET t == SalAccept(s, c)
         IN  /\ Asks(s, t, c)
             /\ "update" \in s.pend[c] => t.pend[c] = s.pend[c] \ {"update"}
<1> DEFINE t == SalAccept(s, c)
<1>1. t \in CoreType
  BY SalAcceptKeeps DEF Keeps
<1>2. CASE "update" \in s.pend[c]
  <2>1. t = [s EXCEPT !.pend[c] = @ \ {"update"}]
    BY <1>2 DEF SalAccept
  <2>2. /\ t.state = s.state /\ t.prev = s.prev /\ t.op = s.op /\ t.ct = s.ct /\ t.dir = s.dir
        /\ t.err = s.err /\ t.log = s.log /\ t.replaces = s.replaces
        /\ t.calls = s.calls /\ t.current = s.current
        /\ t.pend = [s.pend EXCEPT ![c] = @ \ {"update"}]
    BY <2>1 DEF CoreType
  <2> HIDE DEF t
  <2> QED BY <1>1, <2>2 DEF Asks, CoreType, t
<1>3. CASE "update" \notin s.pend[c] /\ s.pend[c] = {"invite"}
  <2>1. t = [s EXCEPT !.pend[c] = {}, !.op[c] = s.op[c]]
    BY <1>3 DEF SalAccept
  <2>2. /\ t.state = s.state /\ t.prev = s.prev /\ t.ct = s.ct /\ t.dir = s.dir
        /\ t.err = s.err /\ t.log = s.log /\ t.replaces = s.replaces
        /\ t.calls = s.calls /\ t.current = s.current
        /\ t.pend = [s.pend EXCEPT ![c] = {}] /\ t.op = [s.op EXCEPT ![c] = s.op[c]]
    BY <2>1 DEF CoreType
  <2> HIDE DEF t
  <2>3. t.op = s.op
    BY <2>2 DEF CoreType
  <2> QED BY <1>1, <1>3, <2>2, <2>3 DEF Asks, CoreType, t
<1>4. CASE "update" \notin s.pend[c] /\ s.pend[c] # {"invite"}
  <2>1. t = s
    BY <1>4 DEF SalAccept
  <2> QED BY <1>1, <1>4, <2>1 DEF Asks
<1> QED BY <1>2, <1>3, <1>4

LEMMA SalDeclineAsks ==
  ASSUME NEW s \in CoreType, NEW c \in Call, s.op[c] # "ringing"
  PROVE  Asks(s, SalDecline(s, c), c)
<1> DEFINE t == SalDecline(s, c)
<1>1. t \in CoreType
  BY SalDeclineKeeps DEF Keeps
<1>2. t \in {[s EXCEPT !.pend[c] = @ \ {"invite"}], [s EXCEPT !.pend[c] = {}]}
  BY DEF SalDecline, NothingPending
<1>3. /\ t.state = s.state /\ t.prev = s.prev /\ t.op = s.op /\ t.ct = s.ct /\ t.dir = s.dir
      /\ t.err = s.err /\ t.log = s.log /\ t.replaces = s.replaces
      /\ t.calls = s.calls /\ t.current = s.current
      /\ t.pend \in {[s.pend EXCEPT ![c] = @ \ {"invite"}], [s.pend EXCEPT ![c] = {}]}
  BY <1>2 DEF CoreType
<1> HIDE DEF t
<1> QED BY <1>1, <1>3 DEF Asks, CoreType, t

\* In a call of ours, or one that was answered, the requests of the far end are no
\* concern of the call list.
LEMMA AsksLeads ==
  ASSUME NEW s, NEW t, NEW c \in Call, Consistent(s), Asks(s, t, c),
         s.op[c] \in {"active", "early"},
         s.state[c] = "EarlyUpdatedByRemote" => s.op[c] = "active"
  PROVE  Leads(s, t)
<1>1. CallFits(s, c)
  BY DEF Consistent
<1>2. CallFits(t, c)
  BY <1>1 DEF Asks, CallFits, ListFits, RequestFits, OfferFits, PrevFits, LogFits
<1>3. Only(s, t, c)
  BY DEF Asks, Only, Same
<1>4. t.current = c => c \in t.calls \/ "appHangup" \in Faults
  BY NoCallAssumption DEF Asks, Consistent, CurrentFits
<1> QED BY <1>2, <1>3, <1>4, OnlyLeads DEF Asks

\* linphone_core_start_accept_call_update() in a confirmed dialog
LEMMA StartAcceptUpdateLeads ==
  ASSUME NEW s, NEW c \in Call, NEW next \in Settling \ {"Paused"}, Consistent(s),
         s.op[c] = "active",
         s.state[c] \in Settling \cup {"Connected", "EarlyUpdatedByRemote"},
         next \in Transient => s.state[c] \in Settling,
         next = "UpdatedByRemote" => s.state[c] \in Settling \ {"Paused"}
  PROVE  Leads(s, StartAcceptUpdate(s, c, next))
<1> DEFINE a == SalAccept(s, c)
           v == IF s.rmd[c] = "nosdp" THEN a ELSE UpdateStreams(a, c, DirOfOffer(s.rmd[c]))
<1>1. s \in CoreType /\ StartAcceptUpdate(s, c, next) = SetState(v, c, next)
  BY DEF Consistent, StartAcceptUpdate
<1>2. Leads(s, a) /\ Asks(s, a, c)
  BY <1>1, SalAcceptAsks, AsksLeads
<1> HIDE DEF a
<1>3. Consistent(a) /\ a.state[c] = s.state[c] /\ a.state[c] \notin {"Idle", "IncomingReceived"}
  BY <1>2 DEF Leads, Asks, Settling, Answered
<1>4. Leads(a, v) /\ v.state = a.state /\ v.op = a.op
  <2>1. s.rmd[c] # "nosdp" =>
          /\ Leads(a, UpdateStreams(a, c, DirOfOffer(s.rmd[c])))
          /\ UpdateStreams(a, c, DirOfOffer(s.rmd[c])).state = a.state
          /\ UpdateStreams(a, c, DirOfOffer(s.rmd[c])).op = a.op
    BY <1>1, <1>3, AnswerOfferLeads
  <2>2. Leads(a, a)
    BY <1>3, LeadsSelf
  <2> QED BY <2>1, <2>2
<1> HIDE DEF v
<1>5. Consistent(v) /\ v.state[c] = s.state[c] /\ v.op[c] = "active"
  BY <1>2, <1>4 DEF Leads, Asks
<1>6. Leads(v, SetState(v, c, next))
  BY <1>5, MoveAnswered
<1> QED BY <1>1, <1>2, <1>4, <1>6, LeadsTrans

\* _linphone_core_accept_call_update() in a confirmed dialog
LEMMA AcceptUpdateLeads ==
  ASSUME NEW s, NEW c \in Call, NEW next \in Settling \ {"Paused"}, NEW regather \in BOOLEAN,
         Consistent(s), s.op[c] = "active",
         s.state[c] \in Settling \cup {"Connected", "EarlyUpdatedByRemote"},
         next \in Transient => s.state[c] \in Settling,
         next = "UpdatedByRemote" => s.state[c] \in Settling \ {"Paused"}
  PROVE  Leads(s, AcceptUpdate(s, c, next, regather))
<1>1. Leads(s, Gathering(s, c, TRUE))
  BY MediaIsSilent, SilentLeads DEF Consistent
<1>2. Leads(s, StartAcceptUpdate(s, c, next))
  BY StartAcceptUpdateLeads
<1> QED BY <1>1, <1>2 DEF AcceptUpdate

\* linphone_core_accept_call_update()
LEMMA AcceptCallUpdateLeads ==
  ASSUME NEW s, NEW c \in Call, NEW regather \in BOOLEAN, Consistent(s),
         s.state[c] = "UpdatedByRemote"
  PROVE  Leads(s, AcceptUpdate(s, c, s.prev[c], regather))
<1>1. /\ s.op[c] = "active" /\ s.prev[c] \in Settling \ {"Paused"}
      /\ s.state[c] \in Settling \ {"Paused"}
  BY DEF Consistent, CallFits, OpFits, PrevFits, Settling, Answered
<1> QED BY <1>1, AcceptUpdateLeads

\* An UPDATE in a call that is not running passes through EarlyUpdatedByRemote, and
\* stays there only while it waits for the candidates of ICE.
LEMMA EarlyUpdateLeads ==
  ASSUME NEW s, NEW c \in Call, NEW offer \in Offer, NEW regather \in BOOLEAN, Consistent(s),
         regather => UseIce,
         s.state[c] \in AwaitingAnswer \cup Alerting \cup {"Connected", "Paused"},
         s.op[c] # "inviting", "update" \notin s.pend[c],
         s.op[c] = "ringing" => offer = "nosdp" \/ s.dir[c] # "none"
  PROVE  LET e == SetState(OfferMade(s, c, "update", offer), c, "EarlyUpdatedByRemote")
         IN  Leads(s, AcceptUpdate(e, c, e.prev[c], regather))
<1> DEFINE o == OfferMade(s, c, "update", offer)
           e == SetState(o, c, "EarlyUpdatedByRemote")
           a == SalAccept(e, c)
           v == IF e.rmd[c] = "nosdp" THEN a ELSE UpdateStreams(a, c, DirOfOffer(e.rmd[c]))
           t == SetState(v, c, e.prev[c])
<1>1. s \in CoreType /\ CallFits(s, c) /\ "update" \in PeerRequest
  BY DEF Consistent, PeerRequest
<1>2. /\ s.state[c] \in Live \ {"EarlyUpdatedByRemote"} /\ s.state[c] \notin Ended \cup {"Idle", "EarlyUpdatedByRemote"}
      /\ s.state[c] \in CallState \ {"Released"}
      /\ s.state[c] \notin Transient \cup {"UpdatedByRemote"}
      /\ s.state[c] \in Answered => s.state[c] \in {"Connected", "Paused"}
      /\ s.state[c] \in Alerting \cup AwaitingAnswer => s.state[c] \notin Answered \cup Ended
  BY DEF AwaitingAnswer, Outgoing, Alerting, Live, CallState, Ended, Transient, Answered
<1>3. /\ c \in s.calls /\ s.err[c] = "none" /\ s.replaces[c] # c /\ s.ct[c] = "none"
      /\ s.op[c] = "ringing" => s.log[c] # "success"
  <2>1. s.ct[c] # "none" => s.state[c] \in Settling \ {"Paused"}
    BY <1>1 DEF CallFits, RequestFits
  <2>2. s.state[c] \notin Settling \ {"Paused"}
    BY DEF AwaitingAnswer, Outgoing, Alerting, Settling, Answered
  <2> QED BY <1>2, <2>1, <2>2, LiveRow
<1>4. /\ s.op[c] \in {"early", "ringing", "active"}
      /\ s.op[c] = "early" => s.state[c] \in AwaitingAnswer
      /\ s.op[c] = "ringing" => s.state[c] \in Alerting
      /\ s.state[c] = "IncomingReceived" => s.op[c] = "ringing" /\ s.dir[c] = "none"
  BY <1>1 DEF CallFits, OpFits, OfferFits, AwaitingAnswer, Outgoing, Alerting, Answered
<1>5. /\ Asks(s, o, c) /\ o.pend[c] = s.pend[c] \cup {"update"} /\ o.rmd[c] = offer
  BY <1>1, OfferMadeAsks
<1> HIDE DEF o
<1>6. Only(s, o, c) /\ o \in CoreType
  BY <1>5 DEF Asks, Only, Same
<1>7. /\ Only(o, e, c) /\ e.state[c] = "EarlyUpdatedByRemote" /\ e.prev[c] = s.state[c]
      /\ e.op[c] = s.op[c] /\ e.ct[c] = "none" /\ e.pend[c] = s.pend[c] \cup {"update"}
      /\ e.dir[c] = s.dir[c] /\ e.err[c] = "none" /\ e.replaces[c] # c /\ c \in e.calls
      /\ e.log[c] = s.log[c] /\ e.rmd[c] = offer
  <2>1. /\ o.state[c] = s.state[c] /\ o.op[c] = s.op[c] /\ o.ct[c] = "none" /\ o.dir[c] = s.dir[c]
        /\ o.err[c] = "none" /\ o.replaces[c] # c /\ c \in o.calls /\ o.log[c] = s.log[c]
    BY <1>3, <1>5 DEF Asks
  <2>2. "EarlyUpdatedByRemote" \in CallState \ {"Released"} /\ "EarlyUpdatedByRemote" \notin Ended
    BY DEF CallState, Ended
  <2>3. e.rmd = o.rmd
    BY <1>2, <1>6, <2>1, <2>2 DEF SetState, Entered, StateIs, Remembered, CoreType
  <2> QED BY <1>2, <1>5, <1>6, <2>1, <2>2, <2>3, SetStateMoves
<1> HIDE DEF e
<1>8. Only(s, e, c) /\ e \in CoreType
  BY <1>6, <1>7, SilentOnly DEF Only
<1>9. ASSUME regather PROVE Leads(s, Gathering(e, c, TRUE))
  <2>1. OpFits(e.state[c], e.op[c]) /\ e.state[c] \in Live
    BY <1>4, <1>7 DEF OpFits, Ended, AwaitingAnswer, Outgoing, Alerting, Answered, Live, CallState
  <2>2. e.state[c] \notin Answered \cup Ended \cup Transient
    BY <1>7 DEF Answered, Ended, Transient
  <2>3. CallFits(e, c)
    BY <1>3, <1>4, <1>7, <1>9, <2>1, <2>2
       DEF CallFits, ListFits, RequestFits, OfferFits, PrevFits, LogFits
  <2>4. Leads(s, e)
    BY <1>7, <1>8, <2>3, OnlyLeads
  <2>5. Leads(e, Gathering(e, c, TRUE))
    BY <1>8, <2>4, MediaIsSilent, SilentLeads DEF Leads
  <2> QED BY <2>4, <2>5, LeadsTrans
<1>10. Leads(s, t)
  <2>1. Asks(e, a, c) /\ a.pend[c] = s.pend[c]
    <3>1. "update" \in e.pend[c] /\ e.pend[c] \ {"update"} = s.pend[c]
      BY <1>7
    <3> QED BY <1>8, <3>1, SalAcceptAsks
  <2> HIDE DEF a
  <2>2. Only(e, a, c) /\ a \in CoreType
    BY <2>1 DEF Asks, Only, Same
  <2>3. /\ Only(a, v, c) /\ v.calls = a.calls /\ v.state = a.state /\ v.prev = a.prev /\ v.op = a.op
        /\ v.ct = a.ct /\ v.pend = a.pend /\ v.err = a.err /\ v.log = a.log /\ v.replaces = a.replaces
        /\ offer = "nosdp" => v.dir = a.dir
    <3>1. CASE offer = "nosdp"
      <4>1. v = a
        BY <1>7, <3>1
      <4> QED BY <2>2, <4>1 DEF Only, Same
    <3>2. CASE offer # "nosdp"
      <4>1. v = UpdateStreams(a, c, DirOfOffer(offer)) /\ DirOfOffer(offer) \in Dir
        BY <1>7, <3>2, DirOfOfferType DEF Offer
      <4> HIDE DEF v
      <4> QED BY <2>2, <3>2, <4>1, UpdateStreamsOnly
    <3> QED BY <3>1, <3>2
  <2> HIDE DEF v
  <2>4. /\ v \in CoreType /\ Only(s, v, c)
        /\ v.state[c] = "EarlyUpdatedByRemote" /\ v.op[c] = s.op[c] /\ v.ct[c] = "none"
        /\ v.pend[c] = s.pend[c] /\ v.err[c] = "none" /\ v.log[c] = s.log[c] /\ v.replaces[c] # c
        /\ c \in v.calls
        /\ offer = "nosdp" => v.dir[c] = s.dir[c]
    <3>1. Only(s, v, c) /\ v \in CoreType
      BY <1>8, <2>2, <2>3, SilentOnly DEF Only
    <3>2. /\ a.state[c] = e.state[c] /\ a.op[c] = e.op[c] /\ a.ct[c] = e.ct[c] /\ a.dir[c] = e.dir[c]
          /\ a.err[c] = e.err[c] /\ a.log[c] = e.log[c] /\ a.replaces[c] = e.replaces[c]
          /\ a.calls = e.calls
      BY <2>1 DEF Asks
    <3> QED BY <1>7, <2>1, <2>3, <3>1, <3>2
  <2>5. "EarlyUpdatedByRemote" \notin Ended
    BY DEF Ended
  <2>6. /\ Only(v, t, c) /\ t.state[c] = s.state[c]
        /\ t.op[c] = s.op[c] /\ t.ct[c] = "none" /\ t.pend[c] = s.pend[c]
        /\ t.err[c] = "none" /\ t.replaces[c] # c /\ c \in t.calls
        /\ t.dir[c] = v.dir[c]
        /\ t.log[c] = IF s.state[c] = "Connected" THEN "success" ELSE s.log[c]
    BY <1>2, <1>7, <2>4, <2>5, SetStateMoves
  <2> HIDE DEF t
  <2>7. Only(s, t, c)
    BY <2>4, <2>6, SilentOnly
  <2>8. OpFits(t.state[c], t.op[c]) /\ ListFits(t, c) /\ RequestFits(t, c)
    BY <1>1, <1>2, <2>6 DEF CallFits, ListFits, RequestFits
  <2>9. s.op[c] = "ringing" => s.pend[c] = {"invite"} /\ s.state[c] # "Connected"
    BY <1>1, <1>2, <1>4 DEF CallFits, OfferFits, Alerting
  <2>10. OfferFits(t, c)
    BY <1>2, <1>4, <2>4, <2>6, <2>9 DEF OfferFits
  <2>11. PrevFits(t, c)
    BY <1>2, <2>6 DEF PrevFits
  <2>12. LogFits(t, c)
    BY <1>1, <1>2, <1>3, <2>6, <2>9 DEF CallFits, LogFits
  <2>13. CallFits(t, c)
    BY <2>6, <2>8, <2>10, <2>11, <2>12 DEF CallFits
  <2> QED BY <2>6, <2>7, <2>13, OnlyLeads
<1>11. AcceptUpdate(e, c, e.prev[c], regather) = IF regather THEN Gathering(e, c, TRUE) ELSE t
  BY DEF AcceptUpdate, StartAcceptUpdate
<1> QED BY <1>9, <1>10, <1>11 DEF e, o

\* An UPDATE before the call is answered
LEMMA EarlyOfferLeads ==
  ASSUME NEW s, NEW c \in Call, NEW offer \in Offer, NEW compatible \in BOOLEAN,
         NEW regather \in BOOLEAN, Consistent(s), regather => UseIce,
         s.op[c] \in {"early", "ringing"}, s.state[c] # "Idle", "update" \notin s.pend[c],
         s.op[c] = "ringing" => compatible /\ (offer = "nosdp" \/ s.dir[c] # "none")
  PROVE  Leads(s, CallUpdating(OfferMade(s, c, "update", offer), c, TRUE, compatible, FALSE, regather))
<1> DEFINE o == OfferMade(s, c, "update", offer)
           e == SetState(o, c, "EarlyUpdatedByRemote")
           x == CallUpdating(o, c, TRUE, compatible, FALSE, regather)
<1>1. s \in CoreType /\ CallFits(s, c) /\ "update" \in PeerRequest
  BY DEF Consistent, PeerRequest
<1>2. /\ s.state[c] \in AwaitingAnswer \cup Alerting
      /\ s.op[c] = "ringing" => s.state[c] \in Alerting
      /\ s.state[c] = "IncomingReceived" => s.dir[c] = "none" /\ s.op[c] = "ringing"
  <2>1. s.state[c] \in CallState
    BY <1>1 DEF CoreType
  <2>2. s.state[c] # "EarlyUpdatedByRemote"
    BY <1>1 DEF CallFits, OfferFits
  <2> QED BY <1>1, <2>1, <2>2
          DEF CallFits, OpFits, OfferFits, CallState, Ended, AwaitingAnswer, Outgoing, Alerting, Answered
<1>3. Asks(s, o, c) /\ o.rmd[c] = offer
  BY <1>1, OfferMadeAsks
<1>4. Leads(s, AcceptUpdate(e, c, e.prev[c], regather))
  BY <1>2, EarlyUpdateLeads
<1> HIDE DEF o
<1>5. /\ o.state[c] = s.state[c] /\ o.op[c] = s.op[c] /\ o \in CoreType
      /\ s.state[c] \notin {"StreamsRunning", "PausedByRemote", "Connected", "Paused", "EarlyUpdatedByRemote"}
      /\ s.state[c] \notin Transient \cup {"UpdatedByRemote"}
  BY <1>2, <1>3 DEF Asks, AwaitingAnswer, Outgoing, Alerting, Transient
<1>6. s.op[c] = "early" => Leads(s, o)
  BY <1>3, <1>5, AsksLeads
<1>7. s.op[c] = "early" => Leads(s, SalDecline(o, c))
  <2>1. ASSUME s.op[c] = "early" PROVE Leads(o, SalDecline(o, c))
    BY <1>5, <1>6, <2>1, SalDeclineAsks, AsksLeads DEF Leads
  <2> QED BY <1>6, <2>1, LeadsTrans
<1>8. \/ x = AcceptUpdate(e, c, e.prev[c], regather)
      \/ x = SalDecline(o, c) /\ ~ compatible
      \/ x = o /\ offer # "nosdp" /\ s.state[c] \notin {"OutgoingRinging", "OutgoingEarlyMedia", "IncomingEarlyMedia"}
  BY <1>3, <1>5 DEF CallUpdating, UpdatedByRemote, UpdateOffered
<1>9. s.op[c] = "ringing" /\ offer # "nosdp" => s.state[c] = "IncomingEarlyMedia"
  BY <1>2 DEF Alerting
<1> HIDE DEF x, e
<1>10. Leads(s, x)
  BY <1>4, <1>6, <1>7, <1>8, <1>9
<1> QED BY <1>10 DEF o, x

\* call_updated_by_remote() of a call that runs, or is held by the far end
LEMMA UpdatedByRemoteLeads ==
  ASSUME NEW s, NEW c \in Call, NEW isUpdate \in BOOLEAN, NEW compatible \in BOOLEAN,
         NEW deferred \in BOOLEAN, NEW regather \in BOOLEAN, Consistent(s),
         s.op[c] = "active", s.state[c] \in {"StreamsRunning", "PausedByRemote"}
  PROVE  Leads(s, UpdatedByRemote(s, c, isUpdate, compatible, deferred, regather))
<1> DEFINE u == SetState(s, c, "UpdatedByRemote")
           w == UpdateOffered(s, c, isUpdate, deferred, regather)
<1>1. s \in CoreType /\ s.state[c] \in Settling \ {"Paused"}
  BY DEF Consistent, Settling, Answered
<1>2. /\ {"UpdatedByRemote", "StreamsRunning", "PausedByRemote"} \subseteq Settling \ {"Paused"}
      /\ {"UpdatedByRemote", "StreamsRunning", "PausedByRemote"} \cap Transient = {}
  BY DEF Settling, Answered, Transient
<1>3. ASSUME s.state[c] = "StreamsRunning"
      PROVE  Leads(s, u) /\ Leads(s, AcceptUpdate(u, c, u.prev[c], regather))
  <2>1. Leads(s, u) /\ u.state[c] = "UpdatedByRemote" /\ u.op[c] = "active"
    BY <1>1, <1>2, MoveAnswered
  <2>2. u.prev[c] = "StreamsRunning"
    <3>1. "UpdatedByRemote" \in CallState \ {"Released"} /\ "StreamsRunning" \notin Ended
      BY DEF CallState, Ended
    <3> QED BY <1>1, <1>3, <3>1, SetStateMoves
  <2> HIDE DEF u
  <2>3. Leads(u, AcceptUpdate(u, c, "StreamsRunning", regather))
    BY <1>2, <2>1, AcceptUpdateLeads DEF Leads
  <2> QED BY <2>1, <2>2, <2>3, LeadsTrans
<1>4. s.state[c] = "PausedByRemote" => Leads(s, AcceptUpdate(s, c, "PausedByRemote", regather))
  BY <1>1, <1>2, AcceptUpdateLeads
<1>5. Leads(s, s)
  BY LeadsSelf
<1>6. Leads(s, w)
  <2>1. s.state[c] = "StreamsRunning" => w \in {u, AcceptUpdate(u, c, u.prev[c], regather)}
    BY DEF UpdateOffered
  <2>2. s.state[c] = "PausedByRemote" => w \in {s, AcceptUpdate(s, c, "PausedByRemote", regather)}
    BY DEF UpdateOffered
  <2> HIDE DEF w
  <2> QED BY <1>3, <1>4, <1>5, <2>1, <2>2
<1>7. UpdatedByRemote(s, c, isUpdate, compatible, deferred, regather)
        \in {SalDecline(s, c), w, ExpectMediaInAck(w, c)}
  BY DEF UpdatedByRemote
<1> HIDE DEF w
<1>8. Leads(s, ExpectMediaInAck(w, c))
  <2>1. Consistent(w) /\ w \in CoreType
    BY <1>6 DEF Leads, Consistent
  <2>2. Leads(w, ExpectMediaInAck(w, c))
    BY <2>1, MediaIsSilent, SilentLeads
  <2> QED BY <1>6, <2>2, LeadsTrans
<1>9. Leads(s, SalDecline(s, c))
  BY <1>1, SalDeclineAsks, AsksLeads
<1> QED BY <1>6, <1>7, <1>8, <1>9

\* A re-INVITE, or an UPDATE, in the confirmed dialog
LEMMA PeerOfferLeads ==
  ASSUME NEW s, NEW c \in Call, NEW offer \in Offer, NEW isUpdate \in BOOLEAN,
         NEW compatible \in BOOLEAN, NEW deferred \in BOOLEAN, NEW regather \in BOOLEAN,
         Consistent(s), regather => UseIce, s.op[c] = "active", c \in s.calls,
         isUpdate => offer # "nosdp" /\ "update" \notin s.pend[c]
  PROVE  LET request == IF isUpdate THEN "update" ELSE "invite"
         IN  Leads(s, CallUpdating(OfferMade(s, c, request, offer), c,
                                   isUpdate, compatible, deferred, regather))
<1> DEFINE request == IF isUpdate THEN "update" ELSE "invite"
           o == OfferMade(s, c, request, offer)
           e == SetState(o, c, "EarlyUpdatedByRemote")
           x == CallUpdating(o, c, isUpdate, compatible, deferred, regather)
           updated == UpdatedByRemote(o, c, isUpdate, compatible, deferred, regather)
<1>1. s \in CoreType /\ request \in PeerRequest
  BY DEF Consistent, PeerRequest
<1>2. s.state[c] \in Settling \cup {"Connected", "EarlyUpdatedByRemote"}
  BY PhaseStates
<1>3. Asks(s, o, c) /\ o.rmd[c] = offer
  BY <1>1, OfferMadeAsks
<1>4. isUpdate /\ s.state[c] \in {"Connected", "Paused"} => Leads(s, AcceptUpdate(e, c, e.prev[c], regather))
  BY EarlyUpdateLeads
<1> HIDE DEF o
<1>5. Leads(s, o)
  BY <1>3, AsksLeads
<1>6. Consistent(o) /\ o \in CoreType /\ o.state[c] = s.state[c] /\ o.op[c] = "active"
  BY <1>3, <1>5 DEF Leads, Asks
<1>7. Leads(o, o) /\ Leads(o, SalDecline(o, c))
  BY <1>6, LeadsSelf, SalDeclineAsks, AsksLeads
<1>8. s.state[c] \in {"StreamsRunning", "PausedByRemote"} => Leads(o, updated)
  BY <1>6, UpdatedByRemoteLeads
<1>9. /\ s.state[c] = "PausedByRemote" => Leads(o, AcceptUpdate(o, c, "StreamsRunning", regather))
      /\ s.state[c] \in {"StreamsRunning", "Connected", "Paused"} =>
           Leads(o, AcceptUpdate(o, c, "PausedByRemote", regather))
  <2>1. /\ {"StreamsRunning", "PausedByRemote"} \subseteq Settling \ {"Paused"}
        /\ {"StreamsRunning", "PausedByRemote"} \cap (Transient \cup {"UpdatedByRemote"}) = {}
    BY DEF Settling, Answered, Transient
  <2> QED BY <1>2, <1>6, <2>1, AcceptUpdateLeads
<1>10. ASSUME s.state[c] \notin {"StreamsRunning", "PausedByRemote"}
       PROVE  \/ updated \in {SalDecline(o, c), o}
              \/ isUpdate /\ updated = AcceptUpdate(e, c, e.prev[c], regather)
  BY <1>6, <1>10 DEF UpdatedByRemote, UpdateOffered
<1>11. ASSUME isUpdate => s.state[c] \in {"StreamsRunning", "PausedByRemote", "Connected", "Paused"}
       PROVE  Leads(s, updated)
  <2>1. CASE s.state[c] \in {"StreamsRunning", "PausedByRemote"}
    BY <1>5, <1>8, <2>1, LeadsTrans
  <2>2. CASE s.state[c] \notin {"StreamsRunning", "PausedByRemote"}
    <3>1. Leads(s, SalDecline(o, c))
      BY <1>5, <1>7, LeadsTrans
    <3> HIDE DEF updated, e
    <3> QED BY <1>4, <1>5, <1>10, <1>11, <2>2, <3>1
  <2> QED BY <2>1, <2>2
<1>12. Leads(s, x)
  <2>1. CASE offer = "nosdp"
    <3>1. x = updated /\ ~ isUpdate
      BY <1>3, <2>1 DEF CallUpdating
    <3> HIDE DEF x, updated
    <3> QED BY <1>11, <3>1
  <2>2. CASE offer # "nosdp" /\ s.state[c] = "PausedByRemote"
    <3>1. x \in {updated, AcceptUpdate(o, c, "StreamsRunning", regather)}
      BY <1>3, <1>6, <2>2 DEF CallUpdating, Transient
    <3>2. Leads(s, AcceptUpdate(o, c, "StreamsRunning", regather))
      BY <1>5, <1>9, <2>2, LeadsTrans
    <3> HIDE DEF x, updated
    <3> QED BY <1>11, <2>2, <3>1, <3>2
  <2>3. CASE offer # "nosdp" /\ s.state[c] \in {"StreamsRunning", "Connected", "Paused"}
    <3>1. x \in {updated, AcceptUpdate(o, c, "PausedByRemote", regather)}
      BY <1>3, <1>6, <2>3 DEF CallUpdating, Transient
    <3>2. Leads(s, AcceptUpdate(o, c, "PausedByRemote", regather))
      BY <1>5, <1>9, <2>3, LeadsTrans
    <3> HIDE DEF x, updated
    <3> QED BY <1>11, <2>3, <3>1, <3>2
  <2>4. CASE offer # "nosdp" /\ s.state[c] \notin {"PausedByRemote", "StreamsRunning", "Connected", "Paused"}
    <3>1. s.state[c] \in Transient \cup {"UpdatedByRemote", "EarlyUpdatedByRemote"}
      BY <1>2, <2>4 DEF Settling, Answered, Transient
    <3>2. x \in {SalDecline(o, c), o}
      BY <1>3, <1>6, <2>4, <3>1 DEF CallUpdating, Transient
    <3> HIDE DEF x
    <3> QED BY <1>5, <1>7, <3>2, LeadsTrans
  <2> QED BY <2>1, <2>2, <2>3, <2>4
<1> QED BY <1>12 DEF o

-----------------------------------------------------------------------------
(* Candidates and transfers                                                *)

\* handle_ice_events(), when the candidates are gathered
LEMMA IceGatheredLeads ==
  ASSUME NEW s, NEW c \in Call, NEW sent \in BOOLEAN, Consistent(s), c \in s.calls
  PROVE  Leads(s, IceGathered(s, c, sent))
<1> DEFINE g == Gathering(s, c, FALSE)
           x == IceGathered(s, c, sent)
<1>1. s \in CoreType /\ CallFits(s, c)
  BY DEF Consistent
<1>2. Silent(s, g) /\ Leads(s, g)
  BY <1>1, MediaIsSilent, SilentLeads
<1>3. /\ s.state[c] = "Updating" => x = SalUpdate(g, c, "reinvite")
      /\ s.state[c] = "UpdatedByRemote" => x = StartAcceptUpdate(g, c, s.prev[c])
      /\ s.state[c] = "OutgoingInit" => x = StartInvite(g, c, sent)
      /\ s.state[c] = "Idle" => x = NotifyIncoming(g, c, FALSE)
      /\ s.state[c] \notin {"Updating", "UpdatedByRemote", "OutgoingInit", "Idle"} => x = g
  BY DEF IceGathered
<1> HIDE DEF g
<1>4. Consistent(g) /\ g.state[c] = s.state[c] /\ g.op[c] = s.op[c] /\ g.prev[c] = s.prev[c]
  BY <1>2 DEF Leads, Silent, Same
<1>5. CASE s.state[c] = "Updating"
  <2>1. "Updating" \in Transient /\ "reinvite" \in Request
    BY DEF Transient, Request
  <2>2. Leads(g, SalUpdate(g, c, "reinvite"))
    BY <1>4, <1>5, <2>1, SalUpdateLeads
  <2> QED BY <1>2, <1>3, <1>5, <2>2, LeadsTrans
<1>6. CASE s.state[c] = "UpdatedByRemote"
  <2>1. /\ s.op[c] = "active" /\ s.prev[c] \in Settling \ {"Paused"}
        /\ s.state[c] \in Settling \ {"Paused"}
    BY <1>1, <1>6 DEF CallFits, OpFits, PrevFits, Settling, Answered
  <2>2. Leads(g, StartAcceptUpdate(g, c, s.prev[c]))
    BY <1>4, <2>1, StartAcceptUpdateLeads
  <2> QED BY <1>2, <1>3, <1>6, <2>2, LeadsTrans
<1>7. CASE s.state[c] = "OutgoingInit"
  <2>1. "OutgoingInit" \in Outgoing
    BY DEF Outgoing
  <2>2. Leads(g, StartInvite(g, c, sent))
    BY <1>4, <1>7, <2>1, StartInviteLeads
  <2> QED BY <1>2, <1>3, <1>7, <2>2, LeadsTrans
<1>8. CASE s.state[c] = "Idle"
  <2>1. s.op[c] = "ringing"
    BY <1>1, <1>8 DEF CallFits, ListFits, Live
  <2>2. Leads(g, NotifyIncoming(g, c, FALSE))
    BY <1>4, <1>8, <2>1, NotifyIncomingLeads
  <2> QED BY <1>2, <1>3, <1>8, <2>2, LeadsTrans
<1> QED BY <1>2, <1>3, <1>5, <1>6, <1>7, <1>8

\* refer_received(): the event overwrites call->prevstate.
LEMMA ReferedLeads ==
  ASSUME NEW s, NEW c \in Call, Consistent(s), s.op[c] = "active", c \in s.calls
  PROVE  LET r == SetState(s, c, "Refered")
         IN  Leads(s, r) /\ r.state = s.state /\ r.op = s.op /\ r.calls = s.calls
<1> DEFINE r == SetState(s, c, "Refered")
<1>1. s \in CoreType /\ CallFits(s, c) /\ s.state[c] \in CallState \ Ended /\ s.state[c] # "Refered"
  <2>1. s \in CoreType /\ CallFits(s, c) /\ s.state[c] \in CallState /\ s.state[c] \notin Ended
    BY PhaseStates DEF Consistent, CoreType
  <2>2. "Refered" \notin CallState
    BY DEF CallState
  <2> QED BY <2>1, <2>2
<1>2. r = Remembered(s, c)
  BY <1>1 DEF SetState
<1>3. r \in CoreType
  BY <1>1, <1>2, RememberedKeeps DEF Keeps
<1>4. /\ r.prev = [s.prev EXCEPT ![c] = s.state[c]]
      /\ r.state = s.state /\ r.op = s.op /\ r.ct = s.ct /\ r.pend = s.pend /\ r.dir = s.dir
      /\ r.err = s.err /\ r.log = s.log /\ r.replaces = s.replaces /\ r.calls = s.calls
      /\ r.current = s.current
  BY <1>1, <1>2 DEF Remembered, CoreType
<1> HIDE DEF r
<1>5. r.prev[c] = s.state[c] /\ \A d \in Call \ {c} : r.prev[d] = s.prev[d]
  BY <1>1, <1>4 DEF CoreType
<1>6. /\ s.state[c] \in Transient => s.state[c] \in Settling
      /\ s.state[c] = "UpdatedByRemote" => s.state[c] \in Settling \ {"Paused"}
  BY DEF Transient, Settling, Answered
<1>7. PrevFits(r, c)
  BY <1>4, <1>5, <1>6 DEF PrevFits
<1>8. CallFits(r, c)
  BY <1>1, <1>4, <1>5, <1>7 DEF CallFits, ListFits, RequestFits, OfferFits, LogFits
<1>9. Only(s, r, c)
  BY <1>3, <1>4, <1>5 DEF Only, Same
<1>10. Leads(s, r)
  BY <1>4, <1>8, <1>9, OnlyLeads
<1> QED BY <1>4, <1>10 DEF r

\* refer_received(), and the call to the target of the transfer
LEMMA ReferLeads ==
  ASSUME NEW s, NEW c \in Call, NEW n \in Call \ {c}, NEW sent \in BOOLEAN, Consistent(s),
         s.op[c] = "active", c \in s.calls, s.state[n] = "Idle", s.op[n] = "none"
  PROVE  Leads(s, StartReferedCall(SetState(s, c, "Refered"), c, n, sent))
<1> DEFINE r == SetState(s, c, "Refered")
<1>1. Leads(s, r) /\ r.state = s.state /\ r.op = s.op
  BY ReferedLeads
<1> HIDE DEF r
<1>2. Leads(r, StartReferedCall(r, c, n, sent))
  BY <1>1, StartReferedCallLeads DEF Leads
<1> QED BY <1>1, <1>2, LeadsTrans DEF r

-----------------------------------------------------------------------------
(* The actions                                                             *)

LEMMA UserStepLeads ==
  ASSUME NEW c \in Call, Mannerly, Consistent(lc), UserStep(c)
  PROVE  Leads(lc, lc')
<1>1. lc \in CoreType
  BY DEF Consistent
<1>2. ASSUME Invite(c) PROVE Leads(lc, lc')
  <2>1. PICK sent \in Sent : lc' = InviteCall(lc, c, NoCall, sent)
    BY <1>2 DEF Invite
  <2>2. sent \in BOOLEAN /\ lc.state[c] = "Idle" /\ lc.op[c] = "none"
    BY <1>2 DEF Invite, Fresh, Sent
  <2> QED BY <2>1, <2>2, InviteCallLeads
<1>3. ASSUME AcceptEarlyMedia(c) PROVE Leads(lc, lc')
  BY <1>3, AcceptEarlyMediaCallLeads DEF AcceptEarlyMedia
<1>4. ASSUME Accept(c) PROVE Leads(lc, lc')
  <2>1. PICK hangup \in Hangup : lc' = AcceptCall(lc, c, hangup)
    BY <1>4 DEF Accept
  <2>2. hangup \in BOOLEAN /\ lc.state[c] \in Alerting
    BY <1>4 DEF Accept, Hangup
  <2> QED BY <2>1, <2>2, AcceptCallLeads
<1>5. ASSUME Decline(c) PROVE Leads(lc, lc')
  <2>1. lc.state[c] \in Alerting /\ lc' = DeclineCall(lc, c)
    BY <1>5 DEF Decline
  <2>2. lc.log[c] # "success" /\ lc.replaces[c] # c
    BY <2>1, AlertingRow
  <2>3. Only(lc, lc, c)
    BY <1>1, RingIsSilent, SilentOnly
  <2> QED BY <2>1, <2>2, <2>3, DeclineCallLeads
<1>6. ASSUME Terminate(c) PROVE Leads(lc, lc')
  BY <1>6, TerminateCallLeads DEF Terminate
<1>7. ASSUME Pause(c) PROVE Leads(lc, lc')
  BY <1>7, PauseCallLeads DEF Pause
<1>8. ASSUME Resume(c) PROVE Leads(lc, lc')
  BY <1>8, ResumeCallLeads DEF Resume
<1>9. ASSUME Update(c) PROVE Leads(lc, lc')
  <2>1. PICK regather \in Regather : lc' = UpdateCall(lc, c, regather)
    BY <1>9 DEF Update
  <2>2. lc.state[c] = "StreamsRunning" /\ regather \in BOOLEAN
    BY <1>9 DEF Update, Mannerly, Regather
  <2> QED BY <2>1, <2>2, UpdateCallLeads
<1>10. ASSUME AcceptCallUpdate(c) PROVE Leads(lc, lc')
  <2>1. PICK regather \in Regather : lc' = AcceptUpdate(lc, c, lc.prev[c], regather)
    BY <1>10 DEF AcceptCallUpdate
  <2>2. lc.state[c] = "UpdatedByRemote" /\ regather \in BOOLEAN
    BY <1>10 DEF AcceptCallUpdate, Regather
  <2> QED BY <2>1, <2>2, AcceptCallUpdateLeads
<1> QED BY <1>2, <1>3, <1>4, <1>5, <1>6, <1>7, <1>8, <1>9, <1>10 DEF UserStep

LEMMA TimerStepLeads ==
  ASSUME NEW c \in Call, Consistent(lc), TimerStep(c)
  PROVE  Leads(lc, lc')
<1>1. lc \in CoreType
  BY DEF Consistent
<1>2. ASSUME IncomingTimeout(c) PROVE Leads(lc, lc')
  BY <1>2, IncomingTimeoutLeads DEF IncomingTimeout
<1>3. ASSUME DelayedInvite(c) PROVE Leads(lc, lc')
  <2> DEFINE g == Gathering(lc, c, FALSE)
  <2>1. PICK sent \in Sent : lc' = StartInvite(g, c, sent)
    BY <1>3 DEF DelayedInvite
  <2>2. Silent(lc, g) /\ Leads(lc, g)
    BY <1>1, MediaIsSilent, SilentLeads
  <2> HIDE DEF g
  <2>3. Consistent(g) /\ g.state[c] = "OutgoingInit" /\ sent \in BOOLEAN /\ "OutgoingInit" \in Outgoing
    BY <1>3, <2>2 DEF DelayedInvite, Leads, Silent, Same, Sent, Outgoing
  <2>4. Leads(g, StartInvite(g, c, sent))
    BY <2>3, StartInviteLeads
  <2> QED BY <2>1, <2>2, <2>4, LeadsTrans
<1>4. ASSUME Gathered(c) PROVE Leads(lc, lc')
  <2>1. PICK sent \in Sent : lc' = IceGathered(lc, c, sent)
    BY <1>4 DEF Gathered
  <2>2. sent \in BOOLEAN /\ c \in lc.calls
    BY <1>4 DEF Gathered, Sent
  <2> QED BY <2>1, <2>2, IceGatheredLeads
<1>5. ASSUME RunTask(c) PROVE Leads(lc, lc')
  BY <1>5, ResumeTaskLeads DEF RunTask
<1> QED BY <1>2, <1>3, <1>4, <1>5 DEF TimerStep

LEMMA SalStepLeads ==
  ASSUME NEW c \in Call, Mannerly, Consistent(lc), SalStep(c)
  PROVE  Leads(lc, lc')
<1>1. lc \in CoreType /\ CallFits(lc, c)
  BY DEF Consistent
<1>2. ASSUME Receive(c) PROVE Leads(lc, lc')
  <2>1. PICK offer \in Offers, reject \in Hangup,
             replaced \in {NoCall} \cup {r \in lc.calls : lc.op[r] = "active"} :
          lc' = CallReceived(lc, c, offer, replaced, reject)
    BY <1>2 DEF Receive
  <2>2. lc.state[c] = "Idle" /\ lc.op[c] = "none"
    BY <1>2 DEF Receive, Fresh
  <2>3. replaced \in (Call \ {c}) \cup {NoCall}
    BY <1>1, <2>1, <2>2 DEF CoreType
  <2>4. offer \in Offer /\ reject \in BOOLEAN
    BY <2>1, SwitchAssumption, InputTypes
  <2> QED BY <2>1, <2>2, <2>3, <2>4, CallReceivedLeads
<1>3. ASSUME Ringing(c) PROVE Leads(lc, lc')
  <2> DEFINE o == Operation(lc, c, "early")
  <2>1. PICK md \in Dir \cup {"none"} : lc' = CallRinging(o, c, md)
    BY <1>3, SwitchAssumption DEF Ringing
  <2>2. lc.op[c] \in {"inviting", "early"}
    BY <1>3 DEF Ringing
  <2>3. Leads(lc, o) /\ o.op[c] = "early"
    BY <2>2, EarlyDialogLeads
  <2> HIDE DEF o
  <2>4. Leads(o, CallRinging(o, c, md))
    BY <2>3, CallRingingLeads DEF Leads
  <2> QED BY <2>1, <2>3, <2>4, LeadsTrans
<1>4. ASSUME Answered200(c) PROVE Leads(lc, lc')
  <2>1. PICK answer \in Dir \cup Unusable, hangup \in Hangup :
          lc' = CallAccepted(Operation(lc, c, "active"), c, answer, hangup)
    BY <1>4, SwitchAssumption DEF Answered200
  <2>2. lc.op[c] \in {"inviting", "early"} /\ hangup \in BOOLEAN /\ (hangup => "appHangup" \in Faults)
    BY <1>4 DEF Answered200, Hangup
  <2> QED BY <2>1, <2>2, Answered200Leads
<1>5. ASSUME InviteFailed(c) PROVE Leads(lc, lc')
  <2>1. lc.op[c] \in {"inviting", "early"}
    BY <1>5 DEF InviteFailed
  <2>2. PICK reason \in {"declined", "redirect", "notacceptable", "other"}, sent \in BOOLEAN :
          LET f == CallFailure(lc, c, reason, sent)
          IN  lc' = IF f.retries[c] # lc.retries[c] THEN f
                    ELSE IF lc.op[c] = "inviting" THEN SetState(RequestDone(f, c), c, "Released")
                    ELSE Closing(f, c)
    BY <1>5 DEF InviteFailed, Mannerly, Sent
  <2>3. reason # "pending"
    OBVIOUS
  <2> QED BY <2>1, <2>2, <2>3, InviteFailedLeads
<1>6. ASSUME CancelledTimeout(c) PROVE Leads(lc, lc')
  BY <1>6, CancelledTimeoutLeads DEF CancelledTimeout
<1>7. ASSUME OfferAccepted(c) PROVE Leads(lc, lc')
  <2> DEFINE local == IF lc.ct[c] = "hold" THEN "sendonly" ELSE "sendrecv"
  <2>1. \A a \in Answers : a \notin Unusable => DirOfAnswer(local, a) \in Dir
    BY DirOfAnswerType
  <2>2. lc.dir[c] \in Dir \cup {"none"}
    BY <1>1 DEF CoreType
  <2>3. PICK answer \in Dir \cup Unusable : lc' = CallAccepted(RequestDone(lc, c), c, answer, FALSE)
    BY <1>7, <2>1, <2>2 DEF OfferAccepted, Unusable
  <2>4. lc.ct[c] # "none"
    BY <1>7 DEF OfferAccepted
  <2> QED BY <2>3, <2>4, OfferAcceptedLeads
<1>8. ASSUME OfferRejected(c) PROVE Leads(lc, lc')
  BY <1>8, OfferRejectedLeads DEF OfferRejected, Sent
<1>9. ASSUME EarlyUpdateRejected(c) PROVE Leads(lc, lc')
  BY <1>9, RequestDoneLeads DEF EarlyUpdateRejected
<1>10. ASSUME EarlyOffer(c) PROVE Leads(lc, lc')
  <2>1. PICK offer \in Offers, compatible \in BOOLEAN, regather \in Regather :
          /\ lc.op[c] = "ringing" => offer = "nosdp" \/ lc.dir[c] # "none"
          /\ lc.op[c] = "ringing" => compatible \/ "refusedUpdate" \in Faults
          /\ lc' = CallUpdating(OfferMade(lc, c, "update", offer), c, TRUE, compatible, FALSE, regather)
    BY <1>10 DEF EarlyOffer
  <2>2. /\ lc.op[c] \in {"early", "ringing"} /\ lc.state[c] # "Idle" /\ "update" \notin lc.pend[c]
        /\ offer \in Offer /\ regather \in BOOLEAN /\ (regather => UseIce)
    BY <1>10, SwitchAssumption DEF EarlyOffer, Regather
  <2>3. lc.op[c] = "ringing" => compatible /\ (offer = "nosdp" \/ lc.dir[c] # "none")
    BY <2>1 DEF Mannerly
  <2> QED BY <2>1, <2>2, <2>3, EarlyOfferLeads
<1>11. ASSUME PeerOffer(c) PROVE Leads(lc, lc')
  <2>1. PICK offer \in Offers, isUpdate \in BOOLEAN, compatible \in BOOLEAN, deferred \in BOOLEAN,
             regather \in Regather :
          /\ isUpdate => offer # "nosdp" /\ "update" \notin lc.pend[c]
          /\ LET request == IF isUpdate THEN "update" ELSE "invite"
             IN lc' = CallUpdating(OfferMade(lc, c, request, offer), c,
                                   isUpdate, compatible, deferred, regather)
    BY <1>11 DEF PeerOffer
  <2>2. /\ lc.op[c] = "active" /\ c \in lc.calls
        /\ offer \in Offer /\ regather \in BOOLEAN /\ (regather => UseIce)
    BY <1>11, SwitchAssumption DEF PeerOffer, Regather
  <2> QED BY <2>1, <2>2, PeerOfferLeads
<1>12. ASSUME Ack(c) PROVE Leads(lc, lc')
  <2>1. PICK md \in Dir \cup {"bad"} : lc' = CallAck(lc, c, md)
    BY <1>12, SwitchAssumption DEF Ack, Unusable
  <2>2. lc.op[c] = "active"
    BY <1>12 DEF Ack
  <2> QED BY <2>1, <2>2, CallAckLeads
<1>13. ASSUME Bye(c) \/ Cancel(c) PROVE Leads(lc, lc')
  BY <1>13, DialogEndLeads DEF Bye, Cancel
<1>14. ASSUME Release(c) PROVE Leads(lc, lc')
  BY <1>14, ReleasedLeads DEF Release
<1>15. ASSUME OtherRequest(c) PROVE Leads(lc, lc')
  <2>1. lc' \in CoreType
    BY <1>1, <1>15 DEF OtherRequest, CoreType
  <2>2. Silent(lc, lc')
    BY <1>15, <2>1 DEF OtherRequest, Silent, Same
  <2> QED BY <2>2, SilentLeads
<1>16. ASSUME NEW n \in Call, Refer(c, n) PROVE Leads(lc, lc')
  <2>1. PICK sent \in Sent : lc' = StartReferedCall(SetState(lc, c, "Refered"), c, n, sent)
    BY <1>16 DEF Refer
  <2>2. /\ lc.op[c] = "active" /\ c \in lc.calls /\ n \in Call \ {c}
        /\ lc.state[n] = "Idle" /\ lc.op[n] = "none" /\ sent \in BOOLEAN
    BY <1>16, InputTypes DEF Refer, Fresh
  <2> QED BY <2>1, <2>2, ReferLeads
<1> QED BY <1>2, <1>3, <1>4, <1>5, <1>6, <1>7, <1>8, <1>9, <1>10, <1>11, <1>12, <1>13, <1>14,
           <1>15, <1>16 DEF SalStep

LEMMA NextLeads ==
  ASSUME Mannerly, Consistent(lc), [Next]_lc
  PROVE  Leads(lc, lc')
<1>1. CASE UNCHANGED lc
  BY <1>1, LeadsSelf
<1>2. CASE Next
  BY <1>2, UserStepLeads, SalStepLeads, TimerStepLeads DEF Next
<1> QED BY <1>1, <1>2

LEMMA InitConsistent == Init => Consistent(lc)
<1> SUFFICES ASSUME Init PROVE Consistent(lc)
  OBVIOUS
<1>1. lc \in CoreType
  BY InitType DEF TypeOK
<1>2. \A c \in Call :
        /\ lc.state[c] = "Idle" /\ lc.op[c] = "none" /\ lc.ct[c] = "none" /\ lc.pend[c] = {}
        /\ lc.dir[c] = "none" /\ lc.log[c] = "aborted" /\ lc.err[c] = "none"
        /\ lc.replaces[c] = NoCall /\ lc.calls = {} /\ lc.current = NoCall
  BY DEF Init, EmptyCore
<1>3. /\ "Idle" \notin Ended \cup Live \cup AwaitingAnswer \cup Alerting \cup Answered
      /\ "Idle" \notin Transient
  BY DEF Ended, Live, AwaitingAnswer, Outgoing, Alerting, Answered, Transient
<1>4. \A c \in Call : CallFits(lc, c)
  BY <1>2, <1>3, NoCallAssumption
     DEF CallFits, OpFits, ListFits, RequestFits, OfferFits, PrevFits, LogFits
<1>5. lc.current = NoCall
  BY DEF Init, EmptyCore
<1> QED BY <1>1, <1>4, <1>5 DEF Consistent, CurrentFits

-----------------------------------------------------------------------------
(* Theorems                                                                *)

\* The state of a call, its operation, its list entry, the requests of both sides,
\* call->prevstate and its log fit together after every handler, for any number of
\* calls; with ICE or without, whatever the SIP stack refuses, and even when the
\* application hangs up from a callback.
THEOREM CallsAreConsistent ==
  ASSUME Mannerly
  PROVE  Spec => []Consistent(lc)
<1>1. Consistent(lc) /\ [Next]_lc => Consistent(lc)'
  BY NextLeads DEF Leads
<1> QED BY InitConsistent, <1>1, PTL DEF Spec

\* linphone_call_set_state() takes a call out of lc->calls when, and only when, it
\* is over, along every path of linphonecore.c and callbacks.c.
THEOREM ListIsExact ==
  ASSUME Mannerly
  PROVE  Spec => []CallListExact
<1>1. Consistent(lc) => CallListExact
  BY DEF Consistent, CallFits, ListFits, CallListExact
<1> QED BY CallsAreConsistent, <1>1, PTL

\* lc->current_call points to a listed call, unless the application hangs up from a
\* state callback: linphone_core_accept_call_with_params() and call_accepted() then
\* make a call current that has just left the list.
THEOREM CurrentIsListed ==
  ASSUME Mannerly, "appHangup" \notin Faults
  PROVE  Spec => []CurrentInList
<1>1. Consistent(lc) => CurrentInList
  BY DEF Consistent, CurrentFits, CurrentInList
<1> QED BY CallsAreConsistent, <1>1, PTL

\* A state past the answer has a confirmed dialog, and the reverse.  With ICE a 200
\* may find the call in EarlyUpdatedByRemote, a state that call_accepted() does not
\* turn into Connected.
THEOREM AnswerNeedsDialog ==
  ASSUME Mannerly, ~ UseIce
  PROVE  Spec => []AnsweredHasDialog
<1>1. ASSUME Consistent(lc), NEW c \in Call
      PROVE  /\ lc.state[c] \in Answered => lc.op[c] = "active"
             /\ lc.op[c] = "active" => lc.state[c] \in Answered \cup Ended
  <2>1. lc.state[c] \in Answered => lc.op[c] = "active"
    BY <1>1 DEF Consistent, CallFits, OpFits
  <2>2. lc.op[c] = "active" => lc.state[c] \in Answered \cup Ended
    BY <1>1, PhaseStates DEF Settling, Answered
  <2> QED BY <2>1, <2>2
<1>2. Consistent(lc) => AnsweredHasDialog
  BY <1>1 DEF AnsweredHasDialog
<1> QED BY CallsAreConsistent, <1>2, PTL

\* Whatever path leads to an answered state goes through Connected, which alone
\* writes LinphoneCallSuccess in the log.
THEOREM AnswerIsLogged ==
  ASSUME Mannerly, ~ UseIce
  PROVE  Spec => []AnsweredIsLogged
<1>1. Consistent(lc) => AnsweredIsLogged
  BY DEF Consistent, CallFits, LogFits, AnsweredIsLogged
<1> QED BY CallsAreConsistent, <1>1, PTL

\* No handler writes missed or declined over the success of an answered call:
\* linphone_call_set_state() does so only for a reason that the core gives to
\* calls that still ring.
THEOREM SuccessIsKept ==
  ASSUME Mannerly
  PROVE  Spec => AnsweredLogKept
<1>1. Consistent(lc) /\ [Next]_lc =>
        [\A c \in Call : lc.log[c] = "success" => lc'.log[c] = "success"]_lc
  BY NextLeads DEF Leads, LogKept
<1> QED BY CallsAreConsistent, <1>1, PTL DEF Spec, AnsweredLogKept
=============================================================================
