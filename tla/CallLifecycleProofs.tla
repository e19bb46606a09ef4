------------------------ MODULE CallLifecycleProofs -------------------------
(***************************************************************************)
(* Proof that CallCore implements CallLifecycle, for any number of calls   *)
(* and every run without ICE: what the core keeps about its calls projects *)
(* to the five phases and the list that an application sees.               *)
(*                                                                         *)
(* CallsAreConsistent (CallListProofs) holds before and after every step,  *)
(* so a phase can be read off the state and the list (PhaseRow).  Each     *)
(* handler is then followed through the functions it calls, and shown to   *)
(* be one of three things: it leaves every call where it is, or answers    *)
(* none (SteadyImplements); it moves one call (MoveImplements); or it      *)
(* answers one call and ends others on the way (ProceedsImplements).       *)
(*                                                                         *)
(* The same walk through the handlers shows that only Accept answers a     *)
(* call that rings (NextAccepts), and the loop of Accept that it leaves no *)
(* call being placed (AcceptCallEnds): AnswerLeavesNonePlaced.             *)
(***************************************************************************)
EXTENDS CallListProofs

\* PhaseOf in a core s.
Phase(s, c) ==
  CASE s.state[c] \in Answered -> "talking"
    [] s.state[c] \in Ended -> "over"
    [] s.state[c] = "Released" -> "released"
    [] s.state[c] = "Idle" /\ s.op[c] # "ringing" -> "unused"
    [] OTHER -> "pending"

\* From s to t call d goes forward, if it goes anywhere.
Forward(s, t, d) ==
  /\ d \in s.calls => d \in t.calls \/ t.state[d] \in Ended
  /\ d \notin s.calls => d \notin t.calls /\ (t.state[d] = s.state[d] \/ s.state[d] \in Ended)
  /\ s.state[d] \in Ended => t.state[d] \in Ended
  /\ s.state[d] \in Answered => t.state[d] \in Answered \cup Ended

\* It is not answered in between.
Unanswered(s, t, d) == t.state[d] \in Answered => s.state[d] \in Answered

\* What a handler of call c does: every call goes forward, and none but c is answered.
Proceeds(s, t, c) ==
  \A d \in Call : Forward(s, t, d) /\ (d # c => Unanswered(s, t, d))

\* No call is answered.
Steady(s, t) == \A d \in Call : Forward(s, t, d) /\ Unanswered(s, t, d)

-----------------------------------------------------------------------------
(* The phases                                                              *)

\* In a consistent core the phase of a call follows from its state and from the list.
LEMMA PhaseRow ==
  ASSUME NEW s, NEW d \in Call, ~ UseIce, Consistent(s)
  PROVE  /\ Phase(s, d) \in {"unused", "pending", "talking", "over", "released"}
         /\ Phase(s, d) = "talking" <=> s.state[d] \in Answered
         /\ Phase(s, d) = "over" <=> s.state[d] \in Ended
         /\ Phase(s, d) = "released" <=> s.state[d] = "Released"
         /\ Phase(s, d) = "unused" <=> s.state[d] = "Idle" /\ d \notin s.calls
         /\ Phase(s, d) \in {"pending", "talking"} <=> d \in s.calls
<1>1. CallFits(s, d) /\ s.state[d] \in CallState
  BY DEF Consistent, CoreType
<1>2. d \in s.calls <=> s.state[d] \in Live \/ (s.state[d] = "Idle" /\ s.op[d] = "ringing")
  BY <1>1 DEF CallFits, ListFits
<1>3. /\ s.state[d] \in Live <=> s.state[d] \notin {"Idle", "Released", "End", "Error"}
      /\ s.state[d] \in Ended <=> s.state[d] \in {"End", "Error"}
      /\ s.state[d] \in Answered => s.state[d] \notin {"Idle", "Released", "End", "Error"}
  BY <1>1 DEF Live, Ended, Answered
<1> QED BY <1>2, <1>3 DEF Phase

\* A call that goes forward goes through the phases in their order.
LEMMA ForwardPhase ==
  ASSUME NEW s, NEW t, NEW d \in Call, ~ UseIce, Consistent(s), Consistent(t), Forward(s, t, d)
  PROVE  /\ Phase(t, d) = Phase(s, d)
            \/ (Phase(s, d) = "pending" /\ Phase(t, d) = "talking")
            \/ (Phase(s, d) \in {"pending", "talking"} /\ Phase(t, d) = "over")
         /\ Unanswered(s, t, d) => Phase(t, d) = Phase(s, d)
              \/ (Phase(s, d) \in {"pending", "talking"} /\ Phase(t, d) = "over")
<1>1. s.state[d] \in Answered => s.state[d] \notin Ended
  BY DEF Answered, Ended
<1>2. "Released" \notin Ended \cup Answered /\ "Idle" \notin Ended \cup Answered
  BY DEF Answered, Ended
<1>3. /\ Phase(s, d) \in {"unused", "pending", "talking", "over", "released"}
      /\ Phase(s, d) = "talking" <=> s.state[d] \in Answered
      /\ Phase(s, d) = "over" <=> s.state[d] \in Ended
      /\ Phase(s, d) = "released" <=> s.state[d] = "Released"
      /\ Phase(s, d) = "unused" <=> s.state[d] = "Idle" /\ d \notin s.calls
      /\ Phase(s, d) \in {"pending", "talking"} <=> d \in s.calls
  BY PhaseRow
<1>4. /\ Phase(t, d) \in {"unused", "pending", "talking", "over", "released"}
      /\ Phase(t, d) = "talking" <=> t.state[d] \in Answered
      /\ Phase(t, d) = "over" <=> t.state[d] \in Ended
      /\ Phase(t, d) = "released" <=> t.state[d] = "Released"
      /\ Phase(t, d) = "unused" <=> t.state[d] = "Idle" /\ d \notin t.calls
      /\ Phase(t, d) \in {"pending", "talking"} <=> d \in t.calls
  BY PhaseRow
<1> QED BY <1>1, <1>2, <1>3, <1>4 DEF Forward, Unanswered

\* The variables of the abstract specification, before and after a step.
LEMMA PhaseMapped ==
  ASSUME NEW c \in Call
  PROVE  PhaseOf(c) = Phase(lc, c) /\ PhaseOf(c)' = Phase(lc', c)
BY DEF PhaseOf, Phase

\* A step of CallLifecycle, or a stutter.
LifecycleStep == [Lifecycle!Next]_<<[c \in Call |-> PhaseOf(c)], lc.calls>>

\* What a step of the abstract specification does, read in the cores.
MovedTo(s, t, c, new, gone) ==
  /\ \A d \in Call : Phase(t, d) = IF d = c THEN new
                                   ELSE IF d \in gone THEN "over" ELSE Phase(s, d)
  /\ t.calls = IF new \in {"pending", "talking"} THEN (s.calls \ gone) \cup {c}
               ELSE s.calls \ (gone \cup {c})

\* MovedTo is the update that CallLifecycle makes.
LEMMA MovedMapped ==
  ASSUME NEW c \in Call, NEW new, NEW gone, MovedTo(lc, lc', c, new, gone)
  PROVE  Lifecycle!Moved(c, new, gone)
<1>1. [d \in Call |-> PhaseOf(d)]' = [d \in Call |-> PhaseOf(d)']
  OBVIOUS
<1>2. \A d \in Call : [a \in Call |-> PhaseOf(a)][d] = Phase(lc, d) /\ PhaseOf(d)' = Phase(lc', d)
  BY PhaseMapped
<1> QED BY <1>1, <1>2 DEF MovedTo, Lifecycle!Moved

\* The list follows from the phases.
LEMMA MovedList ==
  ASSUME NEW s, NEW t, NEW c \in Call, NEW new \in {"unused", "pending", "talking", "over", "released"},
         NEW gone \in SUBSET (s.calls \ {c}), ~ UseIce, Consistent(s), Consistent(t),
         \A d \in Call : Phase(t, d) = IF d = c THEN new
                                       ELSE IF d \in gone THEN "over" ELSE Phase(s, d)
  PROVE  MovedTo(s, t, c, new, gone)
<1>1. s.calls \subseteq Call /\ t.calls \subseteq Call
  BY DEF Consistent, CoreType
<1>2. \A d \in Call : /\ Phase(s, d) \in {"pending", "talking"} <=> d \in s.calls
                      /\ Phase(t, d) \in {"pending", "talking"} <=> d \in t.calls
  BY PhaseRow
<1> DEFINE list == IF new \in {"pending", "talking"} THEN (s.calls \ gone) \cup {c}
                   ELSE s.calls \ (gone \cup {c})
<1>3. \A d \in Call : d \in t.calls <=> d \in list
  BY <1>1, <1>2
<1>4. t.calls = list
  BY <1>1, <1>3
<1> QED BY <1>4 DEF MovedTo

\* Call c goes forward, and no other call is answered: one step of CallLifecycle, or
\* none.
LEMMA ProceedsImplements ==
  ASSUME NEW c \in Call, ~ UseIce, Consistent(lc), Consistent(lc'), Proceeds(lc, lc', c)
  PROVE  LifecycleStep
<1> DEFINE ended == {d \in Call : Phase(lc, d) \in {"pending", "talking"} /\ Phase(lc', d) = "over"}
<1>1. \A d \in Call :
        /\ Phase(lc, d) \in {"unused", "pending", "talking", "over", "released"}
        /\ Phase(lc, d) \in {"pending", "talking"} <=> d \in lc.calls
        /\ Phase(lc', d) \in {"pending", "talking"} <=> d \in lc'.calls
  BY PhaseRow
<1>2. ended \subseteq lc.calls
  BY <1>1
<1>3. \A d \in Call \ {c} : Phase(lc', d) = IF d \in ended THEN "over" ELSE Phase(lc, d)
  BY ForwardPhase DEF Proceeds
<1>4. Phase(lc', c) = Phase(lc, c)
      \/ (Phase(lc, c) = "pending" /\ Phase(lc', c) = "talking")
      \/ (Phase(lc, c) \in {"pending", "talking"} /\ Phase(lc', c) = "over")
  BY ForwardPhase DEF Proceeds
<1>5. CASE Phase(lc, c) = "pending" /\ Phase(lc', c) = "talking"
  <2>1. \A d \in Call : Phase(lc', d) = IF d = c THEN "talking"
                                        ELSE IF d \in ended \ {c} THEN "over" ELSE Phase(lc, d)
    BY <1>3, <1>5
  <2>2. ended \ {c} \in SUBSET (lc.calls \ {c})
    BY <1>2
  <2> HIDE DEF ended
  <2>3. Lifecycle!Moved(c, "talking", ended \ {c})
    BY <2>1, <2>2, MovedList, MovedMapped
  <2>4. [d \in Call |-> PhaseOf(d)][c] = "pending"
    BY <1>5, PhaseMapped
  <2>5. Lifecycle!Answer(c)
    BY <2>2, <2>3, <2>4 DEF Lifecycle!Answer
  <2> QED BY <2>5 DEF Lifecycle!Next, LifecycleStep
<1>6. ASSUME NEW b \in ended, Phase(lc', c) = Phase(lc, c) \/ Phase(lc', c) = "over"
      PROVE  Lifecycle!Next
  <2>1. \A d \in Call : Phase(lc', d) = IF d = b THEN "over"
                                        ELSE IF d \in ended \ {b} THEN "over" ELSE Phase(lc, d)
    BY <1>3, <1>4, <1>6
  <2>2. ended \ {b} \in SUBSET (lc.calls \ {b}) /\ b \in Call
    BY <1>2
  <2>3. Phase(lc, b) \in {"pending", "talking"}
    OBVIOUS
  <2> HIDE DEF ended
  <2>4. Lifecycle!Moved(b, "over", ended \ {b})
    BY <2>1, <2>2, MovedList, MovedMapped
  <2>5. [d \in Call |-> PhaseOf(d)][b] \in {"pending", "talking"}
    BY <2>2, <2>3, PhaseMapped
  <2>6. Lifecycle!Finish(b)
    BY <2>2, <2>4, <2>5 DEF Lifecycle!Finish
  <2> QED BY <2>2, <2>6 DEF Lifecycle!Next
<1>7. CASE Phase(lc', c) = Phase(lc, c) /\ ended = {}
  <2>1. \A d \in Call : Phase(lc', d) = Phase(lc, d)
    BY <1>3, <1>7
  <2>2. lc'.calls = lc.calls
    <3>1. lc.calls \subseteq Call /\ lc'.calls \subseteq Call
      BY DEF Consistent, CoreType
    <3> QED BY <1>1, <2>1, <3>1
  <2>3. \A d \in Call : PhaseOf(d)' = PhaseOf(d)
    BY <2>1, PhaseMapped
  <2> QED BY <2>2, <2>3 DEF LifecycleStep
<1> QED BY <1>4, <1>5, <1>6, <1>7 DEF LifecycleStep

\* No state changes, nor the list.
Frame(s, t) == t \in CoreType /\ t.state = s.state /\ t.calls = s.calls

\* The call is listed, or over.
Here(s, c) == c \in s.calls \/ s.state[c] \in Ended

\* Going forward in two steps is going forward.
LEMMA ProceedsTrans ==
  ASSUME NEW s, NEW t, NEW u, NEW c, Proceeds(s, t, c), Proceeds(t, u, c)
  PROVE  Proceeds(s, u, c)
BY DEF Proceeds, Forward, Unanswered, Answered, Ended

\* Neither of two steps answers a call.
LEMMA SteadyTrans ==
  ASSUME NEW s, NEW t, NEW u, Steady(s, t), Steady(t, u)
  PROVE  Steady(s, u)
BY DEF Steady, Forward, Unanswered, Answered, Ended

\* A step that answers no call goes forward for every call.
LEMMA SteadyProceeds ==
  ASSUME NEW s, NEW t, Steady(s, t)
  PROVE  /\ \A c \in Call : Proceeds(s, t, c)
         /\ \A c \in Call : Here(s, c) => Here(t, c)
BY DEF Steady, Proceeds, Forward, Here

\* Leaving the states and the list alone answers no call.
LEMMA FrameSteady ==
  ASSUME NEW s, NEW t, Frame(s, t)
  PROVE  Steady(s, t)
BY DEF Frame, Steady, Forward, Unanswered

\* Two updates that leave the states and the list alone do so together.
LEMMA FrameTrans ==
  ASSUME NEW s, NEW t, NEW u, Frame(s, t), Frame(t, u)
  PROVE  Frame(s, u)
BY DEF Frame

\* The updates that change neither a state nor the list
LEMMA CoreFrames ==
  ASSUME NEW s \in CoreType
  PROVE  /\ Frame(s, s) /\ Frame(s, StopRinging(s)) /\ Frame(s, StartRinging(s))
         /\ \A c \in Call : /\ Frame(s, MakeCurrent(s, c)) /\ Frame(s, NoCurrent(s))
                            /\ Frame(s, ExpectMediaInAck(s, c)) /\ Frame(s, RequestDone(s, c))
                            /\ Frame(s, NothingPending(s, c)) /\ Frame(s, StopStreams(s, c))
                            /\ Frame(s, QueueResume(s, c)) /\ Frame(s, DequeueResume(s, c))
<1>1. Frame(s, s) /\ Frame(s, StopRinging(s)) /\ Frame(s, StartRinging(s))
  BY RingKeeps DEF Frame, Keeps, StopRinging, StartRinging
<1>2. ASSUME NEW c \in Call
      PROVE  Frame(s, MakeCurrent(s, c)) /\ Frame(s, NoCurrent(s)) /\ Frame(s, ExpectMediaInAck(s, c))
  <2>1. /\ MakeCurrent(s, c) \in CoreType /\ NoCurrent(s) \in CoreType
        /\ ExpectMediaInAck(s, c) \in CoreType
    BY CurrentKeeps, ExpectMediaInAckKeeps DEF Keeps, Within
  <2> QED BY <2>1 DEF Frame, MakeCurrent, NoCurrent, ExpectMediaInAck, CoreType
<1>3. ASSUME NEW c \in Call
      PROVE  Frame(s, RequestDone(s, c)) /\ Frame(s, NothingPending(s, c)) /\ Frame(s, StopStreams(s, c))
  <2>1. /\ RequestDone(s, c) \in CoreType /\ NothingPending(s, c) \in CoreType
        /\ StopStreams(s, c) \in CoreType
    BY RequestDoneKeeps, NothingPendingKeeps, StopStreamsKeeps DEF Keeps
  <2> QED BY <2>1 DEF Frame, RequestDone, NothingPending, StopStreams, CoreType
<1>4. ASSUME NEW c \in Call PROVE Frame(s, QueueResume(s, c)) /\ Frame(s, DequeueResume(s, c))
  <2>1. QueueResume(s, c) \in CoreType /\ DequeueResume(s, c) \in CoreType
    BY QueueResumeKeeps DEF Keeps
  <2> QED BY <2>1 DEF Frame, QueueResume, DequeueResume, CoreType
<1> QED BY <1>1, <1>2, <1>3, <1>4

\* The updates of an operation, of the media and of the log
LEMMA OperationFrames ==
  ASSUME NEW s \in CoreType, NEW c \in Call
  PROVE  /\ \A op \in OpPhase : Frame(s, Operation(s, c, op))
         /\ \A b \in BOOLEAN : Frame(s, Gathering(s, c, b)) /\ Frame(s, AutoPaused(s, c, b))
         /\ \A reason \in {"declined", "timeout"} : Frame(s, EndReason(s, c, reason))
         /\ Frame(s, LogStatus(s, c, "missed"))
         /\ \A dir \in Dir : Frame(s, UpdateStreams(s, c, dir))
         /\ \A ref \in Call \cup {NoCall} : Frame(s, Referer(s, c, ref))
         /\ s.retries[c] < MaxRetries => Frame(s, NextOperation(s, c))
<1>1. ASSUME NEW op \in OpPhase PROVE Frame(s, Operation(s, c, op))
  <2>1. Operation(s, c, op) \in CoreType
    BY OperationKeeps DEF Keeps
  <2> QED BY <2>1 DEF Frame, Operation, CoreType
<1>2. ASSUME NEW b \in BOOLEAN PROVE Frame(s, Gathering(s, c, b)) /\ Frame(s, AutoPaused(s, c, b))
  <2>1. Gathering(s, c, b) \in CoreType /\ AutoPaused(s, c, b) \in CoreType
    BY GatheringKeeps, AutoPausedKeeps DEF Keeps
  <2> QED BY <2>1 DEF Frame, Gathering, AutoPaused, CoreType
<1>3. ASSUME NEW reason \in {"declined", "timeout"} PROVE Frame(s, EndReason(s, c, reason))
  <2>1. EndReason(s, c, reason) \in CoreType
    BY EndReasonKeeps DEF Keeps
  <2> QED BY <2>1 DEF Frame, EndReason, CoreType
<1>4. Frame(s, LogStatus(s, c, "missed"))
  <2>1. LogStatus(s, c, "missed") \in CoreType
    BY LogStatusKeeps DEF Keeps
  <2> QED BY <2>1 DEF Frame, LogStatus, CoreType
<1>5. ASSUME NEW dir \in Dir PROVE Frame(s, UpdateStreams(s, c, dir))
  <2>1. UpdateStreams(s, c, dir) \in CoreType
    BY UpdateStreamsKeeps DEF Keeps
  <2>5. PICK ring, ack, dirs, streams :
          /\ ring = (s.ring /\ RingInEarly /\ s.state[c] = "IncomingEarlyMedia")
          /\ ack = [s.ackMedia EXCEPT ![c] = FALSE]
          /\ dirs = [s.dir EXCEPT ![c] = dir]
          /\ streams = [s.streams EXCEPT ![c] = TRUE]
    OBVIOUS
  <2>2. UpdateStreams(s, c, dir)
          = [s EXCEPT !.ring = ring, !.ackMedia = ack, !.dir = dirs, !.streams = streams]
    BY <2>5 DEF UpdateStreams
  <2>3. PICK t : t = UpdateStreams(s, c, dir)
    OBVIOUS
  <2>4. t.state = s.state /\ t.calls = s.calls
    BY <2>2, <2>3 DEF CoreType
  <2> QED BY <2>1, <2>3, <2>4 DEF Frame
<1>6. ASSUME NEW ref \in Call \cup {NoCall} PROVE Frame(s, Referer(s, c, ref))
  <2>1. Referer(s, c, ref) \in CoreType
    BY RefererKeeps DEF Keeps
  <2> QED BY <2>1 DEF Frame, Referer, CoreType
<1>7. ASSUME s.retries[c] < MaxRetries PROVE Frame(s, NextOperation(s, c))
  <2>1. NextOperation(s, c) \in CoreType
    BY <1>7, NextOperationKeeps DEF Keeps
  <2> QED BY <2>1 DEF Frame, NextOperation, CoreType
<1> QED BY <1>1, <1>2, <1>3, <1>4, <1>5, <1>6, <1>7

\* The calls of the SAL
LEMMA SalFrames ==
  ASSUME NEW s \in CoreType, NEW c \in Call
  PROVE  /\ Frame(s, SalTerminate(s, c)) /\ Frame(s, SalRelease(s, c))
         /\ Frame(s, SalAccept(s, c)) /\ Frame(s, SalDecline(s, c))
         /\ \A request \in Request : Frame(s, SalUpdate(s, c, request))
         /\ \A request \in PeerRequest, offer \in Offer : Frame(s, OfferMade(s, c, request, offer))
<1>1. Frame(s, SalTerminate(s, c)) /\ Frame(s, SalRelease(s, c))
  <2>1. SalTerminate(s, c) \in CoreType /\ SalRelease(s, c) \in CoreType
    BY SalTerminateKeeps, SalReleaseKeeps DEF Keeps
  <2> QED BY <2>1 DEF Frame, SalTerminate, SalRelease, CoreType
<1>2. Frame(s, SalAccept(s, c))
  <2>1. SalAccept(s, c) \in CoreType
    BY SalAcceptKeeps DEF Keeps
  <2> QED BY <2>1 DEF Frame, SalAccept, CoreType
<1>3. Frame(s, SalDecline(s, c))
  <2> DEFINE p == [s EXCEPT !.pend[c] = @ \ {"invite"}]
  <2>1. SalDecline(s, c) \in CoreType
    BY SalDeclineKeeps DEF Keeps
  <2>2. \/ SalDecline(s, c) = SalTerminate(s, c) \/ SalDecline(s, c) = p
        \/ SalDecline(s, c) = NothingPending(s, c)
    BY DEF SalDecline
  <2>3. p.state = s.state /\ p.calls = s.calls
    BY DEF CoreType
  <2> HIDE DEF p
  <2>4. SalTerminate(s, c).state = s.state /\ SalTerminate(s, c).calls = s.calls
    BY <1>1 DEF Frame
  <2>5. NothingPending(s, c).state = s.state /\ NothingPending(s, c).calls = s.calls
    BY CoreFrames DEF Frame
  <2> QED BY <2>1, <2>2, <2>3, <2>4, <2>5 DEF Frame
<1>4. ASSUME NEW request \in PeerRequest, NEW offer \in Offer PROVE Frame(s, OfferMade(s, c, request, offer))
  <2>1. OfferMade(s, c, request, offer) \in CoreType
    BY OfferMadeKeeps DEF Keeps
  <2> QED BY <2>1 DEF Frame, OfferMade, CoreType
<1>5. ASSUME NEW request \in Request PROVE Frame(s, SalUpdate(s, c, request))
  <2>1. SalUpdate(s, c, request) \in CoreType
    BY SalUpdateKeeps DEF Keeps
  <2> QED BY <2>1 DEF Frame, SalUpdate, CoreType
<1> QED BY <1>1, <1>2, <1>3, <1>4, <1>5

-----------------------------------------------------------------------------
(* linphone_call_set_state()                                               *)

\* Nothing but call c moves, and the list only by c.
LEMMA OneProceeds ==
  ASSUME NEW s, NEW t, NEW c \in Call,
         \A d \in Call \ {c} : t.state[d] = s.state[d] /\ (d \in t.calls <=> d \in s.calls),
         Forward(s, t, c)
  PROVE  Proceeds(s, t, c) /\ (Unanswered(s, t, c) => Steady(s, t))
BY DEF Proceeds, Steady, Forward, Unanswered

\* A call enters a state that is neither the first nor the last.
LEMMA SetStateProceeds ==
  ASSUME NEW s \in CoreType, NEW q, NEW c \in Call, NEW new \in CallState \ {"Idle", "Released"},
         Frame(s, q), Here(s, c), s.state[c] \in Answered => new \in Answered \cup Ended
  PROVE  LET t == SetState(q, c, new)
         IN  /\ t \in CoreType /\ Proceeds(s, t, c) /\ Here(t, c)
             /\ new \notin Answered \/ s.state[c] \in Answered => Steady(s, t)
             /\ s.state[c] \in Ended => t.state[c] = s.state[c]
             /\ s.state[c] \notin Ended => t.state[c] = new
             /\ \A d \in Call \ {c} : t.state[d] = s.state[d] /\ (d \in t.calls <=> d \in s.calls)
             /\ new \notin Ended \/ s.state[c] \in Ended => (c \in t.calls <=> c \in s.calls)
<1> DEFINE t == SetState(q, c, new)
<1>1. q \in CoreType /\ q.state = s.state /\ q.calls = s.calls /\ s.state[c] \in CallState
  BY DEF Frame, CoreType
<1>2. t \in CoreType
  BY <1>1, SetStateKeeps DEF Keeps
<1>3. CASE q.state[c] = new
  <2>1. t = q
    BY <1>3 DEF SetState
  <2> QED BY <1>1, <1>2, <1>3, <2>1, FrameSteady, SteadyProceeds DEF Here
<1>4. CASE q.state[c] # new /\ q.state[c] \in Ended
  <2>1. t = Remembered(q, c)
    BY <1>4 DEF SetState
  <2>2. Frame(s, t)
    BY <1>1, <1>2, <2>1 DEF Frame, Remembered
  <2> HIDE DEF t
  <2> QED BY <1>1, <1>2, <1>4, <2>2, FrameSteady, SteadyProceeds DEF Here, Frame, t
<1>5. CASE q.state[c] # new /\ q.state[c] \notin Ended
  <2>1. Only(q, t, c) /\ t.state[c] = new /\ (c \in t.calls <=> c \in q.calls /\ new \notin Ended)
    BY <1>1, <1>5, SetStateMoves
  <2> HIDE DEF t
  <2>2. \A d \in Call \ {c} : t.state[d] = s.state[d] /\ (d \in t.calls <=> d \in s.calls)
    BY <1>1, <2>1 DEF Only, Same
  <2>3. Forward(s, t, c)
    BY <1>1, <1>5, <2>1 DEF Forward, Here
  <2>4. new \notin Answered \/ s.state[c] \in Answered => Unanswered(s, t, c)
    BY <2>1 DEF Unanswered
  <2> QED BY <1>1, <1>2, <1>5, <2>1, <2>2, <2>3, <2>4, OneProceeds DEF Here, t
<1> QED BY <1>3, <1>4, <1>5

-----------------------------------------------------------------------------
(* The end of a call                                                       *)

\* The states in which a call ends
LEMMA EndTypes ==
  /\ "End" \in CallState \ {"Idle", "Released"} /\ "Error" \in CallState \ {"Idle", "Released"}
  /\ {"End", "Error"} \subseteq Ended /\ Ended \cap Answered = {}
BY DEF CallState, Ended, Answered

\* terminate_call()
LEMMA TerminateLocallySteady ==
  ASSUME NEW s \in CoreType, NEW q, NEW c \in Call, Frame(s, q), Here(s, c)
  PROVE  LET t == TerminateLocally(q, c)
         IN  /\ t \in CoreType /\ Steady(s, t) /\ t.state[c] \in Ended
             /\ \A d \in Call \ {c} : t.state[d] = s.state[d] /\ (d \in t.calls <=> d \in s.calls)
<1> DEFINE e == IF q.state[c] = "IncomingReceived" /\ q.err[c] # "timeout"
                THEN EndReason(q, c, "declined") ELSE q
           r == StopRinging(e)
           p == StopStreams(r, c)
<1>1. TerminateLocally(q, c) = SetState(p, c, "End")
  BY DEF TerminateLocally
<1>2. Frame(q, e)
  BY OperationFrames, CoreFrames DEF Frame
<1> HIDE DEF e
<1>3. Frame(e, r)
  BY <1>2, CoreFrames DEF Frame
<1> HIDE DEF r
<1>4. Frame(r, p)
  BY <1>3, CoreFrames DEF Frame
<1>5. Frame(s, p)
  BY <1>2, <1>3, <1>4 DEF Frame
<1> HIDE DEF p
<1> QED BY <1>1, <1>5, EndTypes, SetStateProceeds

\* linphone_core_decline_call()
LEMMA DeclineCallSteady ==
  ASSUME NEW s \in CoreType, NEW q, NEW c \in Call, Frame(s, q), Here(s, c)
  PROVE  LET t == DeclineCall(q, c)
         IN  /\ t \in CoreType /\ Steady(s, t) /\ t.state[c] \in Ended
             /\ \A d \in Call \ {c} : t.state[d] = s.state[d] /\ (d \in t.calls <=> d \in s.calls)
<1>1. Frame(s, SalTerminate(q, c))
  BY SalFrames DEF Frame
<1> QED BY <1>1, TerminateLocallySteady DEF DeclineCall

\* linphone_core_terminate_call()
LEMMA TerminateCallSteady ==
  ASSUME NEW s \in CoreType, NEW c \in Call, Here(s, c)
  PROVE  LET t == TerminateCall(s, c)
         IN  /\ t \in CoreType /\ Steady(s, t)
             /\ s.state[c] # "Released" => t.state[c] \in Ended
<1>1. Frame(s, s) /\ Frame(s, SalRelease(s, c)) /\ Frame(s, SalTerminate(s, c))
  BY CoreFrames, SalFrames
<1>2. CASE s.state[c] \in {"Released", "End"}
  <2>1. TerminateCall(s, c) = s
    BY <1>2 DEF TerminateCall, Alerting
  <2> QED BY <1>1, <1>2, <2>1, FrameSteady, EndTypes
<1>3. CASE s.state[c] \notin {"Released", "End"}
  <2>1. \/ TerminateCall(s, c) = DeclineCall(s, c)
        \/ TerminateCall(s, c) = TerminateLocally(SalRelease(s, c), c)
        \/ TerminateCall(s, c) = TerminateLocally(SalTerminate(s, c), c)
    BY <1>3 DEF TerminateCall
  <2>2. /\ DeclineCall(s, c) \in CoreType /\ Steady(s, DeclineCall(s, c)) /\ DeclineCall(s, c).state[c] \in Ended
    BY <1>1, DeclineCallSteady
  <2>3. LET t == TerminateLocally(SalRelease(s, c), c)
        IN  t \in CoreType /\ Steady(s, t) /\ t.state[c] \in Ended
    BY <1>1, TerminateLocallySteady
  <2>4. LET t == TerminateLocally(SalTerminate(s, c), c)
        IN  t \in CoreType /\ Steady(s, t) /\ t.state[c] \in Ended
    BY <1>1, TerminateLocallySteady
  <2> QED BY <2>1, <2>2, <2>3, <2>4
<1> QED BY <1>2, <1>3

\* linphone_core_abort_call()
LEMMA AbortCallSteady ==
  ASSUME NEW s \in CoreType, NEW c \in Call, Here(s, c)
  PROVE  LET t == AbortCall(s, c)
         IN  t \in CoreType /\ Steady(s, t) /\ Here(t, c)
<1> DEFINE a == SalTerminate(s, c)
           r == StopRinging(a)
           p == StopStreams(r, c)
<1>1. AbortCall(s, c) = SetState(p, c, "Error")
  BY DEF AbortCall
<1>2. Frame(s, a)
  BY SalFrames
<1> HIDE DEF a
<1>3. Frame(a, r)
  BY <1>2, CoreFrames DEF Frame
<1> HIDE DEF r
<1>4. Frame(r, p)
  BY <1>3, CoreFrames DEF Frame
<1>5. Frame(s, p)
  BY <1>2, <1>3, <1>4 DEF Frame
<1> HIDE DEF p
<1> QED BY <1>1, <1>5, EndTypes, SetStateProceeds

\* The calls still being placed end, and no other call moves.
LEMMA CancelOutgoingSteady ==
  ASSUME NEW s \in CoreType, NEW c \in Call
  PROVE  LET t == CancelOutgoing(s, c)
         IN  /\ t \in CoreType /\ Steady(s, t)
             /\ \A d \in Call : d = c \/ s.state[d] \notin Outgoing =>
                  t.state[d] = s.state[d] /\ t.op[d] = s.op[d] /\ (d \in t.calls <=> d \in s.calls)
             /\ t.replaces = s.replaces
<1> DEFINE gone == {a \in s.calls \ {c} : s.state[a] \in Outgoing}
           x == AllClosing(s, gone)
           y == AllTerminated(x, gone)
           z == AllEnded(y, gone)
           t == CancelOutgoing(s, c)
<1>1. t \in CoreType
  BY CancelOutgoingKeeps DEF Keeps
<1>2. CASE gone = {}
  <2>1. t = s
    BY <1>2 DEF CancelOutgoing
  <2> QED BY <1>1, <2>1, CoreFrames, FrameSteady
<1>3. CASE gone # {}
  <2>1. t = StopRinging(z)
    BY <1>3 DEF CancelOutgoing
  <2> HIDE DEF gone
  <2>2. /\ x.state = s.state /\ x.calls = s.calls /\ x.replaces = s.replaces
        /\ x.op = [a \in Call |-> IF a \notin gone THEN s.op[a]
                                  ELSE IF s.state[a] = "OutgoingInit" THEN "none"
                                  ELSE ClosingPhase(s.op[a])]
    BY DEF AllClosing, CoreType
  <2>3. DOMAIN x = DOMAIN s
    BY DEF AllClosing, CoreType
  <2>4. y.state = x.state /\ y.op = x.op /\ y.calls = s.calls \ gone /\ y.replaces = s.replaces
    BY <2>2, <2>3 DEF AllTerminated, CoreType
  <2>5. DOMAIN y = DOMAIN s
    BY <2>3 DEF AllTerminated
  <2> HIDE DEF x
  <2>6. /\ z.op = y.op /\ z.calls = y.calls /\ z.replaces = y.replaces
        /\ z.state = [a \in Call |-> IF a \in gone THEN "End" ELSE y.state[a]]
    BY <2>5 DEF AllEnded, CoreType
  <2> HIDE DEF y, z
  <2>7. t.state = z.state /\ t.op = z.op /\ t.calls = z.calls /\ t.replaces = z.replaces
    BY <2>1 DEF StopRinging
  <2> HIDE DEF t
  <2>8. \A d \in Call \ gone : t.state[d] = s.state[d] /\ t.op[d] = s.op[d] /\ (d \in t.calls <=> d \in s.calls)
    BY <2>2, <2>4, <2>6, <2>7
  <2>9. \A d \in gone : d \in s.calls /\ d \notin t.calls /\ t.state[d] = "End" /\ d # c /\ s.state[d] \in Outgoing
    BY <2>4, <2>6, <2>7 DEF gone, CoreType
  <2>10. Steady(s, t)
    <3>1. ASSUME NEW d \in Call, d \in gone PROVE Forward(s, t, d) /\ Unanswered(s, t, d)
      BY <2>9, <3>1 DEF Forward, Unanswered, Ended, Answered
    <3>2. ASSUME NEW d \in Call, d \notin gone PROVE Forward(s, t, d) /\ Unanswered(s, t, d)
      BY <2>8, <3>2 DEF Forward, Unanswered
    <3> QED BY <3>1, <3>2 DEF Steady
  <2> QED BY <1>1, <2>2, <2>4, <2>6, <2>7, <2>8, <2>9, <2>10 DEF t
<1> QED BY <1>2, <1>3

\* Call d is listed as before, in the same state or another one of an answered call.
Still(s, t, d) ==
  /\ t.state[d] = s.state[d] \/ (d \in s.calls /\ s.state[d] \in Answered /\ t.state[d] \in Answered)
  /\ d \in t.calls <=> d \in s.calls

\* No call but c moves.
StillBut(s, t, c) == \A d \in Call \ {c} : Still(s, t, d)

\* A call that two steps leave in place is left in place by both.
LEMMA StillTrans ==
  ASSUME NEW s, NEW t, NEW u, NEW c \in Call
  PROVE  /\ \A d : Still(s, t, d) /\ Still(t, u, d) => Still(s, u, d)
         /\ StillBut(s, t, c) /\ StillBut(t, u, c) => StillBut(s, u, c)
BY DEF Still, StillBut

\* What an update does not touch stays in place.
LEMMA FrameStill ==
  ASSUME NEW s, NEW t, NEW c \in Call
  PROVE  /\ Frame(s, t) => StillBut(s, t, c) /\ \A d \in Call : Still(s, t, d)
         /\ Only(s, t, c) => StillBut(s, t, c)
BY DEF Frame, Only, Same, Still, StillBut

\* When the other calls are still it is enough to look at c.
LEMMA StillProceeds ==
  ASSUME NEW s, NEW t, NEW c \in Call, StillBut(s, t, c), Forward(s, t, c)
  PROVE  Proceeds(s, t, c) /\ (Unanswered(s, t, c) => Steady(s, t))
<1>1. Answered \cap Ended = {}
  BY DEF Answered, Ended
<1>2. \A d \in Call \ {c} : Forward(s, t, d) /\ Unanswered(s, t, d)
  BY <1>1 DEF StillBut, Still, Forward, Unanswered
<1> QED BY <1>2 DEF Proceeds, Steady

\* A call that stays in place neither goes back nor is answered.
LEMMA StillIsForward ==
  ASSUME NEW s, NEW t, NEW d, Still(s, t, d)
  PROVE  Forward(s, t, d) /\ Unanswered(s, t, d)
<1>1. Answered \cap Ended = {}
  BY DEF Answered, Ended
<1> QED BY <1>1 DEF Still, Forward, Unanswered

\* A listed call is not in its first or last state, or it rings.
LEMMA ListedStates ==
  ASSUME NEW s, NEW c \in Call, Consistent(s)
  PROVE  /\ s \in CoreType
         /\ s.state[c] \in CallState
         /\ s.state[c] \in Ended => c \notin s.calls
         /\ s.state[c] \in Live => c \in s.calls /\ s.state[c] \notin Ended
         /\ s.state[c] \in Answered => c \in s.calls
<1>1. s \in CoreType /\ ListFits(s, c) /\ s.state[c] \in CallState
  BY DEF Consistent, CallFits, CoreType
<1>2. s.state[c] \in Answered => s.state[c] \in Live
  BY <1>1 DEF Answered, Live, Ended
<1>3. s.state[c] \in Ended => s.state[c] \notin Live /\ s.state[c] # "Idle"
  BY DEF Live, Ended
<1> QED BY <1>1, <1>2, <1>3 DEF ListFits

\* Where a live call or one that is over may go.
LEMMA MovesForward ==
  ASSUME NEW s, NEW t, NEW c \in Call, Consistent(s), Consistent(t),
         \/ t.state[c] = s.state[c] /\ (c \in t.calls <=> c \in s.calls)
         \/ s.state[c] \in Live /\ t.state[c] \in Ended
         \/ s.state[c] \in Live \ Answered /\ t.state[c] \in Live
         \/ s.state[c] \in Answered /\ t.state[c] \in Answered
         \/ s.state[c] \in Ended /\ t.state[c] \in Ended
  PROVE  Forward(s, t, c)
<1>1. /\ s.state[c] \in Ended => c \notin s.calls
      /\ s.state[c] \in Live => c \in s.calls /\ s.state[c] \notin Ended
      /\ s.state[c] \in Answered => c \in s.calls
      /\ t.state[c] \in Ended => c \notin t.calls
      /\ t.state[c] \in Live => c \in t.calls /\ t.state[c] \notin Ended
      /\ t.state[c] \in Answered => c \in t.calls
  BY ListedStates
<1>2. Answered \cap Ended = {}
  BY DEF Answered, Ended
<1> QED BY <1>1, <1>2 DEF Forward

-----------------------------------------------------------------------------
(* The steps that are not forward                                          *)

\* A call that stays in place keeps its phase.
LEMMA StillPhase ==
  ASSUME NEW s, NEW t, NEW d \in Call, ~ UseIce, Consistent(s), Consistent(t), Still(s, t, d)
  PROVE  Phase(t, d) = Phase(s, d)
<1>1. /\ Phase(s, d) \in {"unused", "pending", "talking", "over", "released"}
      /\ Phase(s, d) = "talking" <=> s.state[d] \in Answered
      /\ Phase(s, d) = "over" <=> s.state[d] \in Ended
      /\ Phase(s, d) = "released" <=> s.state[d] = "Released"
      /\ Phase(s, d) = "unused" <=> s.state[d] = "Idle" /\ d \notin s.calls
  BY PhaseRow
<1>2. /\ Phase(t, d) \in {"unused", "pending", "talking", "over", "released"}
      /\ Phase(t, d) = "talking" <=> t.state[d] \in Answered
      /\ Phase(t, d) = "over" <=> t.state[d] \in Ended
      /\ Phase(t, d) = "released" <=> t.state[d] = "Released"
      /\ Phase(t, d) = "unused" <=> t.state[d] = "Idle" /\ d \notin t.calls
  BY PhaseRow
<1> QED BY <1>1, <1>2 DEF Still

\* What moves only call c is a step of its own, according to where it takes c.
LEMMA OneMoved ==
  ASSUME NEW c \in Call, ~ UseIce, Consistent(lc), Consistent(lc'), StillBut(lc, lc', c)
  PROVE  Lifecycle!Moved(c, Phase(lc', c), {})
<1>1. \A d \in Call : Phase(lc', d) = IF d = c THEN Phase(lc', c)
                                      ELSE IF d \in {} THEN "over" ELSE Phase(lc, d)
  BY StillPhase DEF StillBut
<1>2. Phase(lc', c) \in {"unused", "pending", "talking", "over", "released"}
  BY PhaseRow
<1>3. MovedTo(lc, lc', c, Phase(lc', c), {})
  BY <1>1, <1>2, MovedList
<1> QED BY <1>3, MovedMapped

\* A new call, placed or received, or over at once
LEMMA StartImplements ==
  ASSUME NEW c \in Call, ~ UseIce, Consistent(lc), Consistent(lc'), StillBut(lc, lc', c),
         Phase(lc, c) = "unused", Phase(lc', c) \in {"pending", "over"}
  PROVE  Lifecycle!Next
<1>1. Lifecycle!Moved(c, Phase(lc', c), {})
  BY OneMoved
<1>2. [d \in Call |-> PhaseOf(d)][c] = "unused"
  BY PhaseMapped
<1>3. Lifecycle!Start(c)
  BY <1>1, <1>2 DEF Lifecycle!Start
<1> QED BY <1>3 DEF Lifecycle!Next

\* The last state of a call, from its end or from its failure
LEMMA ReleaseImplements ==
  ASSUME NEW c \in Call, ~ UseIce, Consistent(lc), Consistent(lc'), StillBut(lc, lc', c),
         Phase(lc, c) \in {"pending", "over"}, Phase(lc', c) = "released"
  PROVE  Lifecycle!Next
<1>1. Lifecycle!Moved(c, "released", {})
  BY OneMoved
<1>2. [d \in Call |-> PhaseOf(d)][c] \in {"pending", "over"}
  BY PhaseMapped
<1>3. Lifecycle!Abandon(c) \/ Lifecycle!Release(c)
  BY <1>1, <1>2 DEF Lifecycle!Abandon, Lifecycle!Release
<1> QED BY <1>3 DEF Lifecycle!Next

\* A new call answered at once in place of another one (Replaces)
LEMMA ReplaceImplements ==
  ASSUME NEW c \in Call, ~ UseIce, Consistent(lc), Consistent(lc'),
         \A d \in Call \ {c} : Forward(lc, lc', d) /\ Unanswered(lc, lc', d),
         Phase(lc, c) = "unused", Phase(lc', c) = "talking",
         NEW r \in lc.calls \ {c}, lc'.state[r] \in Ended
  PROVE  Lifecycle!Next
<1> DEFINE gone == {d \in Call \ {c} : Phase(lc, d) \in {"pending", "talking"} /\ Phase(lc', d) = "over"}
<1>1. \A d \in Call :
        /\ Phase(lc, d) \in {"pending", "talking"} <=> d \in lc.calls
        /\ Phase(lc', d) = "over" <=> lc'.state[d] \in Ended
  BY PhaseRow
<1>2. gone \in SUBSET (lc.calls \ {c})
  BY <1>1
<1>3. r \in Call
  BY DEF Consistent, CoreType
<1>4. r \in gone
  BY <1>1, <1>3
<1>5. \A d \in Call \ {c} : Phase(lc', d) = IF d \in gone THEN "over" ELSE Phase(lc, d)
  BY ForwardPhase
<1>6. \A d \in Call : Phase(lc', d) = IF d = c THEN "talking"
                                      ELSE IF d \in gone THEN "over" ELSE Phase(lc, d)
  BY <1>5
<1> HIDE DEF gone
<1>7. Lifecycle!Moved(c, "talking", gone)
  BY <1>2, <1>6, MovedList, MovedMapped
<1>8. [d \in Call |-> PhaseOf(d)][c] = "unused"
  BY PhaseMapped
<1>9. Lifecycle!Replace(c)
  BY <1>2, <1>4, <1>7, <1>8 DEF Lifecycle!Replace
<1> QED BY <1>9 DEF Lifecycle!Next

\* Every call stays in place.
AllStill(s, t) == \A d \in Call : Still(s, t, d)

\* A step that leaves all calls in place answers none.
LEMMA AllStillSteady ==
  ASSUME NEW s, NEW t, AllStill(s, t)
  PROVE  Steady(s, t) /\ \A c \in Call : StillBut(s, t, c)
BY StillIsForward DEF AllStill, Steady, StillBut

\* All calls stay in place over two steps that leave them there.
LEMMA AllStillTrans ==
  ASSUME NEW s, NEW t, NEW u
  PROVE  /\ AllStill(s, t) /\ AllStill(t, u) => AllStill(s, u)
         /\ Frame(s, t) => AllStill(s, t)
BY DEF AllStill, Still, Frame

\* Nothing but call c moves, and c within the states of an answered call.
LEMMA OnlyStill ==
  ASSUME NEW s, NEW t, NEW c \in Call, Only(s, t, c), Still(s, t, c)
  PROVE  AllStill(s, t)
BY FrameStill DEF AllStill, StillBut

\* linphone_call_set_state() on call c, in whatever state it is.
LEMMA SetStateOne ==
  ASSUME NEW q \in CoreType, NEW c \in Call, NEW new \in CallState \ {"Released"}
  PROVE  LET t == SetState(q, c, new)
         IN  /\ t \in CoreType /\ StillBut(q, t, c)
             /\ q.state[c] \notin Ended => t.state[c] = new
             /\ q.state[c] \in Ended => t.state[c] = q.state[c]
<1> DEFINE t == SetState(q, c, new)
<1>1. t \in CoreType
  BY SetStateKeeps DEF Keeps
<1>2. CASE q.state[c] = new
  <2>1. t = q
    BY <1>2 DEF SetState
  <2> QED BY <1>2, <2>1 DEF StillBut, Still
<1>3. CASE q.state[c] # new /\ q.state[c] \in Ended
  <2>1. t = Remembered(q, c)
    BY <1>3 DEF SetState
  <2>2. t.state = q.state /\ t.calls = q.calls
    BY <2>1 DEF Remembered, CoreType
  <2> HIDE DEF t
  <2> QED BY <1>1, <1>3, <2>2 DEF StillBut, Still, t
<1>4. CASE q.state[c] # new /\ q.state[c] \notin Ended
  <2>1. Only(q, t, c) /\ t.state[c] = new
    BY <1>4, SetStateMoves
  <2> HIDE DEF t
  <2> QED BY <1>1, <1>4, <2>1, FrameStill DEF t
<1> QED BY <1>2, <1>3, <1>4

-----------------------------------------------------------------------------
(* Pausing, resuming and the sound resources                               *)

\* linphone_core_pause_call()
LEMMA PauseCallStill ==
  ASSUME NEW s, NEW c \in Call, Consistent(s)
  PROVE  AllStill(s, PauseCall(s, c))
<1> DEFINE t == PauseCall(s, c)
<1>1. /\ Only(s, t, c) /\ t.calls = s.calls
      /\ s.state[c] \notin {"StreamsRunning", "PausedByRemote"} => t = s
      /\ s.state[c] \in {"StreamsRunning", "PausedByRemote"} =>
           t.state[c] \in {s.state[c], "Pausing"}
  BY PauseCallLeads
<1> HIDE DEF t
<1>2. s.state[c] \in Answered => c \in s.calls
  BY ListedStates
<1>3. Still(s, t, c)
  BY <1>1, <1>2 DEF Still, Answered
<1> QED BY <1>1, <1>3, OnlyStill DEF t

\* linphone_core_preempt_sound_resources()
LEMMA PreemptStill ==
  ASSUME NEW s, Consistent(s)
  PROVE  AllStill(s, Preempt(s)) /\ Consistent(Preempt(s))
<1> DEFINE p == IF s.current # NoCall THEN PauseCall(s, s.current) ELSE s
<1>1. s \in CoreType /\ (s.current # NoCall => s.current \in Call)
  BY DEF Consistent, CoreType
<1>2. Preempt(s) = StopRinging(p)
  BY DEF Preempt
<1>3. AllStill(s, s)
  BY DEF AllStill, Still
<1>4. s.current # NoCall => AllStill(s, PauseCall(s, s.current))
  BY <1>1, PauseCallStill
<1>5. AllStill(s, p)
  BY <1>3, <1>4
<1> HIDE DEF p
<1>6. StopRinging(p).state = p.state /\ StopRinging(p).calls = p.calls
  BY DEF StopRinging
<1>7. AllStill(p, StopRinging(p))
  BY <1>6 DEF AllStill, Still
<1>8. Consistent(Preempt(s))
  BY PreemptLeads DEF Leads
<1> QED BY <1>2, <1>5, <1>7, <1>8, AllStillTrans

\* linphone_core_resume_call()
LEMMA ResumeCallStill ==
  ASSUME NEW s, NEW c \in Call, Consistent(s)
  PROVE  AllStill(s, ResumeCall(s, c))
<1> DEFINE m == Preempt(s)
           p == AutoPaused(m, c, FALSE)
           u == SalUpdate(p, c, "reinvite")
           r == SetState(u, c, "Resuming")
           k == MakeCurrent(r, c)
<1>1. ResumeCall(s, c) \in {s, p, k}
  BY DEF ResumeCall
<1>2. s.state[c] # "Paused" => ResumeCall(s, c) = s
  BY DEF ResumeCall
<1>3. AllStill(s, s)
  BY DEF AllStill, Still
<1>4. AllStill(s, m) /\ Consistent(m) /\ m \in CoreType /\ Consistent(s)
  BY PreemptStill DEF Consistent
<1>5. s.state[c] = "Paused" => m.state[c] = "Paused" /\ c \in m.calls
  <2>1. s.state[c] = "Paused" => Same(s, m, c)
    BY PreemptLeads
  <2>2. m.state[c] \in Answered => c \in m.calls
    BY <1>4, ListedStates
  <2> QED BY <2>1, <2>2 DEF Same, Answered
<1> HIDE DEF m
<1>6. Frame(m, p)
  BY <1>4, OperationFrames DEF Frame
<1> HIDE DEF p
<1>7. Frame(p, u)
  BY <1>6, SalFrames DEF Frame, Request
<1>8. u \in CoreType /\ AllStill(s, u) /\ u.state = m.state /\ u.calls = m.calls /\ AllStill(s, p)
  BY <1>4, <1>6, <1>7, AllStillTrans DEF Frame
<1> HIDE DEF u
<1>9. ASSUME s.state[c] = "Paused" PROVE AllStill(s, k)
  <2>1. "Resuming" \in CallState \ {"Released"} /\ u.state[c] \notin Ended /\ u.state[c] # "Resuming"
        /\ "Resuming" \notin Ended /\ {"Paused", "Resuming"} \subseteq Answered
    BY <1>5, <1>8, <1>9 DEF CallState, Ended, Answered
  <2>2. Only(u, r, c) /\ r.state[c] = "Resuming" /\ (c \in r.calls <=> c \in u.calls)
    BY <1>8, <2>1, SetStateMoves
  <2> HIDE DEF r
  <2>3. Still(u, r, c)
    BY <1>5, <1>8, <1>9, <2>1, <2>2 DEF Still
  <2>4. AllStill(u, r) /\ r \in CoreType
    BY <2>2, <2>3, OnlyStill DEF Only
  <2>5. Frame(r, k)
    BY <2>4, CoreFrames
  <2> QED BY <1>8, <2>4, <2>5, AllStillTrans
<1> QED BY <1>1, <1>2, <1>3, <1>8, <1>9

\* start_pending_refer(), the queued resume
LEMMA ResumeTaskStill ==
  ASSUME NEW s, NEW c \in Call, Consistent(s)
  PROVE  AllStill(s, ResumeTask(s, c))
<1> DEFINE q == DequeueResume(s, c)
<1>1. s \in CoreType
  BY DEF Consistent
<1>2. Frame(s, q) /\ Silent(s, q)
  BY <1>1, CoreFrames, MediaIsSilent
<1>3. Consistent(q)
  BY <1>2, SilentLeads DEF Leads
<1>4. ResumeTask(s, c) = ResumeCall(q, c) \/ ResumeTask(s, c) = q
  BY DEF ResumeTask
<1> HIDE DEF q
<1>5. AllStill(q, ResumeCall(q, c)) /\ AllStill(s, q)
  BY <1>2, <1>3, ResumeCallStill, AllStillTrans
<1> QED BY <1>4, <1>5, AllStillTrans

-----------------------------------------------------------------------------
(* Outgoing calls                                                          *)

\* linphone_core_start_invite(): the call is placed, or over.
LEMMA StartInviteMoves ==
  ASSUME NEW s \in CoreType, NEW c \in Call, NEW sent \in BOOLEAN, s.state[c] \notin Ended
  PROVE  LET t == StartInvite(s, c, sent)
         IN  /\ StillBut(s, t, c) /\ t \in CoreType
             /\ t.state[c] = IF sent THEN "OutgoingProgress" ELSE "Error"
<1> DEFINE q == Operation(s, c, "inviting")
           f == StopStreams(s, c)
<1>1. "OutgoingProgress" \in CallState \ {"Released"} /\ "Error" \in CallState \ {"Released"}
      /\ "inviting" \in OpPhase
  BY DEF CallState, OpPhase
<1>2. Frame(s, q) /\ Frame(s, f)
  BY <1>1, OperationFrames, CoreFrames
<1>3. StartInvite(s, c, sent) = IF sent THEN SetState(q, c, "OutgoingProgress") ELSE SetState(f, c, "Error")
  BY DEF StartInvite
<1> HIDE DEF q, f
<1>4. q \in CoreType /\ f \in CoreType /\ q.state[c] \notin Ended /\ f.state[c] \notin Ended
      /\ StillBut(s, q, c) /\ StillBut(s, f, c)
  BY <1>2, FrameStill DEF Frame
<1>5. LET t == SetState(q, c, "OutgoingProgress")
      IN  t \in CoreType /\ StillBut(q, t, c) /\ t.state[c] = "OutgoingProgress"
  BY <1>1, <1>4, SetStateOne
<1>6. LET t == SetState(f, c, "Error")
      IN  t \in CoreType /\ StillBut(f, t, c) /\ t.state[c] = "Error"
  BY <1>1, <1>4, SetStateOne
<1> QED BY <1>3, <1>4, <1>5, <1>6, StillTrans

\* linphone_core_restart_invite()
LEMMA RestartInviteMoves ==
  ASSUME NEW s \in CoreType, NEW c \in Call, NEW sent \in BOOLEAN, s.state[c] \notin Ended,
         s.retries[c] < MaxRetries
  PROVE  LET t == RestartInvite(s, c, sent)
         IN  StillBut(s, t, c) /\ t.state[c] \in {"OutgoingProgress", "Error"}
<1> DEFINE f == StopStreams(s, c)
           n == NextOperation(f, c)
<1>1. Frame(s, f) /\ f.retries[c] < MaxRetries
  BY CoreFrames DEF StopStreams, CoreType
<1>2. RestartInvite(s, c, sent) = StartInvite(n, c, sent)
  BY DEF RestartInvite
<1> HIDE DEF f
<1>3. Frame(f, n)
  BY <1>1, OperationFrames DEF Frame
<1>4. Frame(s, n)
  BY <1>1, <1>3, FrameTrans
<1> HIDE DEF n
<1>5. n \in CoreType /\ n.state[c] \notin Ended /\ StillBut(s, n, c)
  BY <1>4, FrameStill DEF Frame
<1>6. /\ StillBut(n, StartInvite(n, c, sent), c)
      /\ StartInvite(n, c, sent).state[c] \in {"OutgoingProgress", "Error"}
  BY <1>5, StartInviteMoves
<1>7. StillBut(s, StartInvite(n, c, sent), c)
  BY <1>5, <1>6, StillTrans
<1> QED BY <1>2, <1>6, <1>7

\* linphone_core_invite_address_with_params(): nothing but sound moves, or the new call starts.
LEMMA InviteCallStarts ==
  ASSUME NEW s, NEW c \in Call, NEW ref \in Call \cup {NoCall}, NEW sent \in BOOLEAN,
         Consistent(s), ~ UseIce, s.state[c] = "Idle", s.op[c] = "none"
  PROVE  LET t == InviteCall(s, c, ref, sent)
         IN  AllStill(s, t) \/ (StillBut(s, t, c) /\ t.state[c] \in {"OutgoingProgress", "Error"})
<1> DEFINE p == Preempt(s)
           a == AddCall(p, c, "init")
           r == Referer(a, c, ref)
           m == MakeCurrent(r, c)
           i == SetState(m, c, "OutgoingInit")
           x == StartInvite(i, c, sent)
<1>1. AllStill(s, p) /\ Consistent(p) /\ p \in CoreType
  BY PreemptStill DEF Consistent
<1>2. p.state[c] = "Idle" /\ "init" \in OpPhase
  BY PreemptLeads DEF Same, OpPhase
<1>3. InviteCall(s, c, ref, sent) \in {p, x}
  BY DEF InviteCall
<1> HIDE DEF p
<1>4. Only(p, a, c) /\ a.state = p.state
  BY <1>1, <1>2, AddCallOnly
<1>5. a \in CoreType /\ StillBut(p, a, c) /\ a.state[c] = "Idle"
  BY <1>2, <1>4, FrameStill DEF Only
<1> HIDE DEF a
<1>6. Frame(a, r)
  BY <1>5, OperationFrames
<1> HIDE DEF r
<1>7. Frame(r, m)
  BY <1>6, CoreFrames DEF Frame
<1>8. m \in CoreType /\ m.state[c] = "Idle" /\ StillBut(a, m, c)
  BY <1>5, <1>6, <1>7, FrameTrans, FrameStill DEF Frame
<1> HIDE DEF m
<1>9. "OutgoingInit" \in CallState \ {"Released"} /\ "Idle" \notin Ended /\ "OutgoingInit" \notin Ended
  BY DEF CallState, Ended
<1>10. i \in CoreType /\ StillBut(m, i, c) /\ i.state[c] = "OutgoingInit"
  BY <1>8, <1>9, SetStateOne
<1> HIDE DEF i
<1>11. StillBut(i, x, c) /\ x.state[c] \in {"OutgoingProgress", "Error"}
  BY <1>9, <1>10, StartInviteMoves
<1> HIDE DEF x
<1>12. StillBut(s, p, c)
  BY <1>1, AllStillSteady
<1>13. StillBut(s, x, c)
  BY <1>5, <1>8, <1>10, <1>11, <1>12, StillTrans
<1> QED BY <1>1, <1>3, <1>11, <1>13

\* linphone_core_start_refered_call()
LEMMA StartReferedCallStarts ==
  ASSUME NEW s, NEW c \in Call, NEW n \in Call \ {c}, NEW sent \in BOOLEAN,
         Consistent(s), ~ UseIce, s.state[n] = "Idle", s.op[n] = "none"
  PROVE  LET t == StartReferedCall(s, c, n, sent)
         IN  AllStill(s, t) \/ (StillBut(s, t, n) /\ t.state[n] \in {"OutgoingProgress", "Error"})
<1> DEFINE q == PauseCall(s, c)
           a == AutoPaused(q, c, TRUE)
           p == IF s.state[c] = "Paused" THEN s ELSE a
<1>1. AllStill(s, q) /\ Leads(s, q) /\ Only(s, q, c) /\ q \in CoreType /\ Consistent(q)
  BY PauseCallStill, PauseCallLeads DEF Leads, Consistent
<1> HIDE DEF q
<1>2. Silent(q, a) /\ Frame(q, a)
  BY <1>1, MediaIsSilent, OperationFrames
<1> HIDE DEF a
<1>3. Consistent(a) /\ AllStill(s, a) /\ Only(q, a, c)
  BY <1>1, <1>2, SilentLeads, SilentOnly, AllStillTrans DEF Leads
<1>4. Only(s, a, c)
  BY <1>1, <1>3, SilentOnly
<1>5. Consistent(p) /\ AllStill(s, p) /\ p.state[n] = "Idle" /\ p.op[n] = "none"
  <2>1. a.state[n] = "Idle" /\ a.op[n] = "none"
    BY <1>4 DEF Only, Same
  <2>2. AllStill(s, s)
    BY DEF AllStill, Still
  <2> QED BY <1>3, <2>1, <2>2
<1>6. StartReferedCall(s, c, n, sent) = InviteCall(p, n, c, sent)
  BY DEF StartReferedCall, q, a
<1> HIDE DEF p
<1> DEFINE t == InviteCall(p, n, c, sent)
<1>7. AllStill(p, t) \/ (StillBut(p, t, n) /\ t.state[n] \in {"OutgoingProgress", "Error"})
  BY <1>5, InviteCallStarts
<1>8. StillBut(s, p, n)
  BY <1>5, AllStillSteady
<1> HIDE DEF t
<1>9. AllStill(s, t) \/ (StillBut(s, t, n) /\ t.state[n] \in {"OutgoingProgress", "Error"})
  BY <1>5, <1>7, <1>8, AllStillTrans, StillTrans
<1> QED BY <1>6, <1>9 DEF t

\* A call that is over stays so.
LEMMA SteadyEnds ==
  ASSUME NEW s, NEW t, NEW c, NEW r \in Call, s.state[r] \in Ended
  PROVE  /\ Steady(s, t) => t.state[r] \in Ended
         /\ Proceeds(s, t, c) => t.state[r] \in Ended
BY DEF Steady, Proceeds, Forward

\* Any call with an operation is listed, or over.
LEMMA OperationIsHere ==
  ASSUME NEW s, NEW c \in Call, Consistent(s), s.op[c] # "none" \/ s.state[c] \in Live \cup Ended
  PROVE  Here(s, c)
<1>1. CallFits(s, c) /\ s.state[c] \in CallState
  BY DEF Consistent, CoreType
<1>2. s.state[c] \in Live \cup Ended \cup {"Idle", "Released"}
  BY <1>1 DEF Live
<1>3. s.state[c] \notin Live \cup Ended => s.op[c] # "none"
  OBVIOUS
<1> QED BY <1>1, <1>2, <1>3 DEF Here, CallFits, OpFits, ListFits

-----------------------------------------------------------------------------
(* Incoming calls                                                          *)

\* The call enters a state before it is answered, and nothing else about it changes.
LEMMA AlertMoves ==
  ASSUME NEW q \in CoreType, NEW c \in Call, NEW new \in Alerting, q.state[c] \notin Ended
  PROVE  LET t == SetState(q, c, new)
         IN  Only(q, t, c) /\ t.state[c] = new /\ t.op[c] = q.op[c] /\ t.replaces[c] = q.replaces[c]
<1>1. new \in CallState \ {"Released"}
  BY DEF Alerting, CallState
<1>2. CASE q.state[c] = new
  <2>1. SetState(q, c, new) = q
    BY <1>2 DEF SetState
  <2> QED BY <1>2, <2>1, RingIsSilent, SilentOnly
<1>3. CASE q.state[c] # new
  BY <1>1, <1>3, SetStateMoves
<1> QED BY <1>2, <1>3

\* The call is announced to the application.
LEMMA AnnounceMoves ==
  ASSUME NEW s, NEW c \in Call, Consistent(s), s.state[c] = "Idle", s.op[c] = "ringing"
  PROVE  LET t == Announce(s, c)
         IN  /\ Only(s, t, c) /\ t.state[c] = "IncomingReceived"
             /\ t.op[c] = s.op[c] /\ t.replaces[c] = s.replaces[c]
<1> DEFINE k == MakeCurrent(s, c)
           m == StartRinging(k)
           x == SetState(m, c, "IncomingReceived")
           y == SetState(s, c, "IncomingReceived")
<1>1. s \in CoreType /\ "IncomingReceived" \in Alerting /\ "Idle" \notin Ended
  BY DEF Consistent, Alerting, Ended
<1>2. Only(s, k, c) /\ Same(s, k, c) /\ k \in CoreType
  BY <1>1, CurrentOnly DEF Only
<1>3. Announce(s, c) = x \/ Announce(s, c) = y
  BY DEF Announce
<1> HIDE DEF k
<1>4. Only(k, m, c) /\ Same(k, m, c) /\ m \in CoreType
  BY <1>2, RingIsSilent, SilentOnly DEF Silent
<1> HIDE DEF m
<1>5. m.state[c] = "Idle" /\ m.op[c] = s.op[c] /\ m.replaces[c] = s.replaces[c] /\ Only(s, m, c)
  BY <1>2, <1>4, SilentOnly DEF Same
<1>6. Only(m, x, c) /\ x.state[c] = "IncomingReceived" /\ x.op[c] = m.op[c] /\ x.replaces[c] = m.replaces[c]
  BY <1>1, <1>4, <1>5, AlertMoves
<1>7. Only(s, y, c) /\ y.state[c] = "IncomingReceived" /\ y.op[c] = s.op[c] /\ y.replaces[c] = s.replaces[c]
  BY <1>1, AlertMoves
<1> HIDE DEF x, y
<1>8. Only(s, x, c)
  BY <1>5, <1>6, SilentOnly
<1> QED BY <1>3, <1>5, <1>6, <1>7, <1>8

\* linphone_core_accept_early_media_with_params()
LEMMA AcceptEarlyMediaCallMoves ==
  ASSUME NEW s \in CoreType, NEW c \in Call, s.state[c] \notin Ended
  PROVE  LET t == AcceptEarlyMediaCall(s, c)
         IN  /\ Only(s, t, c) /\ t.state[c] = "IncomingEarlyMedia"
             /\ t.op[c] = s.op[c] /\ t.replaces[c] = s.replaces[c]
<1> DEFINE e == SetState(s, c, "IncomingEarlyMedia")
           u == UpdateStreams(e, c, DirOfOffer(s.rmd[c]))
<1>1. /\ Only(s, e, c) /\ e.state[c] = "IncomingEarlyMedia" /\ e.op[c] = s.op[c] /\ e.replaces[c] = s.replaces[c]
      /\ e \in CoreType
  BY AlertMoves DEF Alerting, Only
<1>2. AcceptEarlyMediaCall(s, c) = IF s.rmd[c] = "nosdp" THEN e ELSE u
  BY DEF AcceptEarlyMediaCall
<1> HIDE DEF e
<1>3. s.rmd[c] # "nosdp" => DirOfOffer(s.rmd[c]) \in Dir
  BY DirOfOfferType DEF CoreType
<1>4. s.rmd[c] # "nosdp" => Only(e, u, c) /\ u.state = e.state /\ u.op = e.op /\ u.replaces = e.replaces
  BY <1>1, <1>3, UpdateStreamsOnly
<1> HIDE DEF u
<1> QED BY <1>1, <1>2, <1>4, SilentOnly

\* What linphone_core_accept_call_with_params() does to the other calls; the one that is
\* replaced ends.
LEMMA PrepareAcceptSteady ==
  ASSUME NEW s, NEW c \in Call, Consistent(s), s.state[c] \in Alerting
  PROVE  LET t == PrepareAccept(s, c)
         IN  /\ Steady(s, t) /\ t \in CoreType /\ Same(s, t, c)
             /\ ReplacesLive(s, c) /\ s.state[s.replaces[c]] \in Answered =>
                  t.state[s.replaces[c]] \in Ended
<1> DEFINE o == CancelOutgoing(s, c)
           d == o.replaces[c]
           x == TerminateCall(o, d)
           r == IF ReplacesLive(o, c) THEN x ELSE o
           p == IF r.current # c THEN Preempt(r) ELSE r
           live == ReplacesLive(s, c) /\ s.state[s.replaces[c]] \in Answered
<1>1. s \in CoreType
  BY DEF Consistent
<1>2. /\ Leads(s, o) /\ Steady(s, o) /\ o \in CoreType /\ o.replaces = s.replaces
      /\ \A a \in Call : a = c \/ s.state[a] \notin Outgoing => o.state[a] = s.state[a] /\ o.op[a] = s.op[a]
  BY <1>1, CancelOutgoingLeads, CancelOutgoingSteady
<1>3. PrepareAccept(s, c) = StopRinging(p)
  BY DEF PrepareAccept
<1> HIDE DEF o
<1>4. Consistent(o) /\ d \in Call \cup {NoCall} /\ d = s.replaces[c]
  BY <1>2 DEF Leads, CoreType
<1>5. ASSUME live PROVE ReplacesLive(o, c) /\ o.state[d] \in Answered
  <2>1. d \in Call /\ s.state[d] \notin Outgoing
    BY <1>4, <1>5 DEF ReplacesLive, Outgoing, Answered
  <2> QED BY <1>2, <1>4, <1>5, <2>1 DEF ReplacesLive
<1>6. ASSUME ReplacesLive(o, c)
      PROVE  Steady(o, x) /\ Consistent(x) /\ (o.state[d] # "Released" => x.state[d] \in Ended)
  <2>1. d \in Call /\ o.op[d] # "none"
    BY <1>4, <1>6 DEF ReplacesLive
  <2>2. Here(o, d) /\ CallFits(o, d)
    BY <1>4, <2>1, OperationIsHere DEF Consistent
  <2>3. o.state[d] = "Idle" => o.op[d] = "ringing"
    BY <2>1, <2>2 DEF CallFits, OpFits
  <2> HIDE DEF d
  <2>4. Leads(o, x)
    BY <1>4, <2>1, <2>3, TerminateCallLeads
  <2>5. Steady(o, x) /\ (o.state[d] # "Released" => x.state[d] \in Ended)
    BY <1>2, <2>1, <2>2, TerminateCallSteady
  <2> QED BY <2>4, <2>5 DEF Leads
<1>7. Steady(o, o)
  BY <1>2, CoreFrames, FrameSteady
<1>8. Consistent(r) /\ Steady(o, r) /\ r \in CoreType
  <2> HIDE DEF x
  <2>1. r = o \/ (ReplacesLive(o, c) /\ r = x)
    OBVIOUS
  <2> HIDE DEF r
  <2> QED BY <1>4, <1>6, <1>7, <2>1 DEF Consistent
<1>9. live => r.state[d] \in Ended
  <2>1. o.state[d] \in Answered => o.state[d] # "Released"
    BY DEF Answered
  <2> HIDE DEF x, d
  <2> QED BY <1>5, <1>6, <2>1
<1> HIDE DEF r, x
<1>10. AllStill(r, Preempt(r)) /\ Consistent(Preempt(r))
  BY <1>8, PreemptStill
<1>11. Steady(r, Preempt(r)) /\ Steady(r, r)
  BY <1>8, <1>10, CoreFrames, FrameSteady, AllStillSteady
<1>12. Steady(r, p) /\ p \in CoreType
  BY <1>8, <1>10, <1>11 DEF Consistent
<1> HIDE DEF p
<1>13. Frame(p, StopRinging(p)) /\ StopRinging(p) \in CoreType
  BY <1>12, CoreFrames DEF Frame
<1>14. Steady(p, StopRinging(p))
  BY <1>13, FrameSteady
<1>15. Steady(r, StopRinging(p))
  BY <1>12, <1>14, SteadyTrans
<1>16. Steady(s, StopRinging(p))
  BY <1>2, <1>8, <1>15, SteadyTrans
<1>17. live => StopRinging(p).state[d] \in Ended
  <2>1. live => d \in Call
    BY <1>4 DEF ReplacesLive
  <2> HIDE DEF d
  <2> QED BY <1>9, <1>15, <2>1, SteadyEnds
<1>18. Same(s, PrepareAccept(s, c), c)
  BY PrepareAcceptLeads
<1> QED BY <1>3, <1>4, <1>13, <1>16, <1>17, <1>18

\* linphone_core_accept_call_with_params()
LEMMA AcceptCallProceeds ==
  ASSUME NEW s, NEW c \in Call, NEW hangup \in BOOLEAN, Consistent(s), s.state[c] \in Alerting
  PROVE  LET t == AcceptCall(s, c, hangup)
         IN  /\ Proceeds(s, t, c)
             /\ ~ hangup => t.state[c] \in Answered
             /\ ReplacesLive(s, c) /\ s.state[s.replaces[c]] \in Answered =>
                  t.state[s.replaces[c]] \in Ended
<1> DEFINE p == PrepareAccept(s, c)
           a == SalAccept(p, c)
           m == MakeCurrent(a, c)
           k == SetState(m, c, "Connected")
           x == TerminateCall(k, c)
           h == IF hangup THEN x ELSE k
           u == UpdateStreams(h, c, DirOfOffer(s.rmd[c]))
           w == SetState(u, c, "StreamsRunning")
           y == ExpectMediaInAck(h, c)
           t == AcceptCall(s, c, hangup)
           live == ReplacesLive(s, c) /\ s.state[s.replaces[c]] \in Answered
<1>1. t = IF s.rmd[c] = "nosdp" THEN y ELSE w
  BY DEF AcceptCall
<1>2. s \in CoreType /\ c \in s.calls /\ Alerting \cap (Ended \cup Answered) = {}
  BY AlertingRow DEF Consistent, Alerting, Ended, Answered
<1>3. /\ Steady(s, p) /\ p \in CoreType /\ Same(s, p, c)
      /\ live => p.state[s.replaces[c]] \in Ended
  BY PrepareAcceptSteady
<1> HIDE DEF p
<1>4. Here(p, c) /\ p.state[c] \in Alerting
  BY <1>2, <1>3 DEF Same, Here
<1>5. Frame(p, a)
  BY <1>3, SalFrames
<1> HIDE DEF a
<1>6. Frame(a, m)
  BY <1>5, CoreFrames DEF Frame
<1>7. Frame(p, m)
  BY <1>5, <1>6, FrameTrans
<1> HIDE DEF m
<1>8. /\ "Connected" \in CallState \ {"Idle", "Released"} /\ "StreamsRunning" \in CallState \ {"Idle", "Released"}
      /\ {"Connected", "StreamsRunning"} \subseteq Answered
      /\ Answered \cap Ended = {} /\ "Released" \notin Answered
  BY DEF CallState, Answered, Ended
<1>9. Proceeds(p, k, c) /\ k \in CoreType /\ Here(k, c) /\ k.state[c] = "Connected"
  BY <1>2, <1>3, <1>4, <1>7, <1>8, SetStateProceeds
<1> HIDE DEF k
<1>10. x \in CoreType /\ Steady(k, x) /\ x.state[c] \in Ended
  BY <1>9, TerminateCallSteady
<1> HIDE DEF x
<1>11. h \in CoreType /\ Proceeds(k, h, c) /\ Here(h, c) /\ (~ hangup => h = k)
  <2>1. Frame(k, k)
    BY <1>9, CoreFrames
  <2>2. Proceeds(k, k, c) /\ Proceeds(k, x, c)
    BY <1>10, <2>1, FrameSteady, SteadyProceeds
  <2> QED BY <1>9, <1>10, <2>2 DEF Here
<1> HIDE DEF h
<1>12. Proceeds(s, k, c)
  BY <1>3, <1>9, SteadyProceeds, ProceedsTrans
<1>13. Proceeds(h, t, c) /\ (~ hangup => t.state[c] \in Answered)
  <2>1. CASE s.rmd[c] = "nosdp"
    <3>1. Frame(h, y)
      BY <1>11, CoreFrames
    <3>2. t = y
      BY <1>1, <2>1
    <3> HIDE DEF y, t
    <3> QED BY <1>8, <1>9, <1>11, <3>1, <3>2, FrameSteady, SteadyProceeds DEF Frame
  <2>2. CASE s.rmd[c] # "nosdp"
    <3>1. DirOfOffer(s.rmd[c]) \in Dir
      BY <1>2, <2>2, DirOfOfferType DEF CoreType
    <3>2. Frame(h, u)
      BY <1>11, <3>1, OperationFrames
    <3>3. t = w
      BY <1>1, <2>2
    <3> HIDE DEF u, t
    <3>4. Proceeds(h, w, c) /\ (h.state[c] \notin Ended => w.state[c] = "StreamsRunning")
      BY <1>8, <1>11, <3>2, SetStateProceeds
    <3> HIDE DEF w
    <3> QED BY <1>8, <1>9, <1>11, <3>3, <3>4
  <2> QED BY <2>1, <2>2
<1> HIDE DEF t
<1>14. Proceeds(p, t, c)
  BY <1>9, <1>11, <1>13, ProceedsTrans
<1>15. Proceeds(s, t, c)
  BY <1>11, <1>12, <1>13, ProceedsTrans
<1>16. live => t.state[s.replaces[c]] \in Ended
  <2>1. live => s.replaces[c] \in Call
    BY <1>2 DEF ReplacesLive, CoreType
  <2> QED BY <1>3, <1>14, <2>1, SteadyEnds
<1> QED BY <1>13, <1>15, <1>16 DEF t

\* linphone_core_notify_incoming_call(): the call is announced, or over at once, or
\* answered at once in place of another.
LEMMA NotifyIncomingMoves ==
  ASSUME NEW n, NEW c \in Call, NEW reject \in BOOLEAN,
         Consistent(n), n.state[c] = "Idle", n.op[c] = "ringing"
  PROVE  LET t == NotifyIncoming(n, c, reject)
         IN  \/ StillBut(n, t, c) /\ t.state[c] \in Alerting \cup Ended
             \/ /\ ReplacesLive(n, c) /\ Proceeds(n, t, c) /\ t.state[c] \in Answered
                /\ n.state[n.replaces[c]] \in Answered => t.state[n.replaces[c]] \in Ended
<1> DEFINE i == Announce(n, c)
           r == IF reject THEN DeclineCall(i, c) ELSE i
           v == AcceptEarlyMediaCall(r, c)
           e == IF EarlyMedia THEN v ELSE r
           w == AcceptCall(e, c, FALSE)
           t == NotifyIncoming(n, c, reject)
<1>1. Leads(n, i) /\ Only(n, i, c) /\ i.state[c] = "IncomingReceived"
      /\ i.op[c] = n.op[c] /\ i.replaces[c] = n.replaces[c]
  BY AnnounceLeads, AnnounceMoves
<1>2. /\ t = IF r.state[c] # "IncomingReceived" THEN r ELSE IF ReplacesLive(e, c) THEN w ELSE e
  BY DEF NotifyIncoming
<1> HIDE DEF i, t
<1>3. Consistent(i) /\ i \in CoreType /\ "IncomingReceived" \in Alerting /\ "IncomingReceived" \notin Ended
      /\ "IncomingEarlyMedia" \in Alerting
  BY <1>1 DEF Leads, Consistent, Alerting, Ended
<1>4. CASE reject
  <2>1. Only(i, i, c) /\ i.log[c] # "success" /\ i.replaces[c] # c
    BY <1>1, <1>3, AlertingRow, RingIsSilent, SilentOnly
  <2>2. Only(i, DeclineCall(i, c), c) /\ DeclineCall(i, c).state[c] \in Ended
    BY <1>1, <1>3, <2>1, DeclineCallLeads
  <2>3. r = DeclineCall(i, c)
    BY <1>4
  <2> HIDE DEF r
  <2>4. t = r
    BY <1>2, <1>3, <2>2, <2>3
  <2>5. Only(n, t, c)
    BY <1>1, <2>2, <2>3, <2>4, SilentOnly
  <2> QED BY <2>2, <2>3, <2>4, <2>5, FrameStill DEF t
<1>5. CASE ~ reject
  <2>1. r = i
    BY <1>5
  <2> HIDE DEF r
  <2>2. /\ Leads(i, v) /\ Only(i, v, c) /\ v.state[c] = "IncomingEarlyMedia"
        /\ v.op[c] = i.op[c] /\ v.replaces[c] = i.replaces[c]
    BY <1>1, <1>3, <2>1, AcceptEarlyMediaCallLeads, AcceptEarlyMediaCallMoves
  <2> HIDE DEF v
  <2>3. Leads(i, i) /\ Only(i, i, c)
    BY <1>3, LeadsSelf, RingIsSilent, SilentOnly
  <2>4. e = v \/ e = i
    BY <2>1
  <2> HIDE DEF e
  <2>5. /\ Leads(i, e) /\ Only(i, e, c) /\ e.state[c] \in Alerting
        /\ e.replaces[c] = i.replaces[c]
    BY <1>1, <1>3, <2>2, <2>3, <2>4
  <2>6. Consistent(e) /\ Only(n, e, c) /\ e.replaces[c] = n.replaces[c] /\ StillBut(n, e, c)
    BY <1>1, <2>5, SilentOnly, FrameStill DEF Leads
  <2>7. CASE t = e
    BY <2>5, <2>6, <2>7 DEF t
  <2>8. CASE t = w /\ ReplacesLive(e, c)
    <3>1. /\ Proceeds(e, w, c) /\ w.state[c] \in Answered
          /\ e.state[e.replaces[c]] \in Answered => w.state[e.replaces[c]] \in Ended
      BY <2>5, <2>6, <2>8, AcceptCallProceeds
    <3> HIDE DEF w
    <3>2. n.replaces[c] \in Call \ {c}
      <4>1. n.replaces[c] \in Call \cup {NoCall} /\ n.replaces[c] # c
        BY DEF Consistent, CoreType, CallFits
      <4> QED BY <2>6, <2>8, <4>1 DEF ReplacesLive
    <3>3. ReplacesLive(n, c) /\ e.state[n.replaces[c]] = n.state[n.replaces[c]]
      BY <2>6, <2>8, <3>2 DEF ReplacesLive, Only, Same
    <3>4. c \in e.calls /\ e.state[c] \notin Answered \cup Ended /\ "Idle" \notin Answered \cup Ended
      BY <2>5, <2>6, AlertingRow DEF Answered, Ended
    <3>5. Forward(n, e, c) \/ c \notin n.calls
      BY <3>4 DEF Forward
    <3>6. c \in n.calls
      BY DEF Consistent, CallFits, ListFits
    <3>7. Proceeds(n, e, c)
      BY <2>6, <3>5, <3>6, StillProceeds
    <3>8. Proceeds(n, w, c)
      BY <3>1, <3>7, ProceedsTrans
    <3> QED BY <2>6, <2>8, <3>1, <3>3, <3>8 DEF t
  <2>9. r.state[c] = "IncomingReceived"
    BY <1>1, <2>1
  <2> QED BY <1>2, <2>7, <2>8, <2>9
<1> QED BY <1>4, <1>5

\* call_received()
LEMMA CallReceivedImplements ==
  ASSUME NEW c \in Call, NEW offer \in Offer, NEW reject \in BOOLEAN,
         NEW replaced \in {NoCall} \cup {r \in lc.calls : lc.op[r] = "active"},
         ~ UseIce, Consistent(lc), Consistent(lc'), lc.state[c] = "Idle", lc.op[c] = "none",
         lc' = CallReceived(lc, c, offer, replaced, reject)
  PROVE  Lifecycle!Next
<1> DEFINE a == AddCall(lc, c, "ringing")
           o == OfferMade(a, c, "invite", offer)
           n == Replacing(o, c, replaced)
<1>1. lc \in CoreType /\ CallFits(lc, c) /\ "ringing" \in OpPhase /\ "invite" \in PeerRequest
      /\ lc.calls \subseteq Call
  BY DEF Consistent, OpPhase, PeerRequest, CoreType
<1>2. replaced \in (Call \ {c}) \cup {NoCall} /\ c \notin lc.calls
  BY <1>1, NoCallAssumption DEF CallFits, ListFits, Live
<1>3. lc' = NotifyIncoming(n, c, reject)
  BY DEF CallReceived
<1>4. /\ Only(lc, a, c) /\ a.calls = lc.calls \cup {c} /\ a.state = lc.state /\ a.op[c] = "ringing"
      /\ a.ct = lc.ct /\ a.dir = lc.dir /\ a.prev = lc.prev /\ a.pend = lc.pend /\ a.err = lc.err
      /\ a.log = lc.log /\ a.current = lc.current /\ a \in CoreType
  BY <1>1, AddCallOnly DEF Only
<1> HIDE DEF a
<1>5. /\ o.current = a.current /\ o.calls = a.calls /\ o.op = a.op /\ o.prev = a.prev
      /\ o.state = a.state /\ o.dir = a.dir /\ o.ct = a.ct
      /\ o.err = a.err /\ o.log = a.log /\ o.replaces = a.replaces
      /\ o.pend = [a.pend EXCEPT ![c] = @ \cup {"invite"}] /\ o \in CoreType
  <2>1. o \in CoreType
    BY <1>1, <1>4, OfferMadeKeeps DEF Keeps
  <2> QED BY <1>4, <2>1 DEF OfferMade, CoreType
<1> HIDE DEF o
<1>6. /\ n.current = o.current /\ n.calls = o.calls /\ n.op = o.op /\ n.prev = o.prev
      /\ n.state = o.state /\ n.dir = o.dir /\ n.ct = o.ct
      /\ n.err = o.err /\ n.log = o.log /\ n.pend = o.pend
      /\ n.replaces = [o.replaces EXCEPT ![c] = replaced] /\ n \in CoreType
  <2>1. n \in CoreType
    BY <1>2, <1>5, ReplacingKeeps DEF Keeps
  <2> QED BY <1>5, <2>1 DEF Replacing, CoreType
<1> HIDE DEF n
<1>7. /\ n.pend[c] = lc.pend[c] \cup {"invite"} /\ n.replaces[c] = replaced
      /\ \A d \in Call \ {c} : n.pend[d] = a.pend[d] /\ n.replaces[d] = a.replaces[d]
  BY <1>4, <1>5, <1>6 DEF CoreType
<1>8. Only(lc, n, c)
  <2>1. Only(a, n, c)
    BY <1>5, <1>6, <1>7 DEF Only, Same
  <2> QED BY <1>4, <2>1, SilentOnly
<1>9. /\ lc.ct[c] = "none" /\ lc.pend[c] = {} /\ lc.err[c] = "none" /\ lc.log[c] # "success"
      /\ lc.dir[c] = "none"
  BY <1>1 DEF CallFits, RequestFits, OfferFits, LogFits, Ended
<1>10. /\ n.state[c] = "Idle" /\ n.op[c] = "ringing" /\ n.pend[c] = {"invite"} /\ n.dir[c] = "none"
       /\ n.ct[c] = "none" /\ n.err[c] = "none" /\ n.log[c] # "success" /\ n.replaces[c] # c
       /\ c \in n.calls
  BY <1>2, <1>4, <1>5, <1>6, <1>7, <1>9, NoCallAssumption
<1>11. OpFits("Idle", "ringing") /\ "Idle" \notin Transient \cup {"UpdatedByRemote"} \cup Answered
  BY DEF OpFits, Answered, Alerting, AwaitingAnswer, Outgoing, Ended, Transient
<1>12. CallFits(n, c)
  BY <1>10, <1>11 DEF CallFits, ListFits, RequestFits, OfferFits, PrevFits, LogFits
<1>13. Consistent(n)
  BY <1>8, <1>9, <1>10, <1>12, OnlyLeads DEF Leads
<1>14. StillBut(lc, n, c)
  BY <1>8, FrameStill
<1>15. Phase(lc, c) = "unused"
  BY DEF Phase, Answered, Ended
<1>16. CASE StillBut(n, lc', c) /\ lc'.state[c] \in Alerting \cup Ended
  <2>1. StillBut(lc, lc', c)
    BY <1>14, <1>16, StillTrans
  <2>2. Phase(lc', c) \in {"pending", "over"}
    BY <1>16 DEF Phase, Alerting, Ended, Answered
  <2> QED BY <1>15, <2>1, <2>2, StartImplements
<1>17. CASE /\ ReplacesLive(n, c) /\ Proceeds(n, lc', c) /\ lc'.state[c] \in Answered
            /\ n.state[n.replaces[c]] \in Answered => lc'.state[n.replaces[c]] \in Ended
  <2>1. replaced \in lc.calls \ {c} /\ lc.op[replaced] = "active"
    BY <1>2, <1>7, <1>17 DEF ReplacesLive
  <2>2. lc.state[replaced] \in Answered
    <3>1. lc.state[replaced] \in Settling \cup {"Connected", "EarlyUpdatedByRemote"} \cup Ended
          /\ (lc.state[replaced] = "EarlyUpdatedByRemote" => UseIce)
          /\ (lc.state[replaced] \in Ended => replaced \notin lc.calls)
      BY <1>1, <2>1, PhaseStates
    <3> QED BY <2>1, <3>1 DEF Settling, Answered
  <2>3. lc'.state[replaced] \in Ended
    <3>1. n.state[n.replaces[c]] \in Answered
      BY <1>4, <1>5, <1>6, <1>7, <2>2
    <3> QED BY <1>7, <1>17, <3>1
  <2>4. \A d \in Call \ {c} : Forward(lc, lc', d) /\ Unanswered(lc, lc', d)
    <3>1. \A d \in Call \ {c} : lc.state[d] = n.state[d] /\ (d \in n.calls <=> d \in lc.calls)
      BY <1>4, <1>5, <1>6
    <3>2. \A d \in Call \ {c} : Forward(n, lc', d) /\ Unanswered(n, lc', d)
      BY <1>17 DEF Proceeds
    <3> QED BY <3>1, <3>2 DEF Forward, Unanswered
  <2>5. Phase(lc', c) = "talking"
    BY <1>17, PhaseRow
  <2> QED BY <1>15, <2>1, <2>3, <2>4, <2>5, ReplaceImplements
<1> QED BY <1>3, <1>10, <1>13, <1>16, <1>17, NotifyIncomingMoves

\* A step that moves only call c, and c forward or within an answered call.
LEMMA MoveImplements ==
  ASSUME NEW c \in Call, ~ UseIce, Consistent(lc), Consistent(lc'), StillBut(lc, lc', c),
         \/ lc'.state[c] = lc.state[c] /\ (c \in lc'.calls <=> c \in lc.calls)
         \/ lc.state[c] \in Live /\ lc'.state[c] \in Ended
         \/ lc.state[c] \in Live \ Answered /\ lc'.state[c] \in Live
         \/ lc.state[c] \in Answered /\ lc'.state[c] \in Answered
         \/ lc.state[c] \in Ended /\ lc'.state[c] \in Ended
  PROVE  LifecycleStep
<1>1. Forward(lc, lc', c)
  BY MovesForward
<1>2. Proceeds(lc, lc', c)
  BY <1>1, StillProceeds
<1> QED BY <1>2, ProceedsImplements

\* A step that answers no call, and moves calls at most to their end
LEMMA SteadyImplements ==
  ASSUME NEW c \in Call, ~ UseIce, Consistent(lc), Consistent(lc'),
         Steady(lc, lc') \/ AllStill(lc, lc') \/ Frame(lc, lc')
  PROVE  LifecycleStep
<1>1. Steady(lc, lc')
  BY AllStillSteady, FrameSteady
<1> QED BY <1>1, SteadyProceeds, ProceedsImplements

\* The groups of states.
LEMMA StateGroups ==
  /\ Answered \subseteq Live /\ Alerting \subseteq Live /\ AwaitingAnswer \subseteq Live /\ Outgoing \subseteq Live
  /\ Live \cap Ended = {} /\ Alerting \cap Answered = {} /\ Outgoing \cap Answered = {}
  /\ AwaitingAnswer \subseteq Outgoing
  /\ Settling \subseteq Answered /\ "Connected" \in Answered
  /\ Live \subseteq CallState \ {"Idle", "Released"} /\ Ended \subseteq CallState \ {"Idle", "Released"}
  /\ {"Paused", "PausedByRemote", "StreamsRunning", "UpdatedByRemote", "Updating"} \subseteq Answered
BY DEF Answered, Alerting, AwaitingAnswer, Outgoing, Live, Ended, CallState, Settling

\* Where a call is when its operation is in a given phase, without ICE.
LEMMA PhaseStatesNoIce ==
  ASSUME NEW s, NEW c \in Call, ~ UseIce, Consistent(s)
  PROVE  /\ s.op[c] \in {"inviting", "early"} => s.state[c] \in AwaitingAnswer /\ s.state[c] \in Live \ Answered
         /\ s.op[c] = "active" => s.state[c] \in Answered \cup Ended
         /\ s.op[c] \in {"cancelling", "terminating"} => s.state[c] \in Ended
         /\ s.ct[c] # "none" => s.op[c] = "active" /\ s.state[c] \in Settling /\ s.prev[c] \in Settling
<1>1. CallFits(s, c)
  BY DEF Consistent
<1> QED BY <1>1, PhaseStates, StateGroups DEF CallFits, RequestFits

-----------------------------------------------------------------------------
(* Answers                                                                 *)

\* linphone_core_abort_call(), of the call that moves
LEMMA AbortCallMoves ==
  ASSUME NEW s \in CoreType, NEW c \in Call
  PROVE  LET t == AbortCall(s, c)
         IN  StillBut(s, t, c) /\ t.state[c] \in Ended
<1> DEFINE a == SalTerminate(s, c)
           r == StopRinging(a)
           p == StopStreams(r, c)
<1>1. AbortCall(s, c) = SetState(p, c, "Error")
  BY DEF AbortCall
<1>2. Frame(s, a)
  BY SalFrames
<1> HIDE DEF a
<1>3. Frame(a, r)
  BY <1>2, CoreFrames DEF Frame
<1> HIDE DEF r
<1>4. Frame(r, p)
  BY <1>3, CoreFrames DEF Frame
<1>5. Frame(s, p) /\ p \in CoreType
  BY <1>2, <1>3, <1>4 DEF Frame
<1> HIDE DEF p
<1>6. "Error" \in CallState \ {"Released"} /\ "Error" \in Ended
  BY EndTypes
<1>7. LET t == SetState(p, c, "Error") IN StillBut(p, t, c) /\ t.state[c] \in Ended
  BY <1>5, <1>6, SetStateOne
<1> QED BY <1>1, <1>5, <1>7, FrameStill, StillTrans

\* terminate_call(), of the call that moves
LEMMA TerminateStill ==
  ASSUME NEW s \in CoreType, NEW q, NEW c \in Call, Frame(s, q)
  PROVE  LET t == TerminateLocally(q, c)
         IN  t \in CoreType /\ StillBut(s, t, c) /\ t.state[c] \in Ended
<1> DEFINE e == IF q.state[c] = "IncomingReceived" /\ q.err[c] # "timeout"
                THEN EndReason(q, c, "declined") ELSE q
           r == StopRinging(e)
           p == StopStreams(r, c)
<1>1. TerminateLocally(q, c) = SetState(p, c, "End")
  BY DEF TerminateLocally
<1>2. Frame(q, e)
  BY OperationFrames, CoreFrames DEF Frame
<1> HIDE DEF e
<1>3. Frame(e, r)
  BY <1>2, CoreFrames DEF Frame
<1> HIDE DEF r
<1>4. Frame(r, p)
  BY <1>3, CoreFrames DEF Frame
<1>5. Frame(s, p) /\ p \in CoreType
  BY <1>2, <1>3, <1>4 DEF Frame
<1> HIDE DEF p
<1>6. "End" \in CallState \ {"Released"} /\ "End" \in Ended
  BY EndTypes
<1>7. LET t == SetState(p, c, "End")
      IN  t \in CoreType /\ StillBut(p, t, c) /\ t.state[c] \in Ended
  BY <1>5, <1>6, SetStateOne
<1> QED BY <1>1, <1>5, <1>7, FrameStill, StillTrans

\* call_accepted() with a usable description
LEMMA SettledMoves ==
  ASSUME NEW k \in CoreType, NEW c \in Call, NEW md \in Dir
  PROVE  LET t == Settled(k, c, md, FALSE)
         IN  /\ StillBut(k, t, c)
             /\ k.state[c] \notin Ended => t.state[c] \in Answered
             /\ k.state[c] \in Ended => t.state[c] \in Ended
<1> DEFINE u == UpdateStreams(k, c, md)
           v == IF md = "sendrecv" THEN MakeCurrent(u, c) ELSE u
           new == CASE md \in {"sendonly", "inactive"} -> "Paused"
                    [] md = "recvonly" -> "PausedByRemote"
                    [] OTHER -> "StreamsRunning"
<1>1. Settled(k, c, md, FALSE) = SetState(v, c, new)
  BY DEF Settled
<1>2. new \in Answered /\ new \in CallState \ {"Released"}
  BY StateGroups
<1> HIDE DEF new
<1>3. Frame(k, u)
  BY OperationFrames
<1> HIDE DEF u
<1>4. Frame(u, MakeCurrent(u, c)) /\ Frame(u, u)
  BY <1>3, CoreFrames DEF Frame
<1>5. Frame(u, v)
  BY <1>4
<1>6. Frame(k, v) /\ v \in CoreType
  BY <1>3, <1>5, FrameTrans DEF Frame
<1> HIDE DEF v
<1>7. /\ StillBut(v, SetState(v, c, new), c)
      /\ v.state[c] \notin Ended => SetState(v, c, new).state[c] = new
      /\ v.state[c] \in Ended => SetState(v, c, new).state[c] = v.state[c]
  BY <1>2, <1>6, SetStateOne
<1>8. StillBut(k, v, c) /\ v.state = k.state
  BY <1>6, FrameStill DEF Frame
<1> QED BY <1>1, <1>2, <1>7, <1>8, StillTrans

\* call_accepted(), after the switch at its head
LEMMA AcceptedMoves ==
  ASSUME NEW q, NEW c \in Call, NEW answer \in Dir \cup Unusable, NEW hangup \in BOOLEAN,
         q.state[c] # "EarlyUpdating", Consistent(Answer(q, c, hangup)), AnswerFits(Answer(q, c, hangup), c)
  PROVE  LET t == CallAccepted(q, c, answer, hangup)
         IN  StillBut(Answer(q, c, hangup), t, c) /\ t.state[c] \in Answered \cup Ended
<1> DEFINE k == Answer(q, c, hangup)
           md == UsableAnswer(k, c, answer)
           t == CallAccepted(q, c, answer, hangup)
<1>1. Consistent(k) /\ AnswerFits(k, c) /\ k \in CoreType
  BY DEF Consistent
<1>2. t = CASE md = "bad" /\ k.prev[c] \in Outgoing -> AbortCall(k, c)
            [] md = "bad" /\ k.prev[c] \notin Outgoing -> SetState(k, c, k.prev[c])
            [] OTHER -> Settled(k, c, md, FALSE)
  BY DEF CallAccepted
<1> HIDE DEF k, t
<1>3. md \in Dir \cup {"bad"}
  BY <1>1, UsableAnswerType
<1> HIDE DEF md
<1>4. CASE md = "bad" /\ k.prev[c] \in Outgoing
  <2>1. StillBut(k, AbortCall(k, c), c) /\ AbortCall(k, c).state[c] \in Ended
    BY <1>1, AbortCallMoves
  <2> QED BY <1>2, <1>4, <2>1 DEF k, t
<1>5. CASE md = "bad" /\ k.prev[c] \notin Outgoing
  <2>1. t = SetState(k, c, k.prev[c])
    BY <1>2, <1>5
  <2>2. k.prev[c] \in Answered
    BY <1>1, <1>5, StateGroups DEF AnswerFits
  <2>3. k.prev[c] \in CallState \ {"Released"}
    BY <2>2, StateGroups
  <2>4. StillBut(k, t, c) /\ (t.state[c] = k.prev[c] \/ t.state[c] \in Ended)
    BY <1>1, <2>1, <2>3, SetStateOne
  <2> QED BY <2>2, <2>4 DEF k, t
<1>6. CASE md # "bad"
  <2>1. t = Settled(k, c, md, FALSE)
    BY <1>2, <1>6
  <2>2. StillBut(k, t, c) /\ t.state[c] \in Answered \cup Ended
    BY <1>1, <1>3, <1>6, <2>1, SettledMoves
  <2> QED BY <2>2 DEF k, t
<1> QED BY <1>4, <1>5, <1>6

\* A 2xx on our INVITE
LEMMA Answered200Moves ==
  ASSUME NEW s, NEW c \in Call, NEW answer \in Dir \cup Unusable, NEW hangup \in BOOLEAN, ~ UseIce,
         Consistent(s), s.op[c] \in {"inviting", "early"}, hangup => "appHangup" \in Faults
  PROVE  LET t == CallAccepted(Operation(s, c, "active"), c, answer, hangup)
         IN  StillBut(s, t, c) /\ t.state[c] \in Answered \cup Ended
<1> DEFINE q == Operation(s, c, "active")
           n == SetState(q, c, "Connected")
           e == TerminateCall(n, c)
           k == Answer(q, c, hangup)
           t == CallAccepted(q, c, answer, hangup)
<1>1. s \in CoreType /\ s.state[c] \in AwaitingAnswer /\ "active" \in OpPhase
  BY PhaseStatesNoIce DEF Consistent, OpPhase
<1>2. q.state[c] # "EarlyUpdating" /\ Consistent(k) /\ AnswerFits(k, c)
  BY AnswerLeads DEF Leads
<1>3. StillBut(k, t, c) /\ t.state[c] \in Answered \cup Ended
  BY <1>2, AcceptedMoves
<1> HIDE DEF t
<1>4. Frame(s, q) /\ q \in CoreType /\ q.state = s.state
  BY <1>1, OperationFrames DEF Frame
<1>5. k = IF hangup THEN e ELSE n
  BY <1>1, <1>4 DEF Answer, AwaitingAnswer, Outgoing
<1> HIDE DEF q
<1>6. "Connected" \in CallState \ {"Released"} /\ q.state[c] \notin Ended
  BY <1>1, <1>4, StateGroups
<1>7. n \in CoreType /\ StillBut(q, n, c) /\ n.state[c] = "Connected"
  BY <1>4, <1>6, SetStateOne
<1> HIDE DEF n
<1>8. Frame(n, SalTerminate(n, c))
  BY <1>7, SalFrames
<1>9. e = TerminateLocally(SalTerminate(n, c), c)
  BY <1>7 DEF TerminateCall, Alerting
<1>10. StillBut(n, e, c)
  BY <1>7, <1>8, <1>9, TerminateStill
<1> HIDE DEF e, k
<1>11. StillBut(n, k, c)
  BY <1>5, <1>10 DEF StillBut, Still
<1>12. StillBut(s, q, c)
  BY <1>4, FrameStill
<1>13. StillBut(s, t, c)
  BY <1>3, <1>7, <1>11, <1>12, StillTrans
<1> QED BY <1>3, <1>13 DEF t, q

\* A response accepts our re-INVITE or UPDATE
LEMMA OfferAcceptedMoves ==
  ASSUME NEW s, NEW c \in Call, NEW answer \in Dir \cup Unusable, Consistent(s), s.ct[c] # "none"
  PROVE  LET t == CallAccepted(RequestDone(s, c), c, answer, FALSE)
         IN  StillBut(s, t, c) /\ t.state[c] \in Answered \cup Ended
<1> DEFINE q == RequestDone(s, c)
           k == Answer(q, c, FALSE)
<1>1. s \in CoreType /\ s.op[c] = "active" /\ s.state[c] \in Settling \ {"Paused"}
      /\ s.prev[c] \in Settling
  BY DEF Consistent, CallFits, RequestFits
<1>2. Leads(s, q) /\ q.state = s.state /\ q.prev = s.prev /\ q.op = s.op /\ q.ct[c] = "none"
  BY <1>1, RequestDoneLeads, RequestDoneOnly
<1>3. StillBut(s, q, c)
  BY <1>1, CoreFrames, FrameStill
<1> HIDE DEF q
<1>4. s.state[c] \notin AwaitingAnswer \cup {"EarlyUpdating"}
  BY <1>1 DEF Settling, Answered, AwaitingAnswer, Outgoing
<1>5. k = q
  BY <1>2, <1>4 DEF Answer
<1>6. Consistent(k) /\ AnswerFits(k, c)
  BY <1>1, <1>2, <1>5 DEF Leads, AnswerFits
<1> DEFINE t == CallAccepted(q, c, answer, FALSE)
<1>7. StillBut(k, t, c) /\ t.state[c] \in Answered \cup Ended
  BY <1>2, <1>4, <1>6, AcceptedMoves
<1> HIDE DEF k, t
<1>8. StillBut(s, t, c)
  BY <1>3, <1>5, <1>7, StillTrans
<1> QED BY <1>7, <1>8 DEF q, t

\* call_ack()
LEMMA CallAckMoves ==
  ASSUME NEW s \in CoreType, NEW c \in Call, NEW md \in Dir \cup {"bad"}
  PROVE  LET t == CallAck(s, c, md)
         IN  /\ StillBut(s, t, c) /\ t.state[c] \in Answered \cup Ended
             /\ s.state[c] \in Ended => t.state[c] \in Ended
<1> DEFINE u == UpdateStreams(s, c, md)
<1>1. CASE md = "bad"
  BY <1>1, AbortCallMoves DEF CallAck
<1>2. CASE md # "bad"
  <2>1. CallAck(s, c, md) = SetState(u, c, "StreamsRunning")
    BY <1>2 DEF CallAck
  <2>2. Frame(s, u)
    BY <1>2, OperationFrames
  <2> HIDE DEF u
  <2>3. u \in CoreType /\ u.state = s.state /\ StillBut(s, u, c)
    BY <2>2, FrameStill DEF Frame
  <2>4. "StreamsRunning" \in CallState \ {"Released"} /\ "StreamsRunning" \in Answered
    BY DEF CallState, Answered
  <2>5. /\ StillBut(u, SetState(u, c, "StreamsRunning"), c)
        /\ u.state[c] \notin Ended => SetState(u, c, "StreamsRunning").state[c] = "StreamsRunning"
        /\ u.state[c] \in Ended => SetState(u, c, "StreamsRunning").state[c] = u.state[c]
    BY <2>3, <2>4, SetStateOne
  <2> QED BY <2>1, <2>3, <2>4, <2>5, StillTrans
<1> QED BY <1>1, <1>2

\* call_ringing()
LEMMA CallRingingMoves ==
  ASSUME NEW s \in CoreType, NEW c \in Call, NEW md \in Dir \cup {"none"}, s.state[c] \in AwaitingAnswer
  PROVE  LET t == CallRinging(s, c, md)
         IN  StillBut(s, t, c) /\ t.state[c] \in AwaitingAnswer
<1> DEFINE b == StartRinging(s)
           r == SetState(b, c, "OutgoingRinging")
           e == SetState(s, c, "OutgoingEarlyMedia")
           p == StopRinging(e)
           u == UpdateStreams(p, c, md)
           x == StartRinging(u)
           y == StopRinging(u)
           t == CallRinging(s, c, md)
<1>1. /\ md = "none" => t = s \/ t = r
      /\ md # "none" => t = s \/ t = x \/ t = y
  BY DEF CallRinging
<1>2. /\ "OutgoingRinging" \in CallState \ {"Released"} /\ "OutgoingEarlyMedia" \in CallState \ {"Released"}
      /\ {"OutgoingRinging", "OutgoingEarlyMedia"} \subseteq AwaitingAnswer
      /\ s.state[c] \notin Ended
  BY DEF CallState, AwaitingAnswer, Outgoing, Ended
<1>3. Frame(s, s) /\ Frame(s, b)
  BY CoreFrames
<1> HIDE DEF b
<1>4. b \in CoreType /\ b.state = s.state /\ StillBut(s, b, c) /\ StillBut(s, s, c)
  BY <1>3, FrameStill DEF Frame
<1>5. StillBut(b, r, c) /\ r.state[c] = "OutgoingRinging"
  BY <1>2, <1>4, SetStateOne
<1> HIDE DEF r
<1>6. StillBut(s, e, c) /\ e.state[c] = "OutgoingEarlyMedia" /\ e \in CoreType
  BY <1>2, SetStateOne
<1> HIDE DEF e
<1>7. Frame(e, p)
  BY <1>6, CoreFrames
<1> HIDE DEF p
<1>8. ASSUME md # "none" PROVE Frame(p, u)
  BY <1>7, <1>8, OperationFrames DEF Frame
<1> HIDE DEF u
<1>9. ASSUME md # "none" PROVE Frame(e, x) /\ Frame(e, y)
  <2>1. Frame(u, x) /\ Frame(u, y)
    BY <1>8, <1>9, CoreFrames DEF Frame
  <2> HIDE DEF x, y
  <2> QED BY <1>7, <1>8, <1>9, <2>1, FrameTrans
<1> HIDE DEF x, y, t
<1>10. ASSUME md # "none"
       PROVE  /\ StillBut(s, x, c) /\ StillBut(s, y, c)
              /\ x.state[c] = "OutgoingEarlyMedia" /\ y.state[c] = "OutgoingEarlyMedia"
  <2>1. Frame(e, x) /\ Frame(e, y)
    BY <1>9, <1>10
  <2>2. StillBut(e, x, c) /\ StillBut(e, y, c) /\ x.state = e.state /\ y.state = e.state
    BY <2>1, FrameStill DEF Frame
  <2> QED BY <1>6, <2>2, StillTrans
<1>11. StillBut(s, r, c)
  BY <1>4, <1>5, StillTrans
<1>12. StillBut(s, t, c) /\ t.state[c] \in AwaitingAnswer
  BY <1>1, <1>2, <1>4, <1>5, <1>10, <1>11
<1> QED BY <1>12 DEF t

-----------------------------------------------------------------------------
(* The end of a dialog                                                     *)

\* The operation of a call whose dialog ends
LEMMA ClosingFrame ==
  ASSUME NEW s \in CoreType, NEW c \in Call
  PROVE  Frame(s, Closing(s, c))
<1> DEFINE o == Operation(s, c, "terminating")
           r == RequestDone(o, c)
<1>1. "terminating" \in OpPhase /\ Closing(s, c) = NothingPending(r, c)
  BY DEF OpPhase, Closing
<1>2. Frame(s, o)
  BY <1>1, OperationFrames
<1> HIDE DEF o
<1>3. Frame(o, r)
  BY <1>2, CoreFrames DEF Frame
<1> HIDE DEF r
<1>4. Frame(r, NothingPending(r, c))
  BY <1>3, CoreFrames DEF Frame
<1> QED BY <1>1, <1>2, <1>3, <1>4, FrameTrans

\* BYE, or the end of the dialog, and CANCEL
LEMMA DialogEndMoves ==
  ASSUME NEW s, NEW c \in Call, Consistent(s), s.state[c] # "Released"
  PROVE  LET t == Closing(CallTerminated(s, c), c)
         IN  StillBut(s, t, c) /\ t.state[c] \in Ended
<1> DEFINE x == CallTerminated(s, c)
<1>1. Only(s, x, c) /\ x.state[c] \in Ended
  BY CallTerminatedOnly
<1> HIDE DEF x
<1>2. StillBut(s, x, c) /\ x \in CoreType
  BY <1>1, FrameStill DEF Only
<1>3. StillBut(x, Closing(x, c), c) /\ Closing(x, c).state = x.state
  BY <1>2, ClosingFrame, FrameStill DEF Frame
<1> QED BY <1>1, <1>2, <1>3, StillTrans DEF x

\* linphone_call_set_released() of a call that is over
LEMMA ReleasedMoves ==
  ASSUME NEW q \in CoreType, NEW c \in Call, q.state[c] # "Released", c \notin q.calls
  PROVE  LET t == SetState(q, c, "Released")
         IN  StillBut(q, t, c) /\ t.state[c] = "Released"
<1> DEFINE m == Remembered(q, c)
           i == StateIs(m, c, "Released")
           n == NoOperation(i, c)
           r == NoReferer(n, c)
           t == Destroyed(r, c)
<1>1. "Released" \in CallState /\ "Released" \notin Ended
  BY DEF CallState, Ended
<1>2. m \in CoreType /\ m.state = q.state /\ m.calls = q.calls
  BY RememberedKeeps DEF Keeps, Remembered, CoreType
<1>3. SetState(q, c, "Released") = ReleasedCall(i, c)
  BY <1>1 DEF SetState, Entered
<1> HIDE DEF m
<1>4. i \in CoreType
  BY <1>1, <1>2, StateIsKeeps DEF Keeps
<1>5. i.calls = q.calls /\ i.state = [q.state EXCEPT ![c] = "Released"]
  BY <1>2 DEF StateIs, CoreType
<1>6. SetState(q, c, "Released") = t
  BY <1>3, <1>5 DEF ReleasedCall
<1> HIDE DEF i
<1>7. n.state = i.state /\ n.calls = i.calls
  BY <1>4 DEF NoOperation, CoreType
<1> HIDE DEF n
<1>8. r.state = n.state /\ r.calls = n.calls
  BY DEF NoReferer
<1> HIDE DEF r
<1>9. t.state = r.state /\ t.calls = r.calls
  BY DEF Destroyed
<1> HIDE DEF t
<1>10. t.calls = q.calls /\ t.state = [q.state EXCEPT ![c] = "Released"]
  BY <1>5, <1>7, <1>8, <1>9
<1> QED BY <1>6, <1>10 DEF StillBut, Still, CoreType

\* The fatal end of call_failure()
LEMMA FailedCallMoves ==
  ASSUME NEW s, NEW c \in Call, NEW reason, Consistent(s), s.state[c] # "Released"
  PROVE  LET f == IF reason = "redirect" THEN StopStreams(s, c) ELSE s
             t == FailedCall(f, c, reason)
         IN  /\ StillBut(s, t, c) /\ t \in CoreType /\ t.state[c] \in Ended /\ c \notin t.calls
             /\ t.retries = s.retries
<1> DEFINE f == IF reason = "redirect" THEN StopStreams(s, c) ELSE s
           t == FailedCall(f, c, reason)
<1>1. s \in CoreType
  BY DEF Consistent
<1>2. Silent(s, s) /\ Silent(s, StopStreams(s, c)) /\ StopStreams(s, c).retries = s.retries
  BY <1>1, RingIsSilent, MediaIsSilent DEF StopStreams, CoreType
<1>3. Silent(s, f) /\ f.retries = s.retries
  BY <1>2
<1> HIDE DEF f
<1>4. Only(s, t, c) /\ t.state[c] \in Ended /\ c \notin t.calls /\ t.retries = s.retries
  BY SMTT(60), <1>3, FailedCallOnly
<1> HIDE DEF t
<1> QED BY <1>4, FrameStill DEF Only, t, f

\* An error response to our INVITE: it is sent again, or the call ends, or it ends and
\* is released.
LEMMA InviteFailedMoves ==
  ASSUME NEW s, NEW c \in Call, NEW reason, NEW sent \in BOOLEAN, reason # "pending", ~ UseIce,
         Consistent(s), s.op[c] \in {"inviting", "early"}
  PROVE  LET f == CallFailure(s, c, reason, sent)
             t == IF f.retries[c] # s.retries[c] THEN f
                  ELSE IF s.op[c] = "inviting" THEN SetState(RequestDone(f, c), c, "Released")
                  ELSE Closing(f, c)
         IN  StillBut(s, t, c) /\ t.state[c] \in {"OutgoingProgress", "Released"} \cup Ended
<1> DEFINE g == IF reason = "redirect" THEN StopStreams(s, c) ELSE s
           retry == /\ reason \in {"redirect", "notacceptable"}
                    /\ s.state[c] \in Outgoing /\ s.retries[c] < MaxRetries
           f == CallFailure(s, c, reason, sent)
           d == RequestDone(f, c)
           a == SetState(d, c, "Released")
           b == Closing(f, c)
<1>1. s \in CoreType /\ s.state[c] \in AwaitingAnswer
  BY PhaseStatesNoIce DEF Consistent
<1>2. s.state[c] \notin Transient \cup Ended \cup {"Released"}
  BY <1>1 DEF AwaitingAnswer, Outgoing, Transient, Ended
<1>3. /\ retry => f = RestartInvite(g, c, sent)
      /\ ~ retry => f = FailedCall(g, c, reason)
  BY <1>2 DEF CallFailure
<1>4. ASSUME retry
      PROVE  /\ StillBut(s, f, c) /\ f.state[c] \in {"OutgoingProgress", "Error"}
             /\ f.retries[c] # s.retries[c]
  <2>1. Frame(s, s) /\ Frame(s, StopStreams(s, c)) /\ StopStreams(s, c).retries = s.retries
    BY <1>1, CoreFrames DEF StopStreams, CoreType
  <2>2. Silent(s, s) /\ Silent(s, StopStreams(s, c))
    BY <1>1, RingIsSilent, MediaIsSilent
  <2>3. Frame(s, g) /\ g.retries = s.retries /\ Silent(s, g)
    BY <2>1, <2>2
  <2> HIDE DEF g, f
  <2>4. g \in CoreType /\ g.state = s.state /\ StillBut(s, g, c) /\ Consistent(g)
    BY <2>3, FrameStill, SilentLeads DEF Frame, Leads
  <2>5. f = RestartInvite(g, c, sent)
    BY <1>3, <1>4
  <2>6. f.retries[c] # g.retries[c]
    BY <1>4, <2>3, <2>4, <2>5, RestartInviteRetries
  <2>7. StillBut(g, f, c) /\ f.state[c] \in {"OutgoingProgress", "Error"}
    BY <1>2, <1>4, <2>3, <2>4, <2>5, RestartInviteMoves
  <2> QED BY <2>3, <2>4, <2>6, <2>7, StillTrans
<1>5. ASSUME ~ retry
      PROVE  /\ StillBut(s, f, c) /\ f \in CoreType /\ f.state[c] \in Ended /\ c \notin f.calls
             /\ f.retries = s.retries
  BY <1>2, <1>3, <1>5, FailedCallMoves
<1> HIDE DEF f, retry
<1>6. CASE retry
  BY <1>4, <1>6 DEF f, Ended
<1>7. CASE ~ retry
  <2>1. /\ StillBut(s, f, c) /\ f \in CoreType /\ f.state[c] \in Ended /\ c \notin f.calls
        /\ f.retries = s.retries
    BY <1>5, <1>7
  <2>2. Frame(f, d) /\ Frame(f, b)
    BY <2>1, CoreFrames, ClosingFrame
  <2> HIDE DEF b, d
  <2>3. d \in CoreType /\ d.state = f.state /\ d.calls = f.calls /\ b.state = f.state
        /\ StillBut(f, d, c) /\ StillBut(f, b, c)
    BY <2>2, FrameStill DEF Frame
  <2>4. d.state[c] # "Released"
    BY <2>1, <2>3 DEF Ended
  <2>5. StillBut(d, a, c) /\ a.state[c] = "Released"
    BY <2>1, <2>3, <2>4, ReleasedMoves
  <2> HIDE DEF a
  <2>6. StillBut(s, a, c) /\ StillBut(s, b, c)
    BY <2>1, <2>3, <2>5, StillTrans
  <2> QED BY <2>1, <2>3, <2>5, <2>6 DEF f, a, b, d
<1> QED BY <1>6, <1>7

\* The transaction of an INVITE we no longer want times out.
LEMMA CancelledTimeoutMoves ==
  ASSUME NEW s, NEW c \in Call, Consistent(s), s.op[c] = "cancelling"
  PROVE  LET t == SetState(CallFailure(s, c, "other", TRUE), c, "Released")
         IN  StillBut(s, t, c) /\ t.state[c] = "Released"
<1> DEFINE f == FailedCall(s, c, "other")
<1>1. s.state[c] \in Ended
  BY PhaseStates
<1>2. s.state[c] \notin Transient \cup Outgoing \cup {"Released"}
  BY <1>1 DEF Ended, Transient, Outgoing
<1>3. CallFailure(s, c, "other", TRUE) = f
  BY <1>2 DEF CallFailure
<1>4. StillBut(s, f, c) /\ f \in CoreType /\ f.state[c] \in Ended /\ c \notin f.calls
  BY <1>2, FailedCallMoves
<1> HIDE DEF f
<1>5. f.state[c] # "Released"
  BY <1>4 DEF Ended
<1>6. StillBut(f, SetState(f, c, "Released"), c) /\ SetState(f, c, "Released").state[c] = "Released"
  BY <1>4, <1>5, ReleasedMoves
<1> QED BY <1>3, <1>4, <1>6, StillTrans

\* A final response refuses our re-INVITE.
LEMMA OfferRejectedMoves ==
  ASSUME NEW s, NEW c \in Call, NEW reason, NEW sent \in BOOLEAN, Consistent(s), s.ct[c] # "none"
  PROVE  LET t == CallFailure(RequestDone(s, c), c, reason, sent)
         IN  StillBut(s, t, c) /\ t.state[c] \in Answered \cup Ended
<1> DEFINE q == RequestDone(s, c)
           f == IF reason = "redirect" THEN StopStreams(q, c) ELSE q
           t == CallFailure(q, c, reason, sent)
<1>1. s \in CoreType /\ s.state[c] \in Settling /\ s.prev[c] \in Settling
  BY DEF Consistent, CallFits, RequestFits
<1>2. Leads(s, q) /\ q.state = s.state /\ q.prev = s.prev
  BY <1>1, RequestDoneLeads, RequestDoneOnly
<1>3. StillBut(s, q, c)
  BY <1>1, CoreFrames, FrameStill
<1>4. q.state[c] \notin Outgoing \cup Ended /\ q.state[c] # "Released"
  BY <1>1, <1>2 DEF Settling, Answered, Outgoing, Ended
<1>5. \/ t = SetState(q, c, q.prev[c]) \/ t = SetState(f, c, q.prev[c])
      \/ t = FailedCall(f, c, reason)
  BY <1>4 DEF CallFailure
<1> HIDE DEF q
<1>6. Consistent(q) /\ q \in CoreType
  BY <1>2 DEF Leads, Consistent
<1>7. StillBut(q, FailedCall(f, c, reason), c) /\ FailedCall(f, c, reason).state[c] \in Ended
  BY <1>4, <1>6, FailedCallMoves
<1>8. Frame(q, q) /\ Frame(q, StopStreams(q, c))
  BY <1>6, CoreFrames
<1>9. Frame(q, f)
  BY <1>8
<1> HIDE DEF f
<1>10. f \in CoreType /\ f.state = q.state /\ StillBut(q, f, c)
  BY <1>9, FrameStill DEF Frame
<1>11. q.prev[c] \in CallState \ {"Released"} /\ q.prev[c] \in Answered
  BY <1>1, <1>2, StateGroups
<1>12. /\ StillBut(q, SetState(q, c, q.prev[c]), c) /\ SetState(q, c, q.prev[c]).state[c] = q.prev[c]
       /\ StillBut(f, SetState(f, c, q.prev[c]), c) /\ SetState(f, c, q.prev[c]).state[c] = q.prev[c]
  BY <1>4, <1>6, <1>10, <1>11, SetStateOne
<1>13. StillBut(q, SetState(f, c, q.prev[c]), c)
  BY <1>10, <1>12, StillTrans
<1> HIDE DEF t
<1>14. StillBut(q, t, c) /\ t.state[c] \in Answered \cup Ended
  BY <1>5, <1>7, <1>11, <1>12, <1>13
<1>15. StillBut(s, t, c)
  BY <1>3, <1>14, StillTrans
<1> QED BY <1>14, <1>15 DEF t, q

\* The user let it ring too long.
LEMMA IncomingTimeoutSteady ==
  ASSUME NEW s, NEW c \in Call, Consistent(s), c \in s.calls
  PROVE  Steady(s, DeclineCall(EndReason(LogStatus(s, c, "missed"), c, "timeout"), c))
<1> DEFINE m == LogStatus(s, c, "missed")
           q == EndReason(m, c, "timeout")
<1>1. s \in CoreType /\ Here(s, c)
  BY DEF Consistent, Here
<1>2. Frame(s, m) /\ m \in CoreType
  BY <1>1, OperationFrames DEF Frame
<1> HIDE DEF m
<1>3. Frame(m, q)
  BY <1>2, OperationFrames
<1> HIDE DEF q
<1>4. Frame(s, q)
  BY <1>2, <1>3, FrameTrans
<1> QED BY <1>1, <1>4, DeclineCallSteady DEF q, m

\* linphone_core_start_accept_call_update()
LEMMA StartAcceptUpdateMoves ==
  ASSUME NEW s \in CoreType, NEW c \in Call, NEW next \in CallState \ {"Released"}, s.state[c] \notin Ended
  PROVE  LET t == StartAcceptUpdate(s, c, next)
         IN  StillBut(s, t, c) /\ t.state[c] = next
<1> DEFINE a == SalAccept(s, c)
           u == UpdateStreams(a, c, DirOfOffer(s.rmd[c]))
           v == IF s.rmd[c] = "nosdp" THEN a ELSE u
<1>1. StartAcceptUpdate(s, c, next) = SetState(v, c, next)
  BY DEF StartAcceptUpdate
<1>2. Frame(s, a) /\ a \in CoreType
  BY SalFrames DEF Frame
<1> HIDE DEF a
<1>3. s.rmd[c] # "nosdp" => Frame(a, u)
  <2>1. s.rmd[c] # "nosdp" => DirOfOffer(s.rmd[c]) \in Dir
    BY DirOfOfferType DEF CoreType
  <2> QED BY <1>2, <2>1, OperationFrames
<1> HIDE DEF u
<1>4. Frame(s, v)
  BY <1>2, <1>3, FrameTrans
<1> HIDE DEF v
<1>5. v \in CoreType /\ v.state = s.state /\ StillBut(s, v, c)
  BY <1>4, FrameStill DEF Frame
<1>6. StillBut(v, SetState(v, c, next), c) /\ SetState(v, c, next).state[c] = next
  BY <1>5, SetStateOne
<1> QED BY <1>1, <1>5, <1>6, StillTrans

\* linphone_core_update_call() of a running call
LEMMA UpdateCallMoves ==
  ASSUME NEW s \in CoreType, NEW c \in Call, NEW regather \in BOOLEAN, s.state[c] = "StreamsRunning"
  PROVE  LET t == UpdateCall(s, c, regather)
         IN  StillBut(s, t, c) /\ t.state[c] = "Updating"
<1> DEFINE u == SetState(s, c, "Updating")
           x == Gathering(u, c, TRUE)
           y == SalUpdate(u, c, "reinvite")
<1>1. UpdateCall(s, c, regather) = x \/ UpdateCall(s, c, regather) = y
  BY DEF UpdateCall
<1>2. "Updating" \in CallState \ {"Released"} /\ s.state[c] \notin Ended /\ "reinvite" \in Request
  BY DEF CallState, Ended, Request
<1>3. u \in CoreType /\ StillBut(s, u, c) /\ u.state[c] = "Updating"
  BY <1>2, SetStateOne
<1> HIDE DEF u
<1>4. Frame(u, x) /\ Frame(u, y)
  BY <1>2, <1>3, OperationFrames, SalFrames
<1> HIDE DEF x, y
<1>5. /\ StillBut(u, x, c) /\ StillBut(u, y, c) /\ x.state = u.state /\ y.state = u.state
  BY <1>4, FrameStill DEF Frame
<1> QED BY <1>1, <1>3, <1>5, StillTrans

\* The switch of call_updated_by_remote(): a call that is not running passes through
\* EarlyUpdatedByRemote and is back at once, where there are no candidates to gather.
LEMMA UpdateOfferedMoves ==
  ASSUME NEW s \in CoreType, NEW c \in Call, NEW isUpdate \in BOOLEAN, NEW deferred \in BOOLEAN,
         s.state[c] \in Live \ {"EarlyUpdatedByRemote"}
  PROVE  LET t == UpdateOffered(s, c, isUpdate, deferred, FALSE)
         IN  /\ StillBut(s, t, c)
             /\ t.state[c] = s.state[c] \/ (s.state[c] \in Answered /\ t.state[c] \in Answered)
<1> DEFINE u == SetState(s, c, "UpdatedByRemote")
           e == SetState(s, c, "EarlyUpdatedByRemote")
           x == StartAcceptUpdate(u, c, u.prev[c])
           y == StartAcceptUpdate(s, c, "PausedByRemote")
           z == StartAcceptUpdate(e, c, e.prev[c])
           t == UpdateOffered(s, c, isUpdate, deferred, FALSE)
<1>1. /\ s.state[c] = "StreamsRunning" => t = u \/ t = x
      /\ s.state[c] = "PausedByRemote" => t = s \/ t = y
      /\ s.state[c] \notin {"StreamsRunning", "PausedByRemote"} => t = s \/ t = z
  BY DEF UpdateOffered, AcceptUpdate
<1> HIDE DEF t
<1>2. StillBut(s, s, c)
  BY DEF StillBut, Still
<1>3. /\ {"UpdatedByRemote", "EarlyUpdatedByRemote", "PausedByRemote"} \subseteq CallState \ {"Released"}
      /\ {"UpdatedByRemote", "EarlyUpdatedByRemote", "PausedByRemote"} \cap Ended = {}
      /\ {"UpdatedByRemote", "StreamsRunning", "PausedByRemote"} \subseteq Answered
      /\ s.state[c] \in CallState \ {"Released"} /\ s.state[c] \notin Ended
  BY DEF CallState, Ended, Live, Answered
<1>4. CASE s.state[c] = "StreamsRunning"
  <2>1. /\ Only(s, u, c) /\ u.state[c] = "UpdatedByRemote" /\ u.prev[c] = s.state[c]
    BY <1>3, <1>4, SetStateMoves
  <2> HIDE DEF u
  <2>2. u \in CoreType /\ u.state[c] \notin Ended /\ StillBut(s, u, c)
    BY <1>3, <2>1, FrameStill DEF Only
  <2>3. StillBut(u, x, c) /\ x.state[c] = s.state[c]
    BY <1>3, <2>1, <2>2, StartAcceptUpdateMoves
  <2> HIDE DEF x
  <2>4. StillBut(s, x, c)
    BY <2>2, <2>3, StillTrans
  <2> QED BY <1>1, <1>3, <1>4, <2>1, <2>2, <2>3, <2>4 DEF t
<1>5. CASE s.state[c] = "PausedByRemote"
  <2>1. StillBut(s, y, c) /\ y.state[c] = s.state[c]
    BY <1>3, <1>5, StartAcceptUpdateMoves
  <2> QED BY <1>1, <1>2, <1>5, <2>1 DEF t
<1>6. CASE s.state[c] \notin {"StreamsRunning", "PausedByRemote"}
  <2>1. /\ Only(s, e, c) /\ e.state[c] = "EarlyUpdatedByRemote" /\ e.prev[c] = s.state[c]
    BY <1>3, SetStateMoves
  <2> HIDE DEF e
  <2>2. e \in CoreType /\ e.state[c] \notin Ended /\ StillBut(s, e, c)
    BY <1>3, <2>1, FrameStill DEF Only
  <2>3. StillBut(e, z, c) /\ z.state[c] = s.state[c]
    BY <1>3, <2>1, <2>2, StartAcceptUpdateMoves
  <2> HIDE DEF z
  <2>4. StillBut(s, z, c)
    BY <2>2, <2>3, StillTrans
  <2> QED BY <1>1, <1>2, <1>6, <2>3, <2>4 DEF t
<1> QED BY <1>4, <1>5, <1>6

\* call_updating()
LEMMA CallUpdatingMoves ==
  ASSUME NEW s \in CoreType, NEW c \in Call, NEW isUpdate \in BOOLEAN, NEW compatible \in BOOLEAN,
         NEW deferred \in BOOLEAN, s.state[c] \in Live \ {"EarlyUpdatedByRemote"}
  PROVE  LET t == CallUpdating(s, c, isUpdate, compatible, deferred, FALSE)
         IN  /\ StillBut(s, t, c)
             /\ t.state[c] = s.state[c] \/ (s.state[c] \in Answered /\ t.state[c] \in Answered)
<1> DEFINE w == UpdateOffered(s, c, isUpdate, deferred, FALSE)
           d == SalDecline(s, c)
           m == ExpectMediaInAck(w, c)
           u == UpdatedByRemote(s, c, isUpdate, compatible, deferred, FALSE)
           x == StartAcceptUpdate(s, c, "StreamsRunning")
           y == StartAcceptUpdate(s, c, "PausedByRemote")
           t == CallUpdating(s, c, isUpdate, compatible, deferred, FALSE)
           Moves(v) == /\ StillBut(s, v, c)
                       /\ v.state[c] = s.state[c] \/ (s.state[c] \in Answered /\ v.state[c] \in Answered)
<1>1. \/ t = u \/ t = s \/ t = d
      \/ t = x /\ s.state[c] = "PausedByRemote"
      \/ t = y /\ s.state[c] \in {"StreamsRunning", "Connected", "Paused"}
  <2>1. CASE s.rmd[c] = "nosdp"
    BY <2>1 DEF CallUpdating
  <2>2. CASE s.rmd[c] # "nosdp" /\ s.state[c] = "PausedByRemote"
    BY <2>2 DEF CallUpdating, AcceptUpdate, Transient
  <2>3. CASE s.rmd[c] # "nosdp" /\ s.state[c] \in {"StreamsRunning", "Connected", "Paused"}
    BY <2>3 DEF CallUpdating, AcceptUpdate, Transient
  <2>4. CASE s.rmd[c] # "nosdp" /\ s.state[c] \in {"OutgoingRinging", "OutgoingEarlyMedia", "IncomingEarlyMedia"}
    BY <2>4 DEF CallUpdating, Transient
  <2>5. CASE s.rmd[c] # "nosdp" /\ s.state[c] \notin {"PausedByRemote", "StreamsRunning", "Connected", "Paused",
                 "OutgoingRinging", "OutgoingEarlyMedia", "IncomingEarlyMedia"}
    BY <2>5 DEF CallUpdating
  <2> QED BY <2>1, <2>2, <2>3, <2>4, <2>5
<1> HIDE DEF t
<1>2. u = d \/ u = m \/ u = w
  BY DEF UpdatedByRemote
<1> HIDE DEF u
<1>3. Moves(w)
  BY UpdateOfferedMoves
<1> HIDE DEF w
<1>4. m.state = w.state /\ m.calls = w.calls
  BY DEF ExpectMediaInAck
<1>5. StillBut(w, m, c)
  BY <1>4 DEF StillBut, Still
<1>6. Moves(m)
  BY <1>3, <1>4, <1>5, StillTrans
<1>7. Moves(s)
  BY DEF StillBut, Still
<1>8. Moves(d)
  <2>1. Frame(s, d)
    BY SalFrames
  <2> QED BY <2>1, FrameStill DEF Frame
<1> HIDE DEF m, d
<1>9. /\ {"StreamsRunning", "PausedByRemote"} \subseteq CallState \ {"Released"}
      /\ {"StreamsRunning", "Connected", "Paused", "PausedByRemote"} \subseteq Answered
      /\ s.state[c] \notin Ended
  BY DEF CallState, Live, Answered
<1>10. StillBut(s, x, c) /\ x.state[c] = "StreamsRunning" /\ StillBut(s, y, c) /\ y.state[c] = "PausedByRemote"
  BY <1>9, StartAcceptUpdateMoves
<1> HIDE DEF x, y
<1>11. Moves(t)
  BY <1>1, <1>2, <1>3, <1>6, <1>7, <1>8, <1>9, <1>10
<1> QED BY <1>11 DEF t

\* The offer of the far end is stored, then handled.
LEMMA OfferMoves ==
  ASSUME NEW s \in CoreType, NEW c \in Call, NEW request \in PeerRequest, NEW offer \in Offer,
         NEW isUpdate \in BOOLEAN, NEW compatible \in BOOLEAN, NEW deferred \in BOOLEAN,
         s.state[c] \in Live \ {"EarlyUpdatedByRemote"}
  PROVE  LET t == CallUpdating(OfferMade(s, c, request, offer), c, isUpdate, compatible, deferred, FALSE)
         IN  /\ StillBut(s, t, c)
             /\ t.state[c] = s.state[c] \/ (s.state[c] \in Answered /\ t.state[c] \in Answered)
<1> DEFINE o == OfferMade(s, c, request, offer)
<1>1. Frame(s, o)
  BY SalFrames
<1> HIDE DEF o
<1>2. o \in CoreType /\ o.state = s.state /\ StillBut(s, o, c)
  BY <1>1, FrameStill DEF Frame
<1> DEFINE t == CallUpdating(o, c, isUpdate, compatible, deferred, FALSE)
<1>3. /\ StillBut(o, t, c)
      /\ t.state[c] = o.state[c] \/ (o.state[c] \in Answered /\ t.state[c] \in Answered)
  BY ZenonT(60), <1>2, CallUpdatingMoves
<1> HIDE DEF t
<1>4. StillBut(s, t, c)
  BY <1>2, <1>3, StillTrans
<1> QED BY <1>2, <1>3, <1>4 DEF t, o

\* handle_ice_events(), should a call gather candidates
LEMMA GatheredImplements ==
  ASSUME NEW c \in Call, NEW sent \in BOOLEAN, ~ UseIce, Consistent(lc), Consistent(lc'),
         c \in lc.calls, lc' = IceGathered(lc, c, sent)
  PROVE  LifecycleStep
<1> DEFINE g == Gathering(lc, c, FALSE)
<1>1. lc \in CoreType /\ CallFits(lc, c)
  BY DEF Consistent
<1>2. Frame(lc, g) /\ Silent(lc, g)
  BY <1>1, OperationFrames, MediaIsSilent
<1>3. /\ lc.state[c] = "Updating" => lc' = SalUpdate(g, c, "reinvite")
      /\ lc.state[c] = "UpdatedByRemote" => lc' = StartAcceptUpdate(g, c, lc.prev[c])
      /\ lc.state[c] = "OutgoingInit" => lc' = StartInvite(g, c, sent)
      /\ lc.state[c] = "Idle" => lc' = NotifyIncoming(g, c, FALSE)
      /\ lc.state[c] \notin {"Updating", "UpdatedByRemote", "OutgoingInit", "Idle"} => lc' = g
  BY DEF IceGathered
<1> HIDE DEF g
<1>4. /\ Consistent(g) /\ g \in CoreType /\ g.state = lc.state /\ g.calls = lc.calls
      /\ g.op[c] = lc.op[c] /\ StillBut(lc, g, c)
  BY <1>2, SilentLeads, FrameStill DEF Leads, Frame, Silent, Same
<1>5. CASE lc.state[c] = "Updating"
  <2>1. Frame(g, lc')
    BY <1>3, <1>4, <1>5, SalFrames DEF Request
  <2>2. Frame(lc, lc')
    BY <1>2, <2>1, FrameTrans
  <2> QED BY <2>2, SteadyImplements
<1>6. CASE lc.state[c] = "UpdatedByRemote"
  <2>1. lc.prev[c] \in Answered /\ lc.state[c] \in Answered /\ lc.state[c] \notin Ended
    BY <1>1, <1>6, StateGroups DEF CallFits, PrevFits
  <2>2. lc.prev[c] \in CallState \ {"Released"}
    BY <2>1, StateGroups
  <2>3. StillBut(g, lc', c) /\ lc'.state[c] = lc.prev[c]
    BY <1>3, <1>4, <1>6, <2>1, <2>2, StartAcceptUpdateMoves
  <2>4. StillBut(lc, lc', c)
    BY <1>4, <2>3, StillTrans
  <2> QED BY <2>1, <2>3, <2>4, MoveImplements
<1>7. CASE lc.state[c] = "OutgoingInit"
  <2>1. lc.state[c] \in Live \ Answered /\ lc.state[c] \notin Ended /\ "OutgoingProgress" \in Live /\ "Error" \in Ended
    BY <1>7, StateGroups DEF Outgoing, Ended
  <2>2. StillBut(g, lc', c) /\ lc'.state[c] = IF sent THEN "OutgoingProgress" ELSE "Error"
    BY <1>3, <1>4, <1>7, <2>1, StartInviteMoves
  <2>3. StillBut(lc, lc', c)
    BY <1>4, <2>2, StillTrans
  <2> QED BY <2>1, <2>2, <2>3, MoveImplements
<1>8. CASE lc.state[c] = "Idle"
  <2>1. lc.op[c] = "ringing" /\ "Idle" \notin Ended \cup Answered
    BY <1>1, <1>8 DEF CallFits, ListFits, Live, Ended, Answered
  <2>2. \/ StillBut(g, lc', c) /\ lc'.state[c] \in Alerting \cup Ended
        \/ Proceeds(g, lc', c)
    BY <1>3, <1>4, <1>8, <2>1, NotifyIncomingMoves
  <2>3. CASE Proceeds(g, lc', c)
    <3>1. Proceeds(lc, g, c)
      BY <1>2, FrameSteady, SteadyProceeds
    <3>2. Proceeds(lc, lc', c)
      BY <2>3, <3>1, ProceedsTrans
    <3> QED BY <3>2, ProceedsImplements
  <2>4. CASE StillBut(g, lc', c) /\ lc'.state[c] \in Alerting \cup Ended
    <3>1. StillBut(lc, lc', c)
      BY <1>4, <2>4, StillTrans
    <3>2. lc'.state[c] \in Live => c \in lc'.calls
      BY ListedStates
    <3>3. Forward(lc, lc', c)
      BY <1>8, <2>1, <2>4, <3>2, StateGroups DEF Forward
    <3>4. Proceeds(lc, lc', c)
      BY <3>1, <3>3, StillProceeds
    <3> QED BY <3>4, ProceedsImplements
  <2> QED BY <2>2, <2>3, <2>4
<1>9. CASE lc.state[c] \notin {"Updating", "UpdatedByRemote", "OutgoingInit", "Idle"}
  BY <1>2, <1>3, <1>9, SteadyImplements
<1> QED BY <1>5, <1>6, <1>7, <1>8, <1>9

\* linphone_core_invite_address_with_params()
LEMMA InviteImplements ==
  ASSUME NEW c \in Call, NEW sent \in BOOLEAN, ~ UseIce, Consistent(lc), Consistent(lc'),
         lc.state[c] = "Idle", lc.op[c] = "none", lc' = InviteCall(lc, c, NoCall, sent)
  PROVE  LifecycleStep
<1>1. AllStill(lc, lc') \/ (StillBut(lc, lc', c) /\ lc'.state[c] \in {"OutgoingProgress", "Error"})
  BY InviteCallStarts
<1>2. CASE StillBut(lc, lc', c) /\ lc'.state[c] \in {"OutgoingProgress", "Error"}
  <2>1. Phase(lc, c) = "unused" /\ Phase(lc', c) \in {"pending", "over"}
    BY <1>2 DEF Phase, Answered, Ended
  <2> QED BY <1>2, <2>1, StartImplements DEF LifecycleStep
<1> QED BY <1>1, <1>2, SteadyImplements

\* refer_received(), and the call to the target of the transfer
LEMMA ReferImplements ==
  ASSUME NEW c \in Call, NEW n \in Call \ {c}, NEW sent \in BOOLEAN, ~ UseIce, Consistent(lc), Consistent(lc'),
         lc.op[c] = "active", c \in lc.calls, lc.state[n] = "Idle", lc.op[n] = "none",
         lc' = StartReferedCall(SetState(lc, c, "Refered"), c, n, sent)
  PROVE  LifecycleStep
<1> DEFINE r == SetState(lc, c, "Refered")
<1>1. Leads(lc, r) /\ r.state = lc.state /\ r.op = lc.op /\ r.calls = lc.calls
  BY ReferedLeads
<1> HIDE DEF r
<1>2. Consistent(r) /\ AllStill(lc, r)
  BY <1>1 DEF Leads, AllStill, Still
<1>3. AllStill(r, lc') \/ (StillBut(r, lc', n) /\ lc'.state[n] \in {"OutgoingProgress", "Error"})
  BY <1>1, <1>2, StartReferedCallStarts DEF r
<1>4. CASE AllStill(r, lc')
  BY <1>2, <1>4, AllStillTrans, SteadyImplements
<1>5. CASE StillBut(r, lc', n) /\ lc'.state[n] \in {"OutgoingProgress", "Error"}
  <2>1. StillBut(lc, lc', n)
    BY <1>2, <1>5, AllStillSteady, StillTrans
  <2>2. Phase(lc, n) = "unused" /\ Phase(lc', n) \in {"pending", "over"}
    BY <1>5 DEF Phase, Answered, Ended
  <2> QED BY <2>1, <2>2, StartImplements DEF LifecycleStep
<1> QED BY <1>3, <1>4, <1>5

-----------------------------------------------------------------------------
(* The actions                                                             *)

\* Each call of the API is a step of CallLifecycle.
LEMMA UserStepImplements ==
  ASSUME NEW c \in Call, Mannerly, ~ UseIce, Consistent(lc), Consistent(lc'), UserStep(c)
  PROVE  LifecycleStep
<1>1. lc \in CoreType /\ CallFits(lc, c) /\ Frame(lc, lc)
  BY CoreFrames DEF Consistent
<1>2. ASSUME Invite(c) PROVE LifecycleStep
  <2>1. PICK sent \in Sent : lc' = InviteCall(lc, c, NoCall, sent)
    BY <1>2 DEF Invite
  <2>2. sent \in BOOLEAN /\ lc.state[c] = "Idle" /\ lc.op[c] = "none"
    BY <1>2 DEF Invite, Fresh, Sent
  <2> QED BY <2>1, <2>2, InviteImplements
<1>3. ASSUME AcceptEarlyMedia(c) PROVE LifecycleStep
  <2>1. lc.state[c] = "IncomingReceived" /\ lc' = AcceptEarlyMediaCall(lc, c)
    BY <1>3 DEF AcceptEarlyMedia
  <2>2. lc.state[c] \in Live \ Answered /\ lc.state[c] \notin Ended /\ "IncomingEarlyMedia" \in Live
    BY <2>1, StateGroups DEF Alerting
  <2>3. Only(lc, lc', c) /\ lc'.state[c] = "IncomingEarlyMedia"
    BY <1>1, <2>1, <2>2, AcceptEarlyMediaCallMoves
  <2> QED BY <2>2, <2>3, FrameStill, MoveImplements
<1>4. ASSUME Accept(c) PROVE LifecycleStep
  <2>1. PICK hangup \in Hangup : lc' = AcceptCall(lc, c, hangup)
    BY <1>4 DEF Accept
  <2>2. hangup \in BOOLEAN /\ lc.state[c] \in Alerting
    BY <1>4 DEF Accept, Hangup
  <2>3. Proceeds(lc, lc', c)
    BY <2>1, <2>2, AcceptCallProceeds
  <2> QED BY <2>3, ProceedsImplements
<1>5. ASSUME Decline(c) PROVE LifecycleStep
  <2>1. Here(lc, c) /\ lc' = DeclineCall(lc, c)
    BY <1>5 DEF Decline, Here
  <2> QED BY <1>1, <2>1, DeclineCallSteady, SteadyImplements
<1>6. ASSUME Terminate(c) PROVE LifecycleStep
  <2>1. lc.state[c] \in Live \cup Ended /\ lc' = TerminateCall(lc, c)
    BY <1>1, <1>6 DEF Terminate, CoreType, Live
  <2>2. Here(lc, c)
    BY <2>1, OperationIsHere
  <2> QED BY <1>1, <2>1, <2>2, TerminateCallSteady, SteadyImplements
<1>7. ASSUME Pause(c) PROVE LifecycleStep
  BY <1>7, PauseCallStill, SteadyImplements DEF Pause
<1>8. ASSUME Resume(c) PROVE LifecycleStep
  BY <1>8, ResumeCallStill, SteadyImplements DEF Resume
<1>9. ASSUME Update(c) PROVE LifecycleStep
  <2>1. PICK regather \in Regather : lc' = UpdateCall(lc, c, regather)
    BY <1>9 DEF Update
  <2>2. lc.state[c] = "StreamsRunning" /\ regather \in BOOLEAN
    BY <1>9 DEF Update, Mannerly, Regather
  <2>3. StillBut(lc, lc', c) /\ lc'.state[c] = "Updating"
    BY <1>1, <2>1, <2>2, UpdateCallMoves
  <2> QED BY <2>2, <2>3, StateGroups, MoveImplements
<1>10. ASSUME AcceptCallUpdate(c) PROVE LifecycleStep
  <2>1. lc' = StartAcceptUpdate(lc, c, lc.prev[c]) /\ lc.state[c] = "UpdatedByRemote"
    BY <1>10 DEF AcceptCallUpdate, AcceptUpdate, Regather
  <2>2. lc.prev[c] \in Answered /\ lc.state[c] \in Answered /\ lc.state[c] \notin Ended
    BY <1>1, <2>1, StateGroups DEF CallFits, PrevFits
  <2>3. lc.prev[c] \in CallState \ {"Released"}
    BY <2>2, StateGroups
  <2>4. StillBut(lc, lc', c) /\ lc'.state[c] = lc.prev[c]
    BY <1>1, <2>1, <2>2, <2>3, StartAcceptUpdateMoves
  <2> QED BY <2>2, <2>4, MoveImplements
<1> QED BY <1>2, <1>3, <1>4, <1>5, <1>6, <1>7, <1>8, <1>9, <1>10 DEF UserStep

\* So is each step of linphone_core_iterate().
LEMMA TimerStepImplements ==
  ASSUME NEW c \in Call, ~ UseIce, Consistent(lc), Consistent(lc'), TimerStep(c)
  PROVE  LifecycleStep
<1>1. lc \in CoreType
  BY DEF Consistent
<1>2. ASSUME IncomingTimeout(c) PROVE LifecycleStep
  BY <1>2, IncomingTimeoutSteady, SteadyImplements DEF IncomingTimeout
<1>3. ASSUME DelayedInvite(c) PROVE LifecycleStep
  <2> DEFINE g == Gathering(lc, c, FALSE)
  <2>1. PICK sent \in Sent : lc' = StartInvite(g, c, sent)
    BY <1>3 DEF DelayedInvite
  <2>2. Frame(lc, g)
    BY <1>1, OperationFrames
  <2> HIDE DEF g
  <2>3. lc.state[c] = "OutgoingInit" /\ sent \in BOOLEAN
    BY <1>3 DEF DelayedInvite, Sent
  <2>4. lc.state[c] \in Live \ Answered /\ lc.state[c] \notin Ended /\ "OutgoingProgress" \in Live /\ "Error" \in Ended
    BY <2>3, StateGroups DEF Outgoing, Ended
  <2>5. g \in CoreType /\ g.state = lc.state /\ StillBut(lc, g, c)
    BY <2>2, FrameStill DEF Frame
  <2>6. StillBut(g, lc', c) /\ lc'.state[c] = IF sent THEN "OutgoingProgress" ELSE "Error"
    BY <2>1, <2>3, <2>4, <2>5, StartInviteMoves
  <2>7. StillBut(lc, lc', c)
    BY <2>5, <2>6, StillTrans
  <2> QED BY <2>4, <2>6, <2>7, MoveImplements
<1>4. ASSUME Gathered(c) PROVE LifecycleStep
  <2>1. PICK sent \in Sent : lc' = IceGathered(lc, c, sent)
    BY <1>4 DEF Gathered
  <2>2. sent \in BOOLEAN /\ c \in lc.calls
    BY <1>4 DEF Gathered, Sent
  <2> QED BY <2>1, <2>2, GatheredImplements
<1>5. ASSUME RunTask(c) PROVE LifecycleStep
  BY <1>5, ResumeTaskStill, SteadyImplements DEF RunTask
<1> QED BY <1>2, <1>3, <1>4, <1>5 DEF TimerStep

\* call_released(), and every path of call_failure() that ends there
LEMMA GoneImplements ==
  ASSUME NEW c \in Call, ~ UseIce, Consistent(lc), Consistent(lc'), StillBut(lc, lc', c),
         lc.state[c] \in Ended \cup (Live \ Answered), lc'.state[c] = "Released"
  PROVE  Lifecycle!Next
<1>1. Phase(lc, c) \in {"pending", "over"}
  BY PhaseRow, ListedStates
<1>2. Phase(lc', c) = "released"
  BY PhaseRow
<1> QED BY <1>1, <1>2, ReleaseImplements

\* BYE, or CANCEL, or the end of the dialog
LEMMA DialogEndImplements ==
  ASSUME NEW c \in Call, ~ UseIce, Consistent(lc), Consistent(lc'),
         lc.op[c] \in {"active", "ringing"}, lc' = Closing(CallTerminated(lc, c), c)
  PROVE  LifecycleStep
<1>1. lc \in CoreType /\ CallFits(lc, c)
  BY DEF Consistent
<1>2. lc.state[c] # "Released" /\ Here(lc, c)
  BY <1>1, OperationIsHere DEF CallFits, OpFits
<1>3. StillBut(lc, lc', c) /\ lc'.state[c] \in Ended
  BY <1>2, DialogEndMoves
<1>4. Forward(lc, lc', c)
  BY <1>2, <1>3, ListedStates DEF Forward, Here
<1>5. Proceeds(lc, lc', c)
  BY <1>3, <1>4, StillProceeds
<1> QED BY <1>5, ProceedsImplements

\* call_updating(): a new offer of the far end
LEMMA OfferImplements ==
  ASSUME NEW c \in Call, NEW request \in PeerRequest, NEW offer \in Offer,
         NEW isUpdate \in BOOLEAN, NEW compatible \in BOOLEAN, NEW deferred \in BOOLEAN,
         ~ UseIce, Consistent(lc), Consistent(lc'), lc.state[c] \in Live \ {"EarlyUpdatedByRemote"},
         lc' = CallUpdating(OfferMade(lc, c, request, offer), c, isUpdate, compatible, deferred, FALSE)
  PROVE  LifecycleStep
<1>1. lc \in CoreType /\ (lc.state[c] \in Live \ Answered \/ lc.state[c] \in Answered)
  BY DEF Consistent
<1> DEFINE o == OfferMade(lc, c, request, offer)
<1>2. Frame(lc, o)
  BY <1>1, SalFrames DEF Consistent
<1> HIDE DEF o
<1>4. o \in CoreType /\ o.state = lc.state /\ StillBut(lc, o, c)
  BY <1>2, FrameStill DEF Frame
<1> DEFINE t == CallUpdating(o, c, isUpdate, compatible, deferred, FALSE)
<1>3. /\ StillBut(o, t, c)
      /\ t.state[c] = o.state[c] \/ (o.state[c] \in Answered /\ t.state[c] \in Answered)
  BY ZenonT(60), <1>4, CallUpdatingMoves
<1> HIDE DEF t
<1>5. /\ StillBut(o, lc', c)
      /\ lc'.state[c] = o.state[c] \/ (o.state[c] \in Answered /\ lc'.state[c] \in Answered)
  BY <1>3 DEF t, o
<1>6. StillBut(lc, lc', c)
  BY <1>4, <1>5, StillTrans
<1>7. CASE lc.state[c] \in Answered /\ lc'.state[c] \in Answered
  BY <1>6, <1>7, MoveImplements
<1>8. CASE lc.state[c] \in Live \ Answered /\ lc'.state[c] = lc.state[c]
  BY <1>6, <1>8, MoveImplements
<1> QED BY <1>1, <1>4, <1>5, <1>7, <1>8

\* So is each callback of the SAL.
LEMMA SalStepImplements ==
  ASSUME NEW c \in Call, Mannerly, ~ UseIce, Consistent(lc), Consistent(lc'), SalStep(c)
  PROVE  LifecycleStep
<1>1. lc \in CoreType /\ CallFits(lc, c) /\ Regather = {FALSE}
  BY DEF Consistent, Regather
<1>2. ASSUME Receive(c) PROVE LifecycleStep
  <2>1. PICK offer \in Offers, reject \in Hangup,
             replaced \in {NoCall} \cup {r \in lc.calls : lc.op[r] = "active"} :
          lc' = CallReceived(lc, c, offer, replaced, reject)
    BY <1>2 DEF Receive
  <2>2. lc.state[c] = "Idle" /\ lc.op[c] = "none"
    BY <1>2 DEF Receive, Fresh
  <2>3. offer \in Offer /\ reject \in BOOLEAN
    BY <2>1, SwitchAssumption, InputTypes
  <2> QED BY <2>1, <2>2, <2>3, CallReceivedImplements DEF LifecycleStep
<1>3. ASSUME Ringing(c) PROVE LifecycleStep
  <2> DEFINE o == Operation(lc, c, "early")
  <2>1. PICK md \in Dir \cup {"none"} : lc' = CallRinging(o, c, md)
    BY <1>3, SwitchAssumption DEF Ringing
  <2>2. lc.state[c] \in AwaitingAnswer /\ lc.state[c] \in Live \ Answered
    BY <1>3, PhaseStatesNoIce DEF Ringing
  <2>3. Frame(lc, o)
    BY <1>1, OperationFrames DEF OpPhase
  <2> HIDE DEF o
  <2>4. o \in CoreType /\ o.state = lc.state /\ StillBut(lc, o, c)
    BY <2>3, FrameStill DEF Frame
  <2>5. StillBut(o, lc', c) /\ lc'.state[c] \in AwaitingAnswer
    BY <2>1, <2>2, <2>4, CallRingingMoves
  <2>6. StillBut(lc, lc', c)
    BY <2>4, <2>5, StillTrans
  <2> QED BY <2>2, <2>5, <2>6, StateGroups, MoveImplements
<1>4. ASSUME Answered200(c) PROVE LifecycleStep
  <2>1. PICK answer \in Dir \cup Unusable, hangup \in Hangup :
          lc' = CallAccepted(Operation(lc, c, "active"), c, answer, hangup)
    BY <1>4, SwitchAssumption DEF Answered200
  <2>2. lc.op[c] \in {"inviting", "early"} /\ hangup \in BOOLEAN /\ (hangup => "appHangup" \in Faults)
    BY <1>4 DEF Answered200, Hangup
  <2>3. StillBut(lc, lc', c) /\ lc'.state[c] \in Answered \cup Ended
    BY <2>1, <2>2, Answered200Moves
  <2>4. lc.state[c] \in Live \ Answered
    BY <2>2, PhaseStatesNoIce
  <2> QED BY <2>3, <2>4, StateGroups, MoveImplements
<1>5. ASSUME InviteFailed(c) PROVE LifecycleStep
  <2>1. lc.op[c] \in {"inviting", "early"}
    BY <1>5 DEF InviteFailed
  <2>2. PICK reason \in {"declined", "redirect", "notacceptable", "other"}, sent \in BOOLEAN :
          LET f == CallFailure(lc, c, reason, sent)
          IN  lc' = IF f.retries[c] # lc.retries[c] THEN f
                    ELSE IF lc.op[c] = "inviting" THEN SetState(RequestDone(f, c), c, "Released")
                    ELSE Closing(f, c)
    BY <1>5 DEF InviteFailed, Mannerly, Sent
  <2>3. reason # "pending"
    OBVIOUS
  <2>4. StillBut(lc, lc', c) /\ lc'.state[c] \in {"OutgoingProgress", "Released"} \cup Ended
    BY <2>1, <2>2, <2>3, InviteFailedMoves
  <2>5. lc.state[c] \in Live \ Answered
    BY <2>1, PhaseStatesNoIce
  <2>6. "OutgoingProgress" \in Live
    BY StateGroups DEF Outgoing
  <2>7. CASE lc'.state[c] = "Released"
    BY <2>4, <2>5, <2>7, GoneImplements DEF LifecycleStep
  <2>8. CASE lc'.state[c] \in {"OutgoingProgress"} \cup Ended
    BY <2>4, <2>5, <2>6, <2>8, MoveImplements
  <2> QED BY <2>4, <2>7, <2>8
<1>6. ASSUME CancelledTimeout(c) PROVE LifecycleStep
  <2>1. lc.op[c] = "cancelling" /\ lc' = SetState(CallFailure(lc, c, "other", TRUE), c, "Released")
    BY <1>6 DEF CancelledTimeout
  <2>2. lc.state[c] \in Ended
    BY <2>1, PhaseStatesNoIce
  <2> QED BY <2>1, <2>2, CancelledTimeoutMoves, GoneImplements DEF LifecycleStep
<1>7. ASSUME OfferAccepted(c) PROVE LifecycleStep
  <2> DEFINE local == IF lc.ct[c] = "hold" THEN "sendonly" ELSE "sendrecv"
  <2>1. \A a \in Answers : a \notin Unusable => DirOfAnswer(local, a) \in Dir
    BY DirOfAnswerType
  <2>2. lc.dir[c] \in Dir \cup {"none"}
    BY <1>1 DEF CoreType
  <2>3. PICK answer \in Dir \cup Unusable : lc' = CallAccepted(RequestDone(lc, c), c, answer, FALSE)
    BY <1>7, <2>1, <2>2 DEF OfferAccepted, Unusable
  <2>4. lc.ct[c] # "none"
    BY <1>7 DEF OfferAccepted
  <2>5. StillBut(lc, lc', c) /\ lc'.state[c] \in Answered \cup Ended
    BY <2>3, <2>4, OfferAcceptedMoves
  <2>6. lc.state[c] \in Answered /\ lc.state[c] \in Live
    BY <2>4, PhaseStatesNoIce, StateGroups
  <2> QED BY <2>5, <2>6, MoveImplements
<1>8. ASSUME OfferRejected(c) PROVE LifecycleStep
  <2>1. PICK reason \in {"declined", "redirect", "notacceptable", "pending", "other"},
             sent \in BOOLEAN :
          lc' = CallFailure(RequestDone(lc, c), c, reason, sent)
    BY <1>8 DEF OfferRejected, Sent
  <2>2. lc.ct[c] # "none"
    BY <1>8 DEF OfferRejected
  <2>3. StillBut(lc, lc', c) /\ lc'.state[c] \in Answered \cup Ended
    BY <2>1, <2>2, OfferRejectedMoves
  <2>4. lc.state[c] \in Answered /\ lc.state[c] \in Live
    BY <2>2, PhaseStatesNoIce, StateGroups
  <2> QED BY <2>3, <2>4, MoveImplements
<1>9. ASSUME EarlyUpdateRejected(c) PROVE LifecycleStep
  <2>1. Frame(lc, RequestDone(lc, c))
    BY <1>1, CoreFrames
  <2> QED BY <1>9, <2>1, SteadyImplements DEF EarlyUpdateRejected
<1>10. ASSUME EarlyOffer(c) \/ PeerOffer(c) PROVE LifecycleStep
  <2>1. PICK request \in PeerRequest, offer \in Offers, isUpdate \in BOOLEAN, compatible \in BOOLEAN,
             deferred \in BOOLEAN :
          lc' = CallUpdating(OfferMade(lc, c, request, offer), c, isUpdate, compatible, deferred, FALSE)
    <3>1. CASE EarlyOffer(c)
      BY <1>1, <3>1 DEF EarlyOffer, PeerRequest
    <3>2. CASE PeerOffer(c)
      BY <1>1, <3>2 DEF PeerOffer, PeerRequest
    <3> QED BY <1>10, <3>1, <3>2
  <2>2. lc.state[c] \in Live \ {"EarlyUpdatedByRemote"}
    BY <1>1, <1>10 DEF EarlyOffer, PeerOffer, CallFits, ListFits, OpFits, LogFits
  <2>3. offer \in Offer
    BY <2>1, SwitchAssumption
  <2> QED BY <1>1, <2>1, <2>2, <2>3, OfferImplements
<1>11. ASSUME Ack(c) PROVE LifecycleStep
  <2>1. PICK md \in Dir \cup {"bad"} : lc' = CallAck(lc, c, md)
    BY <1>11, SwitchAssumption DEF Ack, Unusable
  <2>2. lc.op[c] = "active"
    BY <1>11 DEF Ack
  <2>3. /\ StillBut(lc, lc', c) /\ lc'.state[c] \in Answered \cup Ended
        /\ lc.state[c] \in Ended => lc'.state[c] \in Ended
    BY <1>1, <2>1, CallAckMoves
  <2>4. lc.state[c] \in Answered \cup Ended
    BY <2>2, PhaseStatesNoIce
  <2> QED BY <2>3, <2>4, StateGroups, MoveImplements
<1>12. ASSUME Bye(c) \/ Cancel(c) PROVE LifecycleStep
  BY <1>12, DialogEndImplements DEF Bye, Cancel
<1>13. ASSUME Release(c) PROVE LifecycleStep
  <2>1. lc.op[c] \in {"cancelling", "terminating"} /\ lc' = SetState(lc, c, "Released")
    BY <1>13 DEF Release
  <2>2. lc.state[c] \in Ended
    BY <2>1, PhaseStatesNoIce
  <2>3. lc.state[c] # "Released" /\ c \notin lc.calls
    BY <2>2, ListedStates DEF Ended
  <2> QED BY <1>1, <2>1, <2>2, <2>3, ReleasedMoves, GoneImplements DEF LifecycleStep
<1>14. ASSUME OtherRequest(c) PROVE LifecycleStep
  <2>1. Frame(lc, lc')
    BY <1>1, <1>14 DEF OtherRequest, CoreType, Frame
  <2> QED BY <2>1, SteadyImplements
<1>15. ASSUME NEW n \in Call, Refer(c, n) PROVE LifecycleStep
  <2>1. PICK sent \in Sent : lc' = StartReferedCall(SetState(lc, c, "Refered"), c, n, sent)
    BY <1>15 DEF Refer
  <2>2. /\ lc.op[c] = "active" /\ c \in lc.calls /\ n \in Call \ {c}
        /\ lc.state[n] = "Idle" /\ lc.op[n] = "none" /\ sent \in BOOLEAN
    BY <1>15, InputTypes DEF Refer, Fresh
  <2> QED BY <2>1, <2>2, ReferImplements
<1> QED BY <1>2, <1>3, <1>4, <1>5, <1>6, <1>7, <1>8, <1>9, <1>10, <1>11, <1>12, <1>13, <1>14,
           <1>15 DEF SalStep

\* Every step of the core is a step of CallLifecycle, or a stutter.
LEMMA NextImplements ==
  ASSUME Mannerly, ~ UseIce, Consistent(lc), Consistent(lc'), [Next]_lc
  PROVE  LifecycleStep
<1>1. CASE UNCHANGED lc
  <2>1. \A d \in Call : PhaseOf(d)' = PhaseOf(d)
    BY <1>1, PhaseMapped
  <2> QED BY <1>1, <2>1 DEF LifecycleStep
<1>2. CASE Next
  BY <1>2, UserStepImplements, SalStepImplements, TimerStepImplements DEF Next
<1> QED BY <1>1, <1>2

\* No call exists at first.
LEMMA InitImplements == Init => Lifecycle!Init
<1> SUFFICES ASSUME Init PROVE Lifecycle!Init
  OBVIOUS
<1>1. lc.calls = {} /\ \A c \in Call : lc.state[c] = "Idle" /\ lc.op[c] = "none"
  BY DEF Init, EmptyCore
<1>2. \A c \in Call : PhaseOf(c) = "unused"
  BY <1>1 DEF PhaseOf, Answered, Ended
<1> QED BY <1>1, <1>2 DEF Lifecycle!Init

-----------------------------------------------------------------------------
(* Answering a call                                                        *)

\* No call of t is being placed that was not in s.
NoneIsPlaced(s, t) == \A d \in Call : t.state[d] \in Outgoing => s.state[d] \in Outgoing

\* No call that rings in s is answered in t.
NoneIsAccepted(s, t) == \A d \in Call : s.state[d] \in Alerting => t.state[d] \notin Answered

\* A call that stays in place, or enters a state in which it is not placed, is not placed.
LEMMA StillIsNotPlaced ==
  ASSUME NEW s, NEW t
  PROVE  /\ AllStill(s, t) => NoneIsPlaced(s, t)
         /\ \A c \in Call : StillBut(s, t, c) /\ t.state[c] \notin Outgoing => NoneIsPlaced(s, t)
BY StateGroups DEF AllStill, StillBut, Still, NoneIsPlaced

\* A call that stays in place is not accepted.
LEMMA StillIsNotAccepted ==
  ASSUME NEW s, NEW t
  PROVE  /\ AllStill(s, t) \/ Steady(s, t) \/ Frame(s, t) => NoneIsAccepted(s, t)
         /\ \A c \in Call : /\ StillBut(s, t, c) \/ Proceeds(s, t, c)
                            /\ s.state[c] \notin Alerting \/ t.state[c] \notin Answered
                            => NoneIsAccepted(s, t)
BY StateGroups DEF AllStill, StillBut, Still, Steady, Proceeds, Frame, Unanswered, NoneIsAccepted

\* The loop over the other calls leaves none that is being placed.
LEMMA CancelOutgoingEnds ==
  ASSUME NEW s, NEW c \in Call, Consistent(s), s.state[c] \in Alerting
  PROVE  \A d \in Call : CancelOutgoing(s, c).state[d] \notin Outgoing
<1> DEFINE gone == {a \in s.calls \ {c} : s.state[a] \in Outgoing}
           x == AllClosing(s, gone)
           y == AllTerminated(x, gone)
           z == AllEnded(y, gone)
           t == CancelOutgoing(s, c)
<1>1. s \in CoreType /\ "End" \notin Outgoing /\ Alerting \cap Outgoing = {}
  BY DEF Consistent, Outgoing, Alerting
<1>2. ASSUME NEW d \in Call, s.state[d] \in Outgoing PROVE d \in gone
  <2>1. d \in s.calls
    BY <1>2, StateGroups, ListedStates
  <2> QED BY <1>1, <1>2, <2>1
<1>3. CASE gone = {}
  <2>1. t = s
    BY <1>3 DEF CancelOutgoing
  <2> HIDE DEF gone
  <2> QED BY <1>2, <1>3, <2>1
<1>4. CASE gone # {}
  <2>1. t = StopRinging(z)
    BY <1>4 DEF CancelOutgoing
  <2> HIDE DEF gone
  <2>2. x.state = s.state /\ DOMAIN x = DOMAIN s
    BY <1>1 DEF AllClosing, CoreType
  <2>3. y.state = x.state /\ DOMAIN y = DOMAIN s
    BY <2>2 DEF AllTerminated
  <2> HIDE DEF x
  <2>4. z.state = [a \in Call |-> IF a \in gone THEN "End" ELSE y.state[a]]
    BY <1>1, <2>3 DEF AllEnded, CoreType
  <2> HIDE DEF y, z
  <2>5. t.state = z.state
    BY <2>1 DEF StopRinging
  <2> HIDE DEF t
  <2>6. \A d \in Call : t.state[d] \notin Outgoing
    BY <1>1, <1>2, <2>2, <2>3, <2>4, <2>5
  <2> QED BY <2>6 DEF t
<1> QED BY <1>3, <1>4

\* What precedes the answer.
LEMMA PrepareAcceptEnds ==
  ASSUME NEW s, NEW c \in Call, Consistent(s), s.state[c] \in Alerting
  PROVE  \A d \in Call : PrepareAccept(s, c).state[d] \notin Outgoing
<1> DEFINE o == CancelOutgoing(s, c)
           d == o.replaces[c]
           x == TerminateCall(o, d)
           r == IF ReplacesLive(o, c) THEN x ELSE o
           p == IF r.current # c THEN Preempt(r) ELSE r
           t == StopRinging(p)
<1>1. PrepareAccept(s, c) = t
  BY DEF PrepareAccept
<1>2. Consistent(o) /\ \A a \in Call : o.state[a] \notin Outgoing
  BY CancelOutgoingLeads, CancelOutgoingEnds DEF Leads
<1> HIDE DEF o
<1>3. ASSUME ReplacesLive(o, c) PROVE Consistent(x) /\ NoneIsPlaced(o, x)
  <2>1. d \in Call /\ o.op[d] # "none"
    BY <1>2, <1>3 DEF ReplacesLive, Consistent, CoreType
  <2>2. o.state[d] = "Idle" => o.op[d] = "ringing"
    BY <1>2, <2>1 DEF Consistent, CallFits, OpFits
  <2> HIDE DEF d
  <2>3. Leads(o, x) /\ Only(o, x, d) /\ (x.state[d] \in Ended \/ x = o)
    BY <1>2, <2>1, <2>2, TerminateCallLeads
  <2> HIDE DEF x
  <2>4. StillBut(o, x, d)
    BY <2>1, <2>3, FrameStill
  <2>5. x.state[d] \notin Outgoing
    BY <1>2, <2>1, <2>3 DEF Ended, Outgoing
  <2> QED BY <2>1, <2>3, <2>4, <2>5, StillIsNotPlaced DEF Leads
<1> HIDE DEF x
<1>4. Consistent(r) /\ \A a \in Call : r.state[a] \notin Outgoing
  BY <1>2, <1>3 DEF NoneIsPlaced
<1> HIDE DEF r
<1>5. Consistent(Preempt(r)) /\ NoneIsPlaced(r, Preempt(r))
  BY <1>4, PreemptStill, StillIsNotPlaced
<1>6. p \in CoreType /\ \A a \in Call : p.state[a] \notin Outgoing
  BY <1>4, <1>5 DEF NoneIsPlaced, Consistent
<1> HIDE DEF p
<1>7. t.state = p.state
  BY <1>6, CoreFrames DEF Frame
<1> QED BY <1>1, <1>6, <1>7

\* linphone_core_accept_call_with_params(), whether or not the application hangs up
LEMMA AcceptCallEnds ==
  ASSUME NEW s, NEW c \in Call, NEW hangup \in BOOLEAN, Consistent(s), s.state[c] \in Alerting
  PROVE  \A d \in Call : AcceptCall(s, c, hangup).state[d] \notin Outgoing
<1> DEFINE p == PrepareAccept(s, c)
           a == SalAccept(p, c)
           m == MakeCurrent(a, c)
           k == SetState(m, c, "Connected")
           x == TerminateCall(k, c)
           h == IF hangup THEN x ELSE k
           u == UpdateStreams(h, c, DirOfOffer(s.rmd[c]))
           w == SetState(u, c, "StreamsRunning")
           y == ExpectMediaInAck(h, c)
           t == AcceptCall(s, c, hangup)
<1>1. t = IF s.rmd[c] = "nosdp" THEN y ELSE w
  BY DEF AcceptCall
<1>2. s \in CoreType /\ c \in s.calls /\ Alerting \cap (Ended \cup Answered) = {}
  BY AlertingRow DEF Consistent, Alerting, Ended, Answered
<1>3. p \in CoreType /\ Same(s, p, c) /\ \A d \in Call : p.state[d] \notin Outgoing
  BY PrepareAcceptSteady, PrepareAcceptEnds
<1> HIDE DEF p
<1>4. Here(p, c) /\ p.state[c] \in Alerting
  BY <1>2, <1>3 DEF Same, Here
<1>5. Frame(p, a)
  BY <1>3, SalFrames
<1> HIDE DEF a
<1>6. Frame(a, m)
  BY <1>5, CoreFrames DEF Frame
<1>7. Frame(p, m)
  BY <1>5, <1>6, FrameTrans
<1> HIDE DEF m
<1>8. /\ "Connected" \in CallState \ {"Idle", "Released"} /\ "StreamsRunning" \in CallState \ {"Idle", "Released"}
      /\ {"Connected", "StreamsRunning"} \subseteq Answered
      /\ "Connected" # "Released" /\ "Connected" \notin {"IncomingReceived", "End"}
      /\ (Ended \cup {"Connected", "StreamsRunning"}) \cap Outgoing = {}
  BY DEF CallState, Answered, Ended, Outgoing
<1>9. /\ k \in CoreType /\ Here(k, c) /\ k.state[c] = "Connected"
      /\ \A d \in Call \ {c} : k.state[d] = p.state[d]
  BY <1>2, <1>3, <1>4, <1>7, <1>8, SetStateProceeds
<1> HIDE DEF k
<1>10. x \in CoreType /\ StillBut(k, x, c) /\ x.state[c] \in Ended
  <2>1. x = TerminateLocally(SalTerminate(k, c), c)
    BY <1>9 DEF TerminateCall, Alerting
  <2>2. Frame(k, SalTerminate(k, c))
    BY <1>9, SalFrames
  <2> QED BY <1>9, <2>1, <2>2, TerminateStill
<1> HIDE DEF x
<1>11. h \in CoreType /\ Here(h, c) /\ \A d \in Call : h.state[d] \notin Outgoing
  <2>1. \A d \in Call : k.state[d] \notin Outgoing
    BY <1>3, <1>8, <1>9
  <2>2. NoneIsPlaced(k, x)
    BY <1>8, <1>10, StillIsNotPlaced
  <2> QED BY <1>9, <1>10, <2>1, <2>2 DEF NoneIsPlaced, Here
<1> HIDE DEF h
<1>12. \A d \in Call : t.state[d] \notin Outgoing
  <2>1. CASE s.rmd[c] = "nosdp"
    <3>1. y.state = h.state
      BY <1>11, CoreFrames DEF Frame
    <3> QED BY <1>1, <1>11, <2>1, <3>1
  <2>2. CASE s.rmd[c] # "nosdp"
    <3>1. DirOfOffer(s.rmd[c]) \in Dir
      BY <1>2, <2>2, DirOfOfferType DEF CoreType
    <3>2. Frame(h, u)
      BY <1>11, <3>1, OperationFrames
    <3> HIDE DEF u
    <3>3. /\ w.state[c] \in {h.state[c], "StreamsRunning"}
          /\ \A d \in Call \ {c} : w.state[d] = h.state[d]
      BY <1>8, <1>11, <3>2, SetStateProceeds
    <3>4. t = w
      BY <1>1, <2>2
    <3> HIDE DEF w, t
    <3> QED BY <1>8, <1>11, <3>3, <3>4
  <2> QED BY <2>1, <2>2
<1> QED BY <1>12

\* No call of the API but linphone_core_accept_call() answers a call that rings.
LEMMA UserStepAccepts ==
  ASSUME NEW c \in Call, Mannerly, ~ UseIce, Consistent(lc), Consistent(lc'), UserStep(c)
  PROVE  Accept(c) \/ NoneIsAccepted(lc, lc')
<1>1. lc \in CoreType /\ CallFits(lc, c) /\ Frame(lc, lc)
  BY CoreFrames DEF Consistent
<1>2. ASSUME Invite(c) PROVE NoneIsAccepted(lc, lc')
  <2>1. PICK sent \in Sent : lc' = InviteCall(lc, c, NoCall, sent)
    BY <1>2 DEF Invite
  <2>2. sent \in BOOLEAN /\ lc.state[c] = "Idle" /\ lc.op[c] = "none"
    BY <1>2 DEF Invite, Fresh, Sent
  <2>3. AllStill(lc, lc') \/ StillBut(lc, lc', c)
    BY <2>1, <2>2, InviteCallStarts
  <2> QED BY <2>2, <2>3, StillIsNotAccepted DEF Alerting
<1>3. ASSUME AcceptEarlyMedia(c) PROVE NoneIsAccepted(lc, lc')
  <2>1. lc.state[c] = "IncomingReceived" /\ lc' = AcceptEarlyMediaCall(lc, c)
    BY <1>3 DEF AcceptEarlyMedia
  <2>2. Only(lc, lc', c) /\ lc'.state[c] = "IncomingEarlyMedia"
    BY <1>1, <2>1, AcceptEarlyMediaCallMoves DEF Ended
  <2>3. lc'.state[c] \notin Answered
    BY <2>2 DEF Answered
  <2> QED BY <2>2, <2>3, FrameStill, StillIsNotAccepted
<1>5. ASSUME Decline(c) PROVE NoneIsAccepted(lc, lc')
  <2>1. Here(lc, c) /\ lc' = DeclineCall(lc, c)
    BY <1>5 DEF Decline, Here
  <2> QED BY <1>1, <2>1, DeclineCallSteady, StillIsNotAccepted
<1>6. ASSUME Terminate(c) PROVE NoneIsAccepted(lc, lc')
  <2>1. lc.state[c] \in Live \cup Ended /\ lc' = TerminateCall(lc, c)
    BY <1>1, <1>6 DEF Terminate, CoreType, Live
  <2>2. Here(lc, c)
    BY <2>1, OperationIsHere
  <2> QED BY <1>1, <2>1, <2>2, TerminateCallSteady, StillIsNotAccepted
<1>7. ASSUME Pause(c) PROVE NoneIsAccepted(lc, lc')
  BY <1>7, PauseCallStill, StillIsNotAccepted DEF Pause
<1>8. ASSUME Resume(c) PROVE NoneIsAccepted(lc, lc')
  BY <1>8, ResumeCallStill, StillIsNotAccepted DEF Resume
<1>9. ASSUME Update(c) PROVE NoneIsAccepted(lc, lc')
  <2>1. PICK regather \in Regather : lc' = UpdateCall(lc, c, regather)
    BY <1>9 DEF Update
  <2>2. lc.state[c] = "StreamsRunning" /\ regather \in BOOLEAN
    BY <1>9 DEF Update, Mannerly, Regather
  <2>3. StillBut(lc, lc', c)
    BY <1>1, <2>1, <2>2, UpdateCallMoves
  <2> QED BY <2>2, <2>3, StillIsNotAccepted DEF Alerting
<1>10. ASSUME AcceptCallUpdate(c) PROVE NoneIsAccepted(lc, lc')
  <2>1. lc' = StartAcceptUpdate(lc, c, lc.prev[c]) /\ lc.state[c] = "UpdatedByRemote"
    BY <1>10 DEF AcceptCallUpdate, AcceptUpdate, Regather
  <2>2. lc.prev[c] \in Answered /\ lc.state[c] \notin Ended
    BY <1>1, <2>1, StateGroups DEF CallFits, PrevFits, Ended
  <2>3. lc.prev[c] \in CallState \ {"Released"}
    BY <2>2, StateGroups
  <2>4. StillBut(lc, lc', c)
    BY <1>1, <2>1, <2>2, <2>3, StartAcceptUpdateMoves
  <2> QED BY <2>1, <2>4, StillIsNotAccepted DEF Alerting
<1> QED BY <1>2, <1>3, <1>5, <1>6, <1>7, <1>8, <1>9, <1>10 DEF UserStep

\* handle_ice_events() leaves the call as it is, or announces it, or places it.
LEMMA GatheredAccepts ==
  ASSUME NEW c \in Call, NEW sent \in BOOLEAN, ~ UseIce, Consistent(lc), lc' = IceGathered(lc, c, sent)
  PROVE  c \in lc.calls => NoneIsAccepted(lc, lc')
<1> SUFFICES ASSUME c \in lc.calls PROVE NoneIsAccepted(lc, lc')
  OBVIOUS
<1> DEFINE g == Gathering(lc, c, FALSE)
<1>1. lc \in CoreType /\ CallFits(lc, c)
  BY DEF Consistent
<1>2. Frame(lc, g) /\ Silent(lc, g)
  BY <1>1, OperationFrames, MediaIsSilent
<1>3. /\ lc.state[c] = "Updating" => lc' = SalUpdate(g, c, "reinvite")
      /\ lc.state[c] = "UpdatedByRemote" => lc' = StartAcceptUpdate(g, c, lc.prev[c])
      /\ lc.state[c] = "OutgoingInit" => lc' = StartInvite(g, c, sent)
      /\ lc.state[c] = "Idle" => lc' = NotifyIncoming(g, c, FALSE)
      /\ lc.state[c] \notin {"Updating", "UpdatedByRemote", "OutgoingInit", "Idle"} => lc' = g
  BY DEF IceGathered
<1> HIDE DEF g
<1>4. /\ Consistent(g) /\ g \in CoreType /\ g.state = lc.state /\ g.calls = lc.calls
      /\ g.op[c] = lc.op[c] /\ StillBut(lc, g, c)
  BY <1>2, SilentLeads, FrameStill DEF Leads, Frame, Silent, Same
<1>5. CASE lc.state[c] = "Updating"
  <2>1. Frame(g, lc')
    BY <1>3, <1>4, <1>5, SalFrames DEF Request
  <2>2. Frame(lc, lc')
    BY <1>2, <2>1, FrameTrans
  <2> QED BY <2>2, StillIsNotAccepted
<1>6. CASE lc.state[c] = "UpdatedByRemote"
  <2>1. lc.prev[c] \in Answered /\ lc.state[c] \notin Ended
    BY <1>1, <1>6, StateGroups DEF CallFits, PrevFits, Ended
  <2>2. lc.prev[c] \in CallState \ {"Released"}
    BY <2>1, StateGroups
  <2>3. StillBut(g, lc', c)
    BY <1>3, <1>4, <1>6, <2>1, <2>2, StartAcceptUpdateMoves
  <2>4. StillBut(lc, lc', c)
    BY <1>4, <2>3, StillTrans
  <2> QED BY <1>6, <2>4, StillIsNotAccepted DEF Alerting
<1>7. CASE lc.state[c] = "OutgoingInit"
  <2>1. StillBut(g, lc', c)
    BY <1>3, <1>4, <1>7, StartInviteMoves DEF Ended
  <2>2. StillBut(lc, lc', c)
    BY <1>4, <2>1, StillTrans
  <2> QED BY <1>7, <2>2, StillIsNotAccepted DEF Alerting
<1>8. CASE lc.state[c] = "Idle"
  <2>1. lc.op[c] = "ringing" /\ lc.state[c] \notin Alerting
    BY <1>1, <1>8 DEF CallFits, ListFits, Live, Alerting
  <2>2. StillBut(g, lc', c) \/ Proceeds(g, lc', c)
    BY <1>3, <1>4, <1>8, <2>1, NotifyIncomingMoves
  <2>3. CASE Proceeds(g, lc', c)
    <3>1. Proceeds(lc, g, c)
      BY <1>2, FrameSteady, SteadyProceeds
    <3> QED BY <2>1, <2>3, <3>1, ProceedsTrans, StillIsNotAccepted
  <2>4. CASE StillBut(g, lc', c)
    BY <1>4, <2>1, <2>4, StillTrans, StillIsNotAccepted
  <2> QED BY <2>2, <2>3, <2>4
<1>9. CASE lc.state[c] \notin {"Updating", "UpdatedByRemote", "OutgoingInit", "Idle"}
  BY <1>2, <1>3, <1>9, StillIsNotAccepted
<1> QED BY <1>5, <1>6, <1>7, <1>8, <1>9

\* Nor does linphone_core_iterate().
LEMMA TimerStepAccepts ==
  ASSUME NEW c \in Call, ~ UseIce, Consistent(lc), TimerStep(c)
  PROVE  NoneIsAccepted(lc, lc')
<1>1. lc \in CoreType
  BY DEF Consistent
<1>2. ASSUME IncomingTimeout(c) PROVE NoneIsAccepted(lc, lc')
  BY <1>2, IncomingTimeoutSteady, StillIsNotAccepted DEF IncomingTimeout
<1>3. ASSUME DelayedInvite(c) PROVE NoneIsAccepted(lc, lc')
  <2> DEFINE g == Gathering(lc, c, FALSE)
  <2>1. PICK sent \in Sent : lc' = StartInvite(g, c, sent)
    BY <1>3 DEF DelayedInvite
  <2>2. Frame(lc, g)
    BY <1>1, OperationFrames
  <2> HIDE DEF g
  <2>3. lc.state[c] = "OutgoingInit" /\ sent \in BOOLEAN
    BY <1>3 DEF DelayedInvite, Sent
  <2>4. g \in CoreType /\ g.state = lc.state /\ StillBut(lc, g, c)
    BY <2>2, FrameStill DEF Frame
  <2>5. StillBut(g, lc', c)
    BY <2>1, <2>3, <2>4, StartInviteMoves DEF Ended
  <2>6. StillBut(lc, lc', c)
    BY <2>4, <2>5, StillTrans
  <2> QED BY <2>3, <2>6, StillIsNotAccepted DEF Alerting
<1>4. ASSUME Gathered(c) PROVE NoneIsAccepted(lc, lc')
  <2>1. PICK sent \in Sent : lc' = IceGathered(lc, c, sent)
    BY <1>4 DEF Gathered
  <2>2. sent \in BOOLEAN /\ c \in lc.calls
    BY <1>4 DEF Gathered, Sent
  <2> QED BY <2>1, <2>2, GatheredAccepts
<1>5. ASSUME RunTask(c) PROVE NoneIsAccepted(lc, lc')
  BY <1>5, ResumeTaskStill, StillIsNotAccepted DEF RunTask
<1> QED BY <1>2, <1>3, <1>4, <1>5 DEF TimerStep

\* call_received() may answer the new call, in place of another.
LEMMA CallReceivedAccepts ==
  ASSUME NEW c \in Call, NEW offer \in Offer, NEW reject \in BOOLEAN,
         NEW replaced \in {NoCall} \cup {r \in lc.calls : lc.op[r] = "active"},
         ~ UseIce, Consistent(lc), lc.state[c] = "Idle", lc.op[c] = "none",
         lc' = CallReceived(lc, c, offer, replaced, reject)
  PROVE  NoneIsAccepted(lc, lc')
<1> DEFINE n == Replacing(OfferMade(AddCall(lc, c, "ringing"), c, "invite", offer), c, replaced)
<1>1. lc \in CoreType /\ CallFits(lc, c)
  BY DEF Consistent
<1>2. replaced \in (Call \ {c}) \cup {NoCall}
  BY <1>1, NoCallAssumption DEF CoreType
<1>3. lc' = NotifyIncoming(n, c, reject)
  BY DEF CallReceived
<1>4. Consistent(n) /\ n.state[c] = "Idle" /\ n.op[c] = "ringing" /\ StillBut(lc, n, c)
  BY <1>1, <1>2, ReceivedLeads, FrameStill DEF Leads
<1> HIDE DEF n
<1>5. StillBut(n, lc', c) \/ Proceeds(n, lc', c)
  BY <1>3, <1>4, NotifyIncomingMoves
<1>6. CASE StillBut(n, lc', c)
  BY <1>4, <1>6, StillTrans, StillIsNotAccepted DEF Alerting
<1>7. CASE Proceeds(n, lc', c)
  <2>1. NoneIsAccepted(n, lc')
    BY <1>4, <1>7, StillIsNotAccepted DEF Alerting
  <2>2. \A d \in Call : lc.state[d] \in Alerting => d # c /\ n.state[d] = lc.state[d]
    BY <1>4, StateGroups DEF StillBut, Still, Alerting
  <2> QED BY <2>1, <2>2 DEF NoneIsAccepted
<1> QED BY <1>5, <1>6, <1>7

\* The far end's offer does not answer a call that rings.
LEMMA OfferAccepts ==
  ASSUME NEW c \in Call, NEW request \in PeerRequest, NEW offer \in Offer,
         NEW isUpdate \in BOOLEAN, NEW compatible \in BOOLEAN, NEW deferred \in BOOLEAN,
         Consistent(lc), lc.state[c] \in Live \ {"EarlyUpdatedByRemote"},
         lc' = CallUpdating(OfferMade(lc, c, request, offer), c, isUpdate, compatible, deferred, FALSE)
  PROVE  NoneIsAccepted(lc, lc')
<1> DEFINE o == OfferMade(lc, c, request, offer)
           t == CallUpdating(o, c, isUpdate, compatible, deferred, FALSE)
<1>1. Frame(lc, o)
  BY SalFrames DEF Consistent
<1> HIDE DEF o
<1>2. o \in CoreType /\ o.state = lc.state /\ StillBut(lc, o, c)
  BY <1>1, FrameStill DEF Frame
<1>3. /\ StillBut(o, t, c)
      /\ t.state[c] = o.state[c] \/ (o.state[c] \in Answered /\ t.state[c] \in Answered)
  BY ZenonT(60), <1>2, CallUpdatingMoves
<1> HIDE DEF t
<1>4. StillBut(lc, t, c)
  BY <1>2, <1>3, StillTrans
<1>5. lc.state[c] \notin Alerting \/ t.state[c] \notin Answered
  BY <1>2, <1>3, StateGroups
<1>6. NoneIsAccepted(lc, t)
  BY <1>4, <1>5, StillIsNotAccepted
<1> QED BY <1>6 DEF t, o

\* Nor does a REFER.
LEMMA ReferAccepts ==
  ASSUME NEW c \in Call, NEW n \in Call \ {c}, NEW sent \in BOOLEAN, ~ UseIce, Consistent(lc),
         lc.op[c] = "active", c \in lc.calls, lc.state[n] = "Idle", lc.op[n] = "none",
         lc' = StartReferedCall(SetState(lc, c, "Refered"), c, n, sent)
  PROVE  NoneIsAccepted(lc, lc')
<1> DEFINE r == SetState(lc, c, "Refered")
<1>1. Leads(lc, r) /\ r.state = lc.state /\ r.op = lc.op /\ r.calls = lc.calls
  BY ReferedLeads
<1> HIDE DEF r
<1>2. Consistent(r)
  BY <1>1 DEF Leads
<1>3. AllStill(r, lc') \/ (StillBut(r, lc', n) /\ lc'.state[n] \in {"OutgoingProgress", "Error"})
  BY <1>1, <1>2, StartReferedCallStarts DEF r
<1>4. NoneIsAccepted(r, lc')
  BY <1>1, <1>3, StillIsNotAccepted DEF Alerting
<1> QED BY <1>1, <1>4 DEF NoneIsAccepted

\* No callback of the SAL answers a call that rings.
LEMMA SalStepAccepts ==
  ASSUME NEW c \in Call, Mannerly, ~ UseIce, Consistent(lc), SalStep(c)
  PROVE  NoneIsAccepted(lc, lc')
<1>1. /\ lc \in CoreType /\ CallFits(lc, c) /\ Regather = {FALSE}
      /\ (AwaitingAnswer \cup Answered \cup Ended) \cap Alerting = {}
  BY DEF Consistent, Regather, AwaitingAnswer, Outgoing, Answered, Ended, Alerting
<1>2. ASSUME Receive(c) PROVE NoneIsAccepted(lc, lc')
  <2>1. PICK offer \in Offers, reject \in Hangup,
             replaced \in {NoCall} \cup {r \in lc.calls : lc.op[r] = "active"} :
          lc' = CallReceived(lc, c, offer, replaced, reject)
    BY <1>2 DEF Receive
  <2>2. lc.state[c] = "Idle" /\ lc.op[c] = "none"
    BY <1>2 DEF Receive, Fresh
  <2>3. offer \in Offer /\ reject \in BOOLEAN
    BY <2>1, SwitchAssumption, InputTypes
  <2> QED BY <2>1, <2>2, <2>3, CallReceivedAccepts
<1>3. ASSUME Ringing(c) PROVE NoneIsAccepted(lc, lc')
  <2> DEFINE o == Operation(lc, c, "early")
  <2>1. PICK md \in Dir \cup {"none"} : lc' = CallRinging(o, c, md)
    BY <1>3, SwitchAssumption DEF Ringing
  <2>2. lc.state[c] \in AwaitingAnswer
    BY <1>3, PhaseStatesNoIce DEF Ringing
  <2>3. Frame(lc, o)
    BY <1>1, OperationFrames DEF OpPhase
  <2> HIDE DEF o
  <2>4. o \in CoreType /\ o.state = lc.state /\ StillBut(lc, o, c)
    BY <2>3, FrameStill DEF Frame
  <2>5. StillBut(o, lc', c)
    BY <2>1, <2>2, <2>4, CallRingingMoves
  <2>6. StillBut(lc, lc', c)
    BY <2>4, <2>5, StillTrans
  <2> QED BY <1>1, <2>2, <2>6, StillIsNotAccepted
<1>4. ASSUME Answered200(c) PROVE NoneIsAccepted(lc, lc')
  <2>1. PICK answer \in Dir \cup Unusable, hangup \in Hangup :
          lc' = CallAccepted(Operation(lc, c, "active"), c, answer, hangup)
    BY <1>4, SwitchAssumption DEF Answered200
  <2>2. lc.op[c] \in {"inviting", "early"} /\ hangup \in BOOLEAN /\ (hangup => "appHangup" \in Faults)
    BY <1>4 DEF Answered200, Hangup
  <2>3. StillBut(lc, lc', c)
    BY <2>1, <2>2, Answered200Moves
  <2>4. lc.state[c] \in AwaitingAnswer
    BY <2>2, PhaseStatesNoIce
  <2> QED BY <1>1, <2>3, <2>4, StillIsNotAccepted
<1>5. ASSUME InviteFailed(c) PROVE NoneIsAccepted(lc, lc')
  <2>1. lc.op[c] \in {"inviting", "early"}
    BY <1>5 DEF InviteFailed
  <2>2. PICK reason \in {"declined", "redirect", "notacceptable", "other"}, sent \in BOOLEAN :
          LET f == CallFailure(lc, c, reason, sent)
          IN  lc' = IF f.retries[c] # lc.retries[c] THEN f
                    ELSE IF lc.op[c] = "inviting" THEN SetState(RequestDone(f, c), c, "Released")
                    ELSE Closing(f, c)
    BY <1>5 DEF InviteFailed, Mannerly, Sent
  <2>3. reason # "pending"
    OBVIOUS
  <2>4. StillBut(lc, lc', c)
    BY <2>1, <2>2, <2>3, InviteFailedMoves
  <2>5. lc.state[c] \in AwaitingAnswer
    BY <2>1, PhaseStatesNoIce
  <2> QED BY <1>1, <2>4, <2>5, StillIsNotAccepted
<1>6. ASSUME CancelledTimeout(c) PROVE NoneIsAccepted(lc, lc')
  <2>1. lc.op[c] = "cancelling" /\ lc' = SetState(CallFailure(lc, c, "other", TRUE), c, "Released")
    BY <1>6 DEF CancelledTimeout
  <2>2. lc.state[c] \in Ended
    BY <2>1, PhaseStatesNoIce
  <2>3. StillBut(lc, lc', c)
    BY <2>1, <2>2, CancelledTimeoutMoves
  <2> QED BY <1>1, <2>2, <2>3, StillIsNotAccepted
<1>7. ASSUME OfferAccepted(c) PROVE NoneIsAccepted(lc, lc')
  <2> DEFINE local == IF lc.ct[c] = "hold" THEN "sendonly" ELSE "sendrecv"
  <2>1. \A a \in Answers : a \notin Unusable => DirOfAnswer(local, a) \in Dir
    BY DirOfAnswerType
  <2>2. lc.dir[c] \in Dir \cup {"none"}
    BY <1>1 DEF CoreType
  <2>3. PICK answer \in Dir \cup Unusable : lc' = CallAccepted(RequestDone(lc, c), c, answer, FALSE)
    BY <1>7, <2>1, <2>2 DEF OfferAccepted, Unusable
  <2>4. lc.ct[c] # "none"
    BY <1>7 DEF OfferAccepted
  <2>5. StillBut(lc, lc', c)
    BY <2>3, <2>4, OfferAcceptedMoves
  <2>6. lc.state[c] \in Answered
    BY <2>4, PhaseStatesNoIce DEF Settling, Answered
  <2> QED BY <1>1, <2>5, <2>6, StillIsNotAccepted
<1>8. ASSUME OfferRejected(c) PROVE NoneIsAccepted(lc, lc')
  <2>1. PICK reason \in {"declined", "redirect", "notacceptable", "pending", "other"},
             sent \in BOOLEAN :
          lc' = CallFailure(RequestDone(lc, c), c, reason, sent)
    BY <1>8 DEF OfferRejected, Sent
  <2>2. lc.ct[c] # "none"
    BY <1>8 DEF OfferRejected
  <2>3. StillBut(lc, lc', c)
    BY <2>1, <2>2, OfferRejectedMoves
  <2>4. lc.state[c] \in Answered
    BY <2>2, PhaseStatesNoIce DEF Settling, Answered
  <2> QED BY <1>1, <2>3, <2>4, StillIsNotAccepted
<1>9. ASSUME EarlyUpdateRejected(c) PROVE NoneIsAccepted(lc, lc')
  <2>1. Frame(lc, RequestDone(lc, c))
    BY <1>1, CoreFrames
  <2> QED BY <1>9, <2>1, StillIsNotAccepted DEF EarlyUpdateRejected
<1>10. ASSUME EarlyOffer(c) \/ PeerOffer(c) PROVE NoneIsAccepted(lc, lc')
  <2>1. PICK request \in PeerRequest, offer \in Offers, isUpdate \in BOOLEAN, compatible \in BOOLEAN,
             deferred \in BOOLEAN :
          lc' = CallUpdating(OfferMade(lc, c, request, offer), c, isUpdate, compatible, deferred, FALSE)
    <3>1. CASE EarlyOffer(c)
      BY <1>1, <3>1 DEF EarlyOffer, PeerRequest
    <3>2. CASE PeerOffer(c)
      BY <1>1, <3>2 DEF PeerOffer, PeerRequest
    <3> QED BY <1>10, <3>1, <3>2
  <2>2. offer \in Offer
    BY <2>1, SwitchAssumption
  <2>3. lc.state[c] \in Live \ {"EarlyUpdatedByRemote"}
    BY <1>1, <1>10 DEF EarlyOffer, PeerOffer, CallFits, ListFits, OpFits, LogFits
  <2> QED BY <2>1, <2>2, <2>3, OfferAccepts
<1>11. ASSUME Ack(c) PROVE NoneIsAccepted(lc, lc')
  <2>1. PICK md \in Dir \cup {"bad"} : lc' = CallAck(lc, c, md)
    BY <1>11, SwitchAssumption DEF Ack, Unusable
  <2>2. lc.op[c] = "active"
    BY <1>11 DEF Ack
  <2>3. StillBut(lc, lc', c)
    BY <1>1, <2>1, CallAckMoves
  <2>4. lc.state[c] \in Answered \cup Ended
    BY <2>2, PhaseStatesNoIce
  <2> QED BY <1>1, <2>3, <2>4, StillIsNotAccepted
<1>12. ASSUME Bye(c) \/ Cancel(c) PROVE NoneIsAccepted(lc, lc')
  <2>1. lc.op[c] \in {"active", "ringing"} /\ lc' = Closing(CallTerminated(lc, c), c)
    BY <1>12 DEF Bye, Cancel
  <2>2. lc.state[c] # "Released" /\ Here(lc, c)
    BY <1>1, <2>1, OperationIsHere DEF CallFits, OpFits
  <2>3. StillBut(lc, lc', c) /\ lc'.state[c] \in Ended
    BY <2>1, <2>2, DialogEndMoves
  <2>4. lc'.state[c] \notin Answered
    BY <2>3, StateGroups
  <2> QED BY <2>3, <2>4, StillIsNotAccepted
<1>13. ASSUME Release(c) PROVE NoneIsAccepted(lc, lc')
  <2>1. lc.op[c] \in {"cancelling", "terminating"} /\ lc' = SetState(lc, c, "Released")
    BY <1>13 DEF Release
  <2>2. lc.state[c] \in Ended
    BY <2>1, PhaseStatesNoIce
  <2>3. lc.state[c] # "Released" /\ c \notin lc.calls
    BY <2>2, ListedStates DEF Ended
  <2>4. StillBut(lc, lc', c)
    BY <1>1, <2>1, <2>2, <2>3, ReleasedMoves
  <2> QED BY <1>1, <2>2, <2>4, StillIsNotAccepted
<1>14. ASSUME OtherRequest(c) PROVE NoneIsAccepted(lc, lc')
  <2>1. Frame(lc, lc')
    BY <1>1, <1>14 DEF OtherRequest, CoreType, Frame
  <2> QED BY <2>1, StillIsNotAccepted
<1>15. ASSUME NEW n \in Call, Refer(c, n) PROVE NoneIsAccepted(lc, lc')
  <2>1. PICK sent \in Sent : lc' = StartReferedCall(SetState(lc, c, "Refered"), c, n, sent)
    BY <1>15 DEF Refer
  <2>2. /\ lc.op[c] = "active" /\ c \in lc.calls /\ n \in Call \ {c}
        /\ lc.state[n] = "Idle" /\ lc.op[n] = "none" /\ sent \in BOOLEAN
    BY <1>15, InputTypes DEF Refer, Fresh
  <2> QED BY <2>1, <2>2, ReferAccepts
<1> QED BY <1>2, <1>3, <1>4, <1>5, <1>6, <1>7, <1>8, <1>9, <1>10, <1>11, <1>12, <1>13, <1>14,
           <1>15 DEF SalStep

\* Only linphone_core_accept_call() answers a call that rings, and when it has, no call
\* is being placed.
LEMMA NextAccepts ==
  ASSUME Mannerly, ~ UseIce, Consistent(lc), Consistent(lc'), [Next]_lc
  PROVE  NoneIsAccepted(lc, lc') \/ \A d \in Call : lc'.state[d] \notin Outgoing
<1>1. CASE UNCHANGED lc
  BY <1>1, StateGroups DEF NoneIsAccepted
<1>2. ASSUME NEW c \in Call, Accept(c) PROVE \A d \in Call : lc'.state[d] \notin Outgoing
  <2>1. PICK hangup \in Hangup : lc' = AcceptCall(lc, c, hangup)
    BY <1>2 DEF Accept
  <2>2. hangup \in BOOLEAN /\ lc.state[c] \in Alerting
    BY <1>2 DEF Accept, Hangup
  <2> QED BY <2>1, <2>2, AcceptCallEnds
<1>3. CASE Next
  BY <1>2, <1>3, UserStepAccepts, SalStepAccepts, TimerStepAccepts DEF Next
<1> QED BY <1>1, <1>3

-----------------------------------------------------------------------------
(* Theorems                                                                *)

\* Every handler of linphonecore.c, linphonecall.c and callbacks.c, with all it
\* calls, is one step of the life of the calls or leaves it alone, for any number of
\* calls: the core implements CallLifecycle.
THEOREM LifecycleImplemented ==
  ASSUME Mannerly, ~ UseIce
  PROVE  Spec => ImplementsLifecycle
<1>1. Consistent(lc) /\ Consistent(lc)' /\ [Next]_lc
        => [Lifecycle!Next]_<<[c \in Call |-> PhaseOf(c)], lc.calls>>
  BY NextImplements DEF LifecycleStep
<1>2. Spec => Lifecycle!Init
  BY InitImplements, PTL DEF Spec
<1>3. Spec => [][Lifecycle!Next]_<<[c \in Call |-> PhaseOf(c)], lc.calls>>
  BY CallsAreConsistent, <1>1, PTL DEF Spec
<1> QED BY <1>2, <1>3, PTL DEF ImplementsLifecycle, Lifecycle!Spec

\* AcceptCancelsOutgoing: whichever call is answered, and however many others there are,
\* no call is left being placed.
THEOREM AnswerLeavesNonePlaced ==
  ASSUME Mannerly, ~ UseIce
  PROVE  Spec => AcceptCancelsOutgoing
<1>1. Consistent(lc) /\ Consistent(lc)' /\ [Next]_lc
        => [\A c \in Call :
              /\ lc.state[c] \in Alerting
              /\ lc'.state[c] \in {"Connected", "StreamsRunning"}
              => \A d \in Call : lc'.state[d] \notin Outgoing]_lc
  BY NextAccepts DEF NoneIsAccepted, Answered
<1> QED BY CallsAreConsistent, <1>1, PTL DEF Spec, AcceptCancelsOutgoing
=============================================================================
