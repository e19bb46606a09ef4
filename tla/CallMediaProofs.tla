--------------------------- MODULE CallMediaProofs ---------------------------
(***************************************************************************)
(* Theorems about what a call waits for, which media it has, what it holds *)
(* when it is over, what the tone plays for, and what becomes of the       *)
(* current call when another is turned to, for every set of calls and      *)
(* every limit.                                                            *)
(*                                                                         *)
(* Orderly adds two parts to Consistent, the invariant of CallListProofs:  *)
(* Tidy, which says of one call how its state, its operation, its requests *)
(* and its media belong together, and Reason, which says what the tone is  *)
(* for.  All that Tidy says of a call is in its Row, so that a handler of  *)
(* one call is followed by the row it Makes.  The lemmas follow CallOps;   *)
(* each handler has one that ends in Tidy, the actions come last.  The     *)
(* lemmas of the handlers that may turn to another call also say that it   *)
(* Turns: the call that was current runs no more.                          *)
(***************************************************************************)
EXTENDS CallListProofs

\* The ordinary world: of the situations of FaultKind, only the one that is harmless
\* without another, and every offer has SDP.
Quiet == Faults \subseteq {"lateProvisional"} /\ "nosdp" \notin Offers

\* Who holds, and who is held.
HoldDir == {"sendonly", "inactive"}
HeldDir == {"recvonly", "inactive"}

\* The states in which an answered call waits for nothing.
Resting == {"StreamsRunning", "Paused", "PausedByRemote"}

\* If the far end never offers not to speak, it has not.
Spoken(offer) == "recvonly" \notin Offers => offer # "recvonly"

\* A flag, as a value.
On(flag) == IF flag THEN "on" ELSE "off"

\* What the core and the operation know of one call.
RowOf(state, prev, op, ct, pend, dir, rmd, streams, gathering, listed, busy, ack) ==
  [ state |-> state, prev |-> prev, op |-> op, ct |-> ct, pend |-> pend, dir |-> dir, rmd |-> rmd,
    streams |-> streams, gathering |-> gathering, listed |-> listed, busy |-> busy, ack |-> ack ]

Row(s, c) ==
  RowOf(s.state[c], s.prev[c], s.op[c], s.ct[c], s.pend[c], s.dir[c], s.rmd[c], On(s.streams[c]),
        On(s.gathering[c]), On(c \in s.calls), On(s.busy[c]), On(s.ackMedia[c]))

\* The call is in the state, or a refused request would bring it back there.
Rests(r, state) == r.state = state \/ (r.state \in Transient /\ r.prev = state)

\* A call that is over is closing, and holds nothing.
TidyEnd(r) ==
  /\ r.state \in Ended => r.op \in {"cancelling", "terminating"} \/ (UseIce /\ r.op = "none")
  /\ r.listed = "off" => r.streams = "off" /\ r.gathering = "off"

\* On hold the media are those of a hold, and stay so while a request may be refused.
\* A call that runs is heard, unless the far end may offer not to speak.
TidyHold(r) ==
  /\ Rests(r, "Paused") => r.dir \in HoldDir
  /\ Rests(r, "PausedByRemote") => r.dir \in HeldDir
  /\ r.op = "ringing" \/ r.state = "UpdatedByRemote" => Spoken(r.rmd)
  /\ Rests(r, "StreamsRunning") \/ r.state = "UpdatedByRemote" =>
       "recvonly" \in Offers \/ r.dir \in {"sendrecv", "recvonly", "inactive"}

\* Without ICE a state that waits has a request, and a state to go back to.
TidyRequest(r) ==
  /\ r.ct # "none" => r.state \in Transient
  /\ r.state = "UpdatedByRemote" => r.pend # {} /\ r.prev = "StreamsRunning"
  /\ r.state \in Transient => r.prev \in Resting \cup Transient
  /\ ~ UseIce /\ r.state \in Transient => r.ct # "none" /\ r.prev \in Resting

\* What no handler leaves behind, the situations of Quiet apart.
TidyPlain(r) ==
  /\ r.busy = "off" /\ r.ack = "off" /\ r.state # "Connected"
  /\ r.op = "ringing" => r.rmd # "nosdp"
  /\ ~ UseIce => r.state # "OutgoingInit" /\ (r.state = "Idle" => r.op = "none")
  /\ r.state = "EarlyUpdatedByRemote" => r.op \in {"early", "ringing"}

TidyRow(r) == TidyEnd(r) /\ TidyHold(r) /\ TidyRequest(r) /\ TidyPlain(r)

\* The inductive invariant of the media, beyond Consistent.
Tidy(s) == \A c \in Call : TidyRow(Row(s, c))

\* From s to t the row of call c becomes r, and no other row changes.
Makes(s, t, c, r) ==
  t \in CoreType /\ \A d \in Call : Row(t, d) = IF d = c THEN r ELSE Row(s, d)

\* No row changes.
Aside(s, t) == t \in CoreType /\ \A d \in Call : Row(t, d) = Row(s, d)

\* Neither the tone nor the current call changes.
SameTone(s, t) == t.ring = s.ring /\ t.current = s.current

-----------------------------------------------------------------------------
(* Composition                                                             *)

\* One row changes, then perhaps another time.
LEMMA MakesTrans ==
  ASSUME NEW s, NEW t, NEW u, NEW c, NEW r, NEW q
  PROVE  /\ Makes(s, t, c, r) /\ Makes(t, u, c, q) => Makes(s, u, c, q)
         /\ Makes(s, t, c, r) /\ Aside(t, u) => Makes(s, u, c, r)
         /\ Aside(s, t) /\ Makes(t, u, c, q) => Makes(s, u, c, q)
         /\ Aside(s, t) /\ Aside(t, u) => Aside(s, u)
         /\ Aside(s, t) => Makes(s, t, c, Row(s, c))
BY DEF Makes, Aside

\* What it means that the row of one call changes.
LEMMA MakesRow ==
  ASSUME NEW s, NEW t, NEW c \in Call, NEW r, Makes(s, t, c, r)
  PROVE  /\ Row(t, c) = r /\ t \in CoreType
         /\ \A d \in Call \ {c} : Row(t, d) = Row(s, d)
         /\ r = Row(s, c) => Aside(s, t)
BY DEF Makes, Aside

\* A handler of one call is right when the new row of that call is.
LEMMA MakesTidy ==
  ASSUME NEW s, NEW t, NEW c \in Call, NEW r, Tidy(s), Makes(s, t, c, r), TidyRow(r)
  PROVE  Tidy(t)
BY DEF Tidy, Makes

\* What concerns no row keeps every call tidy.
LEMMA AsideTidy ==
  ASSUME NEW s, NEW t, Tidy(s), Aside(s, t)
  PROVE  Tidy(t)
BY DEF Tidy, Aside

-----------------------------------------------------------------------------
(* Single updates                                                          *)

\* linphone_core_stop_ringing(), and the two tones that start, concern no call.
LEMMA RingAside ==
  ASSUME NEW s \in CoreType
  PROVE  /\ Aside(s, s) /\ Aside(s, StopRinging(s)) /\ Aside(s, StartRinging(s))
         /\ ~ StopRinging(s).ring /\ StopRinging(s).current = s.current
         /\ StartRinging(s).current = s.current
<1>1. StopRinging(s) \in CoreType /\ StartRinging(s) \in CoreType
  BY RingKeeps DEF Keeps
<1>2. Aside(s, s) /\ Aside(s, StopRinging(s))
  BY <1>1 DEF Aside, Row, RowOf, StopRinging
<1>3. Aside(s, StartRinging(s))
  BY <1>1 DEF Aside, Row, RowOf, StartRinging
<1>4. ~ StopRinging(s).ring
  BY DEF StopRinging, CoreType
<1>5. StopRinging(s).current = s.current /\ StartRinging(s).current = s.current
  BY DEF StopRinging, StartRinging, CoreType
<1> QED BY <1>2, <1>3, <1>4, <1>5

\* lc->current_call is in no row.
LEMMA CurrentAside ==
  ASSUME NEW s \in CoreType, NEW c \in Call
  PROVE  /\ Aside(s, MakeCurrent(s, c)) /\ MakeCurrent(s, c).ring = s.ring
         /\ MakeCurrent(s, c).current = c
         /\ Aside(s, NoCurrent(s)) /\ NoCurrent(s).ring = s.ring /\ NoCurrent(s).current = NoCall
<1>1. MakeCurrent(s, c) \in CoreType /\ NoCurrent(s) \in CoreType
  BY CurrentKeeps DEF Keeps, Within
<1>2. Aside(s, MakeCurrent(s, c))
  BY <1>1 DEF Aside, Row, RowOf, MakeCurrent
<1>3. Aside(s, NoCurrent(s))
  BY <1>1 DEF Aside, Row, RowOf, NoCurrent
<1>4. MakeCurrent(s, c).ring = s.ring /\ MakeCurrent(s, c).current = c
  BY DEF MakeCurrent, CoreType
<1>5. NoCurrent(s).ring = s.ring /\ NoCurrent(s).current = NoCall
  BY DEF NoCurrent, CoreType
<1> QED BY <1>2, <1>3, <1>4, <1>5

\* Nor are the queued resumes.
LEMMA TaskAside ==
  ASSUME NEW s \in CoreType, NEW c \in Call
  PROVE  /\ Aside(s, QueueResume(s, c)) /\ SameTone(s, QueueResume(s, c))
         /\ Aside(s, DequeueResume(s, c)) /\ SameTone(s, DequeueResume(s, c))
         /\ \A b \in BOOLEAN : Aside(s, AutoPaused(s, c, b)) /\ SameTone(s, AutoPaused(s, c, b))
<1>1. QueueResume(s, c) \in CoreType /\ DequeueResume(s, c) \in CoreType
  BY QueueResumeKeeps DEF Keeps
<1>2. Aside(s, QueueResume(s, c)) /\ Aside(s, DequeueResume(s, c))
  BY <1>1 DEF Aside, Row, RowOf, QueueResume, DequeueResume
<1>3. SameTone(s, QueueResume(s, c)) /\ SameTone(s, DequeueResume(s, c))
  BY DEF SameTone, QueueResume, DequeueResume, CoreType
<1>4. ASSUME NEW b \in BOOLEAN PROVE Aside(s, AutoPaused(s, c, b)) /\ SameTone(s, AutoPaused(s, c, b))
  <2>1. AutoPaused(s, c, b) \in CoreType
    BY AutoPausedKeeps DEF Keeps
  <2>2. Aside(s, AutoPaused(s, c, b))
    BY <2>1 DEF Aside, Row, RowOf, AutoPaused
  <2>3. SameTone(s, AutoPaused(s, c, b))
    BY DEF SameTone, AutoPaused, CoreType
  <2> QED BY <2>2, <2>3
<1> QED BY <1>2, <1>3, <1>4

\* Nor are the log, the reason of an end, the referer and the call replaced.
LEMMA LogAside ==
  ASSUME NEW s \in CoreType, NEW c \in Call
  PROVE  /\ \A reason \in {"declined", "timeout"} :
              Aside(s, EndReason(s, c, reason)) /\ SameTone(s, EndReason(s, c, reason))
         /\ Aside(s, LogStatus(s, c, "missed")) /\ SameTone(s, LogStatus(s, c, "missed"))
         /\ \A ref \in Call \cup {NoCall} :
              /\ Aside(s, Referer(s, c, ref)) /\ SameTone(s, Referer(s, c, ref))
              /\ Aside(s, Replacing(s, c, ref)) /\ SameTone(s, Replacing(s, c, ref))
<1>1. ASSUME NEW reason \in {"declined", "timeout"}
      PROVE  Aside(s, EndReason(s, c, reason)) /\ SameTone(s, EndReason(s, c, reason))
  <2>1. EndReason(s, c, reason) \in CoreType
    BY EndReasonKeeps DEF Keeps
  <2>2. Aside(s, EndReason(s, c, reason))
    BY <2>1 DEF Aside, Row, RowOf, EndReason
  <2>3. SameTone(s, EndReason(s, c, reason))
    BY DEF SameTone, EndReason, CoreType
  <2> QED BY <2>2, <2>3
<1>2. Aside(s, LogStatus(s, c, "missed")) /\ SameTone(s, LogStatus(s, c, "missed"))
  <2>1. LogStatus(s, c, "missed") \in CoreType
    BY LogStatusKeeps DEF Keeps
  <2>2. Aside(s, LogStatus(s, c, "missed"))
    BY <2>1 DEF Aside, Row, RowOf, LogStatus
  <2>3. SameTone(s, LogStatus(s, c, "missed"))
    BY DEF SameTone, LogStatus, CoreType
  <2> QED BY <2>2, <2>3
<1>3. ASSUME NEW ref \in Call \cup {NoCall}
      PROVE  /\ Aside(s, Referer(s, c, ref)) /\ SameTone(s, Referer(s, c, ref))
             /\ Aside(s, Replacing(s, c, ref)) /\ SameTone(s, Replacing(s, c, ref))
  <2>1. Referer(s, c, ref) \in CoreType /\ Replacing(s, c, ref) \in CoreType
    BY RefererKeeps, ReplacingKeeps DEF Keeps
  <2>2. Aside(s, Referer(s, c, ref)) /\ Aside(s, Replacing(s, c, ref))
    BY <2>1 DEF Aside, Row, RowOf, Referer, Replacing
  <2>3. SameTone(s, Referer(s, c, ref)) /\ SameTone(s, Replacing(s, c, ref))
    BY DEF SameTone, Referer, Replacing, CoreType
  <2> QED BY <2>2, <2>3
<1> QED BY <1>1, <1>2, <1>3

\* The media of a call
LEMMA MediaMakes ==
  ASSUME NEW s \in CoreType, NEW c \in Call
  PROVE  /\ Makes(s, StopStreams(s, c), c, [Row(s, c) EXCEPT !.streams = "off"])
         /\ SameTone(s, StopStreams(s, c))
         /\ \A b \in BOOLEAN : /\ Makes(s, Gathering(s, c, b), c, [Row(s, c) EXCEPT !.gathering = On(b)])
                               /\ SameTone(s, Gathering(s, c, b))
<1>1. Makes(s, StopStreams(s, c), c, [Row(s, c) EXCEPT !.streams = "off"])
  <2>1. StopStreams(s, c) \in CoreType
    BY StopStreamsKeeps DEF Keeps
  <2>2. Row(StopStreams(s, c), c) = [Row(s, c) EXCEPT !.streams = "off"]
    BY DEF StopStreams, Row, RowOf, On, CoreType
  <2>3. \A d \in Call \ {c} : Row(StopStreams(s, c), d) = Row(s, d)
    BY DEF StopStreams, Row, RowOf, On, CoreType
  <2> QED BY <2>1, <2>2, <2>3 DEF Makes
<1>2. SameTone(s, StopStreams(s, c))
  BY DEF SameTone, StopStreams, CoreType
<1>3. ASSUME NEW b \in BOOLEAN
      PROVE  /\ Makes(s, Gathering(s, c, b), c, [Row(s, c) EXCEPT !.gathering = On(b)])
             /\ SameTone(s, Gathering(s, c, b))
  <2>1. Gathering(s, c, b) \in CoreType
    BY GatheringKeeps DEF Keeps
  <2>2. Row(Gathering(s, c, b), c) = [Row(s, c) EXCEPT !.gathering = On(b)]
    BY DEF Gathering, Row, RowOf, On, CoreType
  <2>3. \A d \in Call \ {c} : Row(Gathering(s, c, b), d) = Row(s, d)
    BY DEF Gathering, Row, RowOf, On, CoreType
  <2>4. SameTone(s, Gathering(s, c, b))
    BY DEF SameTone, Gathering, CoreType
  <2> QED BY <2>1, <2>2, <2>3, <2>4 DEF Makes
<1> QED BY <1>1, <1>2, <1>3

\* linphone_core_update_streams() follows a description, and may end the ringing.
LEMMA UpdateStreamsMakes ==
  ASSUME NEW s \in CoreType, NEW c \in Call, NEW dir \in Dir
  PROVE  LET t == UpdateStreams(s, c, dir)
         IN  /\ Makes(s, t, c, [Row(s, c) EXCEPT !.dir = dir, !.ack = "off", !.streams = "on"])
             /\ t.current = s.current
             /\ t.ring => s.ring /\ s.state[c] = "IncomingEarlyMedia"
<1> DEFINE t == UpdateStreams(s, c, dir)
<1>1. t \in CoreType
  BY UpdateStreamsKeeps DEF Keeps
<1>2. Row(t, c) = [Row(s, c) EXCEPT !.dir = dir, !.ack = "off", !.streams = "on"]
  <2>1. /\ t.state = s.state /\ t.prev = s.prev /\ t.op = s.op /\ t.ct = s.ct
        /\ t.pend = s.pend /\ t.rmd = s.rmd /\ t.gathering = s.gathering /\ t.calls = s.calls
        /\ t.busy = s.busy
    BY DEF UpdateStreams, CoreType
  <2>2. t.dir[c] = dir /\ On(t.ackMedia[c]) = "off" /\ On(t.streams[c]) = "on"
    BY DEF UpdateStreams, CoreType, On
  <2> HIDE DEF t
  <2> DEFINE x == [Row(s, c) EXCEPT !.dir = t.dir[c]]
             y == [x EXCEPT !.ack = On(t.ackMedia[c])]
             z == [y EXCEPT !.streams = On(t.streams[c])]
  <2>3. [Row(s, c) EXCEPT !.dir = dir, !.ack = "off", !.streams = "on"] = z
    BY <2>2
  <2>4. x = RowOf(s.state[c], s.prev[c], s.op[c], s.ct[c], s.pend[c], t.dir[c], s.rmd[c],
               On(s.streams[c]), On(s.gathering[c]), On(c \in s.calls), On(s.busy[c]), On(s.ackMedia[c]))
    BY DEF Row, RowOf
  <2> HIDE DEF x
  <2>5. y = RowOf(s.state[c], s.prev[c], s.op[c], s.ct[c], s.pend[c], t.dir[c], s.rmd[c],
               On(s.streams[c]), On(s.gathering[c]), On(c \in s.calls), On(s.busy[c]), On(t.ackMedia[c]))
    BY <2>4 DEF Row, RowOf
  <2> HIDE DEF y
  <2>6. Row(t, c) = z
    BY <2>1, <2>5 DEF Row, RowOf
  <2> QED BY <2>3, <2>6 DEF t
<1>3. \A d \in Call \ {c} : Row(t, d) = Row(s, d)
  BY DEF UpdateStreams, Row, RowOf, On, CoreType
<1>4. t.current = s.current /\ (t.ring => s.ring /\ s.state[c] = "IncomingEarlyMedia")
  BY DEF UpdateStreams, CoreType
<1> QED BY <1>1, <1>2, <1>3, <1>4 DEF Makes

\* The operation of a call
LEMMA OperationMakes ==
  ASSUME NEW s \in CoreType, NEW c \in Call, NEW op \in OpPhase
  PROVE  /\ Makes(s, Operation(s, c, op), c, [Row(s, c) EXCEPT !.op = op])
         /\ SameTone(s, Operation(s, c, op))
<1>1. Operation(s, c, op) \in CoreType
  BY OperationKeeps DEF Keeps
<1>2. Row(Operation(s, c, op), c) = [Row(s, c) EXCEPT !.op = op]
  BY DEF Operation, Row, RowOf, On, CoreType
<1>3. \A d \in Call \ {c} : Row(Operation(s, c, op), d) = Row(s, d)
  BY DEF Operation, Row, RowOf, On, CoreType
<1>4. SameTone(s, Operation(s, c, op))
  BY DEF SameTone, Operation, CoreType
<1> QED BY <1>1, <1>2, <1>3, <1>4 DEF Makes

\* A request is answered, ours or those of the far end.
LEMMA DoneMakes ==
  ASSUME NEW s \in CoreType, NEW c \in Call
  PROVE  /\ Makes(s, RequestDone(s, c), c, [Row(s, c) EXCEPT !.ct = "none"])
         /\ SameTone(s, RequestDone(s, c))
         /\ Makes(s, NothingPending(s, c), c, [Row(s, c) EXCEPT !.pend = {}])
         /\ SameTone(s, NothingPending(s, c))
<1>1. RequestDone(s, c) \in CoreType /\ NothingPending(s, c) \in CoreType
  BY RequestDoneKeeps, NothingPendingKeeps DEF Keeps
<1>2. Makes(s, RequestDone(s, c), c, [Row(s, c) EXCEPT !.ct = "none"])
  <2>1. Row(RequestDone(s, c), c) = [Row(s, c) EXCEPT !.ct = "none"]
    BY DEF RequestDone, Row, RowOf, On, CoreType
  <2>2. \A d \in Call \ {c} : Row(RequestDone(s, c), d) = Row(s, d)
    BY DEF RequestDone, Row, RowOf, On, CoreType
  <2> QED BY <1>1, <2>1, <2>2 DEF Makes
<1>3. Makes(s, NothingPending(s, c), c, [Row(s, c) EXCEPT !.pend = {}])
  <2> DEFINE t == NothingPending(s, c)
  <2>1. Row(t, c) = [Row(s, c) EXCEPT !.pend = {}]
    <3>1. /\ t.state = s.state /\ t.prev = s.prev /\ t.op = s.op /\ t.ct = s.ct
          /\ t.dir = s.dir /\ t.rmd = s.rmd /\ t.streams = s.streams
          /\ t.gathering = s.gathering /\ t.calls = s.calls /\ t.busy = s.busy
          /\ t.ackMedia = s.ackMedia
      BY DEF NothingPending, CoreType
    <3>2. t.pend[c] = {}
      BY DEF NothingPending, CoreType, On
    <3> HIDE DEF t
    <3>3. Row(t, c) = [Row(s, c) EXCEPT !.pend = t.pend[c]]
      BY <3>1 DEF Row, RowOf
    <3> QED BY <3>2, <3>3 DEF t
  <2>2. \A d \in Call \ {c} : Row(NothingPending(s, c), d) = Row(s, d)
    BY DEF NothingPending, Row, RowOf, On, CoreType
  <2> QED BY <1>1, <2>1, <2>2 DEF Makes
<1>4. SameTone(s, RequestDone(s, c)) /\ SameTone(s, NothingPending(s, c))
  BY DEF SameTone, RequestDone, NothingPending, CoreType
<1> QED BY <1>2, <1>3, <1>4

\* The far end makes an offer.
LEMMA OfferMadeMakes ==
  ASSUME NEW s \in CoreType, NEW c \in Call, NEW request \in PeerRequest, NEW offer \in Offer
  PROVE  LET t == OfferMade(s, c, request, offer)
         IN  /\ Makes(s, t, c, [Row(s, c) EXCEPT !.pend = s.pend[c] \cup {request}, !.rmd = offer])
             /\ SameTone(s, t)
<1> DEFINE t == OfferMade(s, c, request, offer)
<1>1. t \in CoreType
  BY OfferMadeKeeps DEF Keeps
<1>2. Row(t, c) = [Row(s, c) EXCEPT !.pend = s.pend[c] \cup {request}, !.rmd = offer]
  <2>1. /\ t.state = s.state /\ t.prev = s.prev /\ t.op = s.op /\ t.ct = s.ct
        /\ t.dir = s.dir /\ t.streams = s.streams /\ t.gathering = s.gathering
        /\ t.calls = s.calls /\ t.busy = s.busy /\ t.ackMedia = s.ackMedia
    BY DEF OfferMade, CoreType
  <2>2. t.pend[c] = s.pend[c] \cup {request} /\ t.rmd[c] = offer
    BY DEF OfferMade, CoreType, On
  <2> HIDE DEF t
  <2> DEFINE x == [Row(s, c) EXCEPT !.pend = t.pend[c]]
             y == [x EXCEPT !.rmd = t.rmd[c]]
  <2>3. [Row(s, c) EXCEPT !.pend = s.pend[c] \cup {request}, !.rmd = offer] = y
    BY <2>2
  <2>4. x = RowOf(s.state[c], s.prev[c], s.op[c], s.ct[c], t.pend[c], s.dir[c], s.rmd[c],
               On(s.streams[c]), On(s.gathering[c]), On(c \in s.calls), On(s.busy[c]), On(s.ackMedia[c]))
    BY DEF Row, RowOf
  <2> HIDE DEF x
  <2>5. Row(t, c) = y
    BY <2>1, <2>4 DEF Row, RowOf
  <2> QED BY <2>3, <2>5 DEF t
<1>3. \A d \in Call \ {c} : Row(t, d) = Row(s, d)
  BY DEF OfferMade, Row, RowOf, On, CoreType
<1>4. SameTone(s, t)
  BY DEF SameTone, OfferMade, CoreType
<1> QED BY <1>1, <1>2, <1>3, <1>4 DEF Makes

\* linphone_core_add_call()
LEMMA AddCallMakes ==
  ASSUME NEW s \in CoreType, NEW c \in Call, NEW op \in OpPhase
  PROVE  LET t == AddCall(s, c, op)
         IN  /\ Makes(s, t, c, [Row(s, c) EXCEPT !.listed = "on", !.op = op, !.gathering = On(UseIce)])
             /\ SameTone(s, t)
<1> DEFINE t == AddCall(s, c, op)
<1>1. t \in CoreType
  BY SwitchAssumption DEF AddCall, CoreType
<1>2. Row(t, c) = [Row(s, c) EXCEPT !.listed = "on", !.op = op, !.gathering = On(UseIce)]
  <2>1. /\ t.state = s.state /\ t.prev = s.prev /\ t.ct = s.ct /\ t.pend = s.pend
        /\ t.dir = s.dir /\ t.rmd = s.rmd /\ t.streams = s.streams /\ t.busy = s.busy
        /\ t.ackMedia = s.ackMedia
    BY DEF AddCall, CoreType
  <2>2. On(c \in t.calls) = "on" /\ t.op[c] = op /\ On(t.gathering[c]) = On(UseIce)
    BY DEF AddCall, CoreType, On
  <2> HIDE DEF t
  <2> DEFINE x == [Row(s, c) EXCEPT !.listed = On(c \in t.calls)]
             y == [x EXCEPT !.op = t.op[c]]
             z == [y EXCEPT !.gathering = On(t.gathering[c])]
  <2>3. [Row(s, c) EXCEPT !.listed = "on", !.op = op, !.gathering = On(UseIce)] = z
    BY <2>2
  <2>4. x = RowOf(s.state[c], s.prev[c], s.op[c], s.ct[c], s.pend[c], s.dir[c], s.rmd[c],
               On(s.streams[c]), On(s.gathering[c]), On(c \in t.calls), On(s.busy[c]), On(s.ackMedia[c]))
    BY DEF Row, RowOf
  <2> HIDE DEF x
  <2>5. y = RowOf(s.state[c], s.prev[c], t.op[c], s.ct[c], s.pend[c], s.dir[c], s.rmd[c],
               On(s.streams[c]), On(s.gathering[c]), On(c \in t.calls), On(s.busy[c]), On(s.ackMedia[c]))
    BY <2>4 DEF Row, RowOf
  <2> HIDE DEF y
  <2>6. Row(t, c) = z
    BY <2>1, <2>5 DEF Row, RowOf
  <2> QED BY <2>3, <2>6 DEF t
<1>3. \A d \in Call \ {c} : Row(t, d) = Row(s, d)
  BY DEF AddCall, Row, RowOf, On, CoreType
<1>4. SameTone(s, t)
  BY DEF SameTone, AddCall, CoreType
<1> QED BY <1>1, <1>2, <1>3, <1>4 DEF Makes

-----------------------------------------------------------------------------
(* The calls of the SAL                                                    *)

\* The row after sal_call_update(), when the dialog can carry the request.
LEMMA SalUpdateMakes ==
  ASSUME NEW s \in CoreType, NEW c \in Call, NEW request \in Request, s.op[c] = "active"
  PROVE  LET t == SalUpdate(s, c, request)
         IN  /\ CanUpdate(s, c) => Makes(s, t, c, [Row(s, c) EXCEPT !.ct = request])
             /\ ~ CanUpdate(s, c) => t = s
             /\ SameTone(s, t)
<1> DEFINE t == SalUpdate(s, c, request)
<1>1. t \in CoreType
  BY SalUpdateKeeps DEF Keeps
<1>2. ASSUME CanUpdate(s, c)
      PROVE  Row(t, c) = [Row(s, c) EXCEPT !.ct = request] /\ \A d \in Call \ {c} : Row(t, d) = Row(s, d)
  <2>1. t = [s EXCEPT !.ct[c] = request]
    BY <1>2 DEF SalUpdate
  <2>2. Row(t, c) = [Row(s, c) EXCEPT !.ct = request]
    BY <2>1 DEF Row, RowOf, On, CoreType
  <2>3. \A d \in Call \ {c} : Row(t, d) = Row(s, d)
    BY <2>1 DEF Row, RowOf, On, CoreType
  <2> QED BY <2>2, <2>3
<1>3. ~ CanUpdate(s, c) => t = s
  BY DEF SalUpdate
<1>4. SameTone(s, t)
  BY DEF SameTone, SalUpdate, CoreType
<1> QED BY <1>1, <1>2, <1>3, <1>4 DEF Makes

\* sal_call_terminate() closes the operation, with all that is pending on it.
LEMMA SalTerminateMakes ==
  ASSUME NEW s \in CoreType, NEW c \in Call
  PROVE  LET t == SalTerminate(s, c)
         IN  /\ Makes(s, t, c, [Row(s, c) EXCEPT !.op = ClosingPhase(s.op[c]), !.ct = "none", !.pend = {}])
             /\ SameTone(s, t)
<1> DEFINE t == SalTerminate(s, c)
<1>1. t \in CoreType
  BY SalTerminateKeeps DEF Keeps
<1>2. Row(t, c) = [Row(s, c) EXCEPT !.op = ClosingPhase(s.op[c]), !.ct = "none", !.pend = {}]
  <2>1. /\ t.state = s.state /\ t.prev = s.prev /\ t.dir = s.dir /\ t.rmd = s.rmd
        /\ t.streams = s.streams /\ t.gathering = s.gathering /\ t.calls = s.calls
        /\ t.busy = s.busy /\ t.ackMedia = s.ackMedia
    BY DEF SalTerminate, CoreType
  <2>2. t.op[c] = ClosingPhase(s.op[c]) /\ t.ct[c] = "none" /\ t.pend[c] = {}
    BY DEF SalTerminate, CoreType, On
  <2> HIDE DEF t
  <2> DEFINE x == [Row(s, c) EXCEPT !.op = t.op[c]]
             y == [x EXCEPT !.ct = t.ct[c]]
             z == [y EXCEPT !.pend = t.pend[c]]
  <2>3. [Row(s, c) EXCEPT !.op = ClosingPhase(s.op[c]), !.ct = "none", !.pend = {}] = z
    BY <2>2
  <2>4. x = RowOf(s.state[c], s.prev[c], t.op[c], s.ct[c], s.pend[c], s.dir[c], s.rmd[c],
               On(s.streams[c]), On(s.gathering[c]), On(c \in s.calls), On(s.busy[c]), On(s.ackMedia[c]))
    BY DEF Row, RowOf
  <2> HIDE DEF x
  <2>5. y = RowOf(s.state[c], s.prev[c], t.op[c], t.ct[c], s.pend[c], s.dir[c], s.rmd[c],
               On(s.streams[c]), On(s.gathering[c]), On(c \in s.calls), On(s.busy[c]), On(s.ackMedia[c]))
    BY <2>4 DEF Row, RowOf
  <2> HIDE DEF y
  <2>6. Row(t, c) = z
    BY <2>1, <2>5 DEF Row, RowOf
  <2> QED BY <2>3, <2>6 DEF t
<1>3. \A d \in Call \ {c} : Row(t, d) = Row(s, d)
  BY DEF SalTerminate, Row, RowOf, On, CoreType
<1>4. SameTone(s, t)
  BY DEF SameTone, SalTerminate, CoreType
<1> QED BY <1>1, <1>2, <1>3, <1>4 DEF Makes

\* sal_op_release()
LEMMA SalReleaseMakes ==
  ASSUME NEW s \in CoreType, NEW c \in Call
  PROVE  LET t == SalRelease(s, c)
         IN  /\ Makes(s, t, c, [Row(s, c) EXCEPT !.op = "none", !.busy = "off"])
             /\ SameTone(s, t)
<1> DEFINE t == SalRelease(s, c)
<1>1. t \in CoreType
  BY SalReleaseKeeps DEF Keeps
<1>2. Row(t, c) = [Row(s, c) EXCEPT !.op = "none", !.busy = "off"]
  <2>1. /\ t.state = s.state /\ t.prev = s.prev /\ t.ct = s.ct /\ t.pend = s.pend
        /\ t.dir = s.dir /\ t.rmd = s.rmd /\ t.streams = s.streams
        /\ t.gathering = s.gathering /\ t.calls = s.calls /\ t.ackMedia = s.ackMedia
    BY DEF SalRelease, CoreType
  <2>2. t.op[c] = "none" /\ On(t.busy[c]) = "off"
    BY DEF SalRelease, CoreType, On
  <2> HIDE DEF t
  <2> DEFINE x == [Row(s, c) EXCEPT !.op = t.op[c]]
             y == [x EXCEPT !.busy = On(t.busy[c])]
  <2>3. [Row(s, c) EXCEPT !.op = "none", !.busy = "off"] = y
    BY <2>2
  <2>4. x = RowOf(s.state[c], s.prev[c], t.op[c], s.ct[c], s.pend[c], s.dir[c], s.rmd[c],
               On(s.streams[c]), On(s.gathering[c]), On(c \in s.calls), On(s.busy[c]), On(s.ackMedia[c]))
    BY DEF Row, RowOf
  <2> HIDE DEF x
  <2>5. Row(t, c) = y
    BY <2>1, <2>4 DEF Row, RowOf
  <2> QED BY <2>3, <2>5 DEF t
<1>3. \A d \in Call \ {c} : Row(t, d) = Row(s, d)
  BY DEF SalRelease, Row, RowOf, On, CoreType
<1>4. SameTone(s, t)
  BY DEF SameTone, SalRelease, CoreType
<1> QED BY <1>1, <1>2, <1>3, <1>4 DEF Makes

\* sal_call_accept() of an update, or of the INVITE: only the offers that wait are
\* affected, unless the call rings.
LEMMA SalAcceptMakes ==
  ASSUME NEW s \in CoreType, NEW c \in Call
  PROVE  LET t == SalAccept(s, c)
         IN  /\ "update" \in s.pend[c] \/ s.op[c] # "ringing" =>
                  \E p \in SUBSET PeerRequest : Makes(s, t, c, [Row(s, c) EXCEPT !.pend = p])
             /\ s.op[c] = "ringing" /\ s.pend[c] = {"invite"} =>
                  Makes(s, t, c, [Row(s, c) EXCEPT !.pend = {}, !.op = "active"])
             /\ SameTone(s, t)
<1> DEFINE t == SalAccept(s, c)
<1>1. t \in CoreType
  BY SalAcceptKeeps DEF Keeps
<1>2. ASSUME "update" \in s.pend[c] \/ s.op[c] # "ringing"
      PROVE  \E p \in SUBSET PeerRequest : Makes(s, t, c, [Row(s, c) EXCEPT !.pend = p])
  <2>1. \/ t = [s EXCEPT !.pend[c] = s.pend[c] \ {"update"}]
        \/ t = [s EXCEPT !.pend[c] = {}, !.op[c] = s.op[c]]
        \/ t = s
    BY <1>2 DEF SalAccept
  <2> HIDE DEF t
  <2>2. ASSUME NEW u, u \in {s, [s EXCEPT !.pend[c] = s.pend[c] \ {"update"}]}
        PROVE  /\ u.state = s.state /\ u.prev = s.prev /\ u.op = s.op /\ u.ct = s.ct /\ u.dir = s.dir
               /\ u.rmd = s.rmd /\ u.streams = s.streams /\ u.gathering = s.gathering
               /\ u.calls = s.calls /\ u.busy = s.busy /\ u.ackMedia = s.ackMedia
               /\ \A d \in Call \ {c} : u.pend[d] = s.pend[d]
    BY <2>2 DEF CoreType
  <2>3. ASSUME NEW u, u = [s EXCEPT !.pend[c] = {}, !.op[c] = s.op[c]]
        PROVE  /\ u.state = s.state /\ u.prev = s.prev /\ u.op = s.op /\ u.ct = s.ct /\ u.dir = s.dir
               /\ u.rmd = s.rmd /\ u.streams = s.streams /\ u.gathering = s.gathering
               /\ u.calls = s.calls /\ u.busy = s.busy /\ u.ackMedia = s.ackMedia
               /\ \A d \in Call \ {c} : u.pend[d] = s.pend[d]
    BY <2>3 DEF CoreType
  <2>4. /\ t.state = s.state /\ t.prev = s.prev /\ t.op = s.op /\ t.ct = s.ct /\ t.dir = s.dir
        /\ t.rmd = s.rmd /\ t.streams = s.streams /\ t.gathering = s.gathering
        /\ t.calls = s.calls /\ t.busy = s.busy /\ t.ackMedia = s.ackMedia
        /\ \A d \in Call \ {c} : t.pend[d] = s.pend[d]
    BY <2>1, <2>2, <2>3
  <2>5. Row(t, c) = [Row(s, c) EXCEPT !.pend = t.pend[c]]
    BY <2>4 DEF Row, RowOf
  <2>6. \A d \in Call \ {c} : Row(t, d) = Row(s, d)
    BY <2>4 DEF Row, RowOf
  <2>7. t.pend[c] \in SUBSET PeerRequest
    BY <1>1 DEF CoreType
  <2> QED BY <1>1, <2>5, <2>6, <2>7 DEF Makes
<1>3. ASSUME s.op[c] = "ringing", s.pend[c] = {"invite"}
      PROVE  Makes(s, t, c, [Row(s, c) EXCEPT !.pend = {}, !.op = "active"])
  <2>1. t = [s EXCEPT !.pend[c] = {}, !.op[c] = "active"]
    BY <1>3 DEF SalAccept
  <2>2. Row(t, c) = [Row(s, c) EXCEPT !.pend = {}, !.op = "active"]
    <3>1. /\ t.state = s.state /\ t.prev = s.prev /\ t.ct = s.ct /\ t.dir = s.dir
          /\ t.rmd = s.rmd /\ t.streams = s.streams /\ t.gathering = s.gathering
          /\ t.calls = s.calls /\ t.busy = s.busy /\ t.ackMedia = s.ackMedia
      BY <2>1 DEF CoreType
    <3>2. t.pend[c] = {} /\ t.op[c] = "active"
      BY <2>1 DEF CoreType, On
    <3> HIDE DEF t
    <3> DEFINE x == [Row(s, c) EXCEPT !.pend = t.pend[c]]
               y == [x EXCEPT !.op = t.op[c]]
    <3>3. [Row(s, c) EXCEPT !.pend = {}, !.op = "active"] = y
      BY <3>2
    <3>4. x = RowOf(s.state[c], s.prev[c], s.op[c], s.ct[c], t.pend[c], s.dir[c], s.rmd[c],
                 On(s.streams[c]), On(s.gathering[c]), On(c \in s.calls), On(s.busy[c]), On(s.ackMedia[c]))
      BY DEF Row, RowOf
    <3> HIDE DEF x
    <3>5. Row(t, c) = y
      BY <3>1, <3>4 DEF Row, RowOf
    <3> QED BY <3>3, <3>5 DEF t
  <2>3. \A d \in Call \ {c} : Row(t, d) = Row(s, d)
    BY <2>1 DEF Row, RowOf, On, CoreType
  <2> QED BY <1>1, <2>2, <2>3 DEF Makes
<1>4. SameTone(s, t)
  BY DEF SameTone, SalAccept, CoreType
<1> QED BY <1>2, <1>3, <1>4

\* sal_call_decline() of an offer prefers the INVITE.
LEMMA SalDeclineMakes ==
  ASSUME NEW s \in CoreType, NEW c \in Call, s.op[c] # "ringing"
  PROVE  LET t == SalDecline(s, c)
             p == IF "invite" \in s.pend[c] THEN s.pend[c] \ {"invite"} ELSE {}
         IN  Makes(s, t, c, [Row(s, c) EXCEPT !.pend = p]) /\ SameTone(s, t)
<1> DEFINE t == SalDecline(s, c)
           p == IF "invite" \in s.pend[c] THEN s.pend[c] \ {"invite"} ELSE {}
<1>1. t \in CoreType
  BY SalDeclineKeeps DEF Keeps
<1>2. t = [s EXCEPT !.pend[c] = p]
  BY DEF SalDecline, NothingPending
<1>3. Row(t, c) = [Row(s, c) EXCEPT !.pend = p]
  <2>1. /\ t.state = s.state /\ t.prev = s.prev /\ t.op = s.op /\ t.ct = s.ct
        /\ t.dir = s.dir /\ t.rmd = s.rmd /\ t.streams = s.streams
        /\ t.gathering = s.gathering /\ t.calls = s.calls /\ t.busy = s.busy
        /\ t.ackMedia = s.ackMedia
    BY <1>2 DEF CoreType
  <2>2. t.pend[c] = p
    BY ZenonT(60), <1>2 DEF CoreType, On
  <2> HIDE DEF t
  <2>3. Row(t, c) = [Row(s, c) EXCEPT !.pend = t.pend[c]]
    BY <2>1 DEF Row, RowOf
  <2> QED BY <2>2, <2>3 DEF t
<1>4. \A d \in Call \ {c} : Row(t, d) = Row(s, d)
  BY <1>2 DEF Row, RowOf, On, CoreType
<1>5. SameTone(s, t)
  BY <1>2 DEF SameTone, CoreType
<1> QED BY <1>1, <1>3, <1>4, <1>5 DEF Makes

-----------------------------------------------------------------------------
(* linphone_call_set_state()                                               *)

\* The two assignments of linphone_call_set_state().
LEMMA StateIsMakes ==
  ASSUME NEW s \in CoreType, NEW c \in Call, NEW new \in CallState
  PROVE  /\ Makes(s, Remembered(s, c), c, [Row(s, c) EXCEPT !.prev = s.state[c]])
         /\ SameTone(s, Remembered(s, c)) /\ Remembered(s, c).state = s.state
         /\ Makes(s, StateIs(s, c, new), c, [Row(s, c) EXCEPT !.state = new])
         /\ SameTone(s, StateIs(s, c, new))
<1>1. Remembered(s, c) \in CoreType /\ StateIs(s, c, new) \in CoreType
  BY RememberedKeeps, StateIsKeeps DEF Keeps
<1>2. Row(Remembered(s, c), c) = [Row(s, c) EXCEPT !.prev = s.state[c]]
  BY DEF Remembered, Row, RowOf, On, CoreType
<1>3. \A d \in Call \ {c} : Row(Remembered(s, c), d) = Row(s, d)
  BY DEF Remembered, Row, RowOf, On, CoreType
<1>4. Row(StateIs(s, c, new), c) = [Row(s, c) EXCEPT !.state = new]
  BY DEF StateIs, Row, RowOf, On, CoreType
<1>5. \A d \in Call \ {c} : Row(StateIs(s, c, new), d) = Row(s, d)
  BY DEF StateIs, Row, RowOf, On, CoreType
<1>6. SameTone(s, Remembered(s, c)) /\ SameTone(s, StateIs(s, c, new)) /\ Remembered(s, c).state = s.state
  BY DEF SameTone, Remembered, StateIs, CoreType
<1> QED BY <1>1, <1>2, <1>3, <1>4, <1>5, <1>6 DEF Makes

\* What an end, or an answer, writes in the log.
LEMMA LoggedAside ==
  ASSUME NEW s \in CoreType, NEW c \in Call
  PROVE  /\ Aside(s, Logged(s, c)) /\ SameTone(s, Logged(s, c))
         /\ Aside(s, LogStatus(s, c, "success")) /\ SameTone(s, LogStatus(s, c, "success"))
<1>1. Logged(s, c) \in CoreType /\ LogStatus(s, c, "success") \in CoreType
  BY LoggedKeeps, LogStatusKeeps DEF Keeps
<1>2. Aside(s, Logged(s, c)) /\ Aside(s, LogStatus(s, c, "success"))
  BY <1>1 DEF Aside, Row, RowOf, Logged, LogStatus
<1>3. SameTone(s, Logged(s, c)) /\ SameTone(s, LogStatus(s, c, "success"))
  BY DEF SameTone, Logged, LogStatus, CoreType
<1> QED BY <1>2, <1>3

\* linphone_call_set_terminated()
LEMMA TerminatedMakes ==
  ASSUME NEW s \in CoreType, NEW c \in Call
  PROVE  LET t == Terminated(s, c)
         IN  /\ Makes(s, t, c, [Row(s, c) EXCEPT !.streams = "off", !.gathering = "off", !.listed = "off"])
             /\ t.ring = s.ring /\ t.current = IF s.current = c THEN NoCall ELSE s.current
<1> DEFINE t == Terminated(s, c)
<1>1. t \in CoreType
  BY TerminatedKeeps DEF Keeps
<1>2. Row(t, c) = [Row(s, c) EXCEPT !.streams = "off", !.gathering = "off", !.listed = "off"]
  <2>1. /\ t.state = s.state /\ t.prev = s.prev /\ t.op = s.op /\ t.ct = s.ct
        /\ t.pend = s.pend /\ t.dir = s.dir /\ t.rmd = s.rmd /\ t.busy = s.busy
        /\ t.ackMedia = s.ackMedia
    BY DEF Terminated, CoreType
  <2>2. On(t.streams[c]) = "off" /\ On(t.gathering[c]) = "off" /\ On(c \in t.calls) = "off"
    BY DEF Terminated, CoreType, On
  <2> HIDE DEF t
  <2> DEFINE x == [Row(s, c) EXCEPT !.streams = On(t.streams[c])]
             y == [x EXCEPT !.gathering = On(t.gathering[c])]
             z == [y EXCEPT !.listed = On(c \in t.calls)]
  <2>3. [Row(s, c) EXCEPT !.streams = "off", !.gathering = "off", !.listed = "off"] = z
    BY <2>2
  <2>4. x = RowOf(s.state[c], s.prev[c], s.op[c], s.ct[c], s.pend[c], s.dir[c], s.rmd[c],
               On(t.streams[c]), On(s.gathering[c]), On(c \in s.calls), On(s.busy[c]), On(s.ackMedia[c]))
    BY DEF Row, RowOf
  <2> HIDE DEF x
  <2>5. y = RowOf(s.state[c], s.prev[c], s.op[c], s.ct[c], s.pend[c], s.dir[c], s.rmd[c],
               On(t.streams[c]), On(t.gathering[c]), On(c \in s.calls), On(s.busy[c]), On(s.ackMedia[c]))
    BY <2>4 DEF Row, RowOf
  <2> HIDE DEF y
  <2>6. Row(t, c) = z
    BY <2>1, <2>5 DEF Row, RowOf
  <2> QED BY <2>3, <2>6 DEF t
<1>3. \A d \in Call \ {c} : Row(t, d) = Row(s, d)
  BY DEF Terminated, Row, RowOf, On, CoreType
<1>4. t.ring = s.ring /\ t.current = IF s.current = c THEN NoCall ELSE s.current
  BY DEF Terminated, CoreType
<1> QED BY <1>1, <1>2, <1>3, <1>4 DEF Makes

\* A call that is not over enters a state, and one that is over forgets what it was.
LEMMA SetStateMakes ==
  ASSUME NEW s \in CoreType, NEW c \in Call, NEW new \in CallState \ {"Released"}, s.state[c] # new
  PROVE  LET t == SetState(s, c, new)
         IN  /\ s.state[c] \in Ended =>
                  Makes(s, t, c, [Row(s, c) EXCEPT !.prev = s.state[c]]) /\ SameTone(s, t)
             /\ s.state[c] \notin Ended /\ new \in Ended =>
                  /\ Makes(s, t, c, [Row(s, c) EXCEPT !.prev = s.state[c], !.state = new, !.streams = "off",
                                                      !.gathering = "off", !.listed = "off"])
                  /\ t.ring = s.ring /\ t.current = IF s.current = c THEN NoCall ELSE s.current
             /\ s.state[c] \notin Ended /\ new \notin Ended =>
                  /\ Makes(s, t, c, [Row(s, c) EXCEPT !.prev = s.state[c], !.state = new])
                  /\ SameTone(s, t)
<1> DEFINE t == SetState(s, c, new)
           m == Remembered(s, c)
           q == StateIs(m, c, new)
<1>1. new \in CallState /\ new # "Refered" /\ new # "Released"
  BY DEF CallState
<1>2. /\ Makes(s, m, c, [Row(s, c) EXCEPT !.prev = s.state[c]]) /\ SameTone(s, m) /\ m \in CoreType
  BY <1>1, StateIsMakes, MakesRow
<1>3. CASE s.state[c] \in Ended
  <2>1. t = m
    BY <1>1, <1>3 DEF SetState
  <2> QED BY <1>2, <1>3, <2>1
<1>4. CASE s.state[c] \notin Ended
  <2>1. Makes(m, q, c, [Row(m, c) EXCEPT !.state = new]) /\ SameTone(m, q) /\ q \in CoreType
    BY <1>1, <1>2, StateIsMakes, MakesRow
  <2>2. Row(m, c) = [Row(s, c) EXCEPT !.prev = s.state[c]]
    BY <1>2, MakesRow
  <2>3. t = CASE new \in Ended -> Terminated(Logged(q, c), c)
              [] new = "Connected" -> LogStatus(q, c, "success")
              [] OTHER -> q
    BY <1>1, <1>4 DEF SetState, Entered
  <2> HIDE DEF t, m, q
  <2>4. Row(q, c) = [Row(s, c) EXCEPT !.prev = s.state[c], !.state = new]
    BY <2>1, <2>2, MakesRow
  <2>5. Makes(s, q, c, [Row(s, c) EXCEPT !.prev = s.state[c], !.state = new]) /\ SameTone(s, q)
    BY <1>2, <2>1, <2>2, MakesTrans DEF SameTone
  <2>6. CASE new \in Ended
    <3> DEFINE l == Logged(q, c)
    <3>1. Aside(q, l) /\ SameTone(q, l) /\ l \in CoreType
      BY <2>1, LoggedAside DEF Aside
    <3>2. t = Terminated(l, c)
      BY <2>3, <2>6 DEF Ended
    <3> HIDE DEF l
    <3>3. /\ Makes(l, t, c, [Row(l, c) EXCEPT !.streams = "off", !.gathering = "off", !.listed = "off"])
          /\ t.ring = l.ring /\ t.current = IF l.current = c THEN NoCall ELSE l.current
      BY <3>1, <3>2, TerminatedMakes
    <3>4. Row(l, c) = Row(q, c)
      BY <3>1 DEF Aside
    <3>5. Makes(q, t, c, [Row(q, c) EXCEPT !.streams = "off", !.gathering = "off", !.listed = "off"])
      BY <3>1, <3>3, <3>4, MakesTrans
    <3>6. Makes(s, t, c, [Row(q, c) EXCEPT !.streams = "off", !.gathering = "off", !.listed = "off"])
      BY <2>5, <3>5, MakesTrans
    <3>7. Makes(s, t, c, [Row(s, c) EXCEPT !.prev = s.state[c], !.state = new, !.streams = "off",
                                          !.gathering = "off", !.listed = "off"])
      BY <2>4, <3>6
    <3> QED BY <1>4, <2>5, <2>6, <3>1, <3>3, <3>7 DEF SameTone, t
  <2>7. CASE new = "Connected"
    <3>1. t = LogStatus(q, c, "success") /\ new \notin Ended
      BY <2>3, <2>7 DEF Ended
    <3>2. Aside(q, t) /\ SameTone(q, t)
      BY <2>1, <3>1, LoggedAside
    <3>3. Makes(s, t, c, [Row(s, c) EXCEPT !.prev = s.state[c], !.state = new])
      BY <2>5, <3>2, MakesTrans
    <3> QED BY <1>4, <2>5, <3>1, <3>2, <3>3 DEF SameTone, t
  <2>8. CASE new \notin Ended /\ new # "Connected"
    <3>1. t = q
      BY <2>3, <2>8
    <3> QED BY <1>4, <2>5, <2>8, <3>1 DEF t
  <2> QED BY <2>6, <2>7, <2>8
<1> QED BY <1>3, <1>4

\* Nothing but call c changes.
One(s, t, c) == t \in CoreType /\ \A d \in Call \ {c} : Row(t, d) = Row(s, d)

\* A call is being placed; a call is announced, and nothing else goes on.
Placing(s) == \E d \in s.calls : s.op[d] \in {"init", "inviting", "early"}
Called(s) ==
  s.current \in s.calls /\ s.state[s.current] # "Idle" /\ \A d \in s.calls : s.op[d] = "ringing"

\* What the tone that plays is for.
Reason(s) == s.ring => Placing(s) \/ Called(s)

\* A call whose row changes is the only one.
LEMMA MakesOne ==
  ASSUME NEW s, NEW t, NEW c \in Call, NEW r, Makes(s, t, c, r)
  PROVE  One(s, t, c) /\ Row(t, c) = r /\ t \in CoreType
BY DEF One, Makes

\* If no row changes, call c is the only one that might have.
LEMMA AsideOne ==
  ASSUME NEW s, NEW t, NEW c \in Call, Aside(s, t)
  PROVE  One(s, t, c) /\ Row(t, c) = Row(s, c) /\ t \in CoreType
BY DEF One, Aside

\* Two steps that concern the same call.
LEMMA OneTrans ==
  ASSUME NEW s, NEW t, NEW u, NEW c \in Call, One(s, t, c), One(t, u, c)
  PROVE  One(s, u, c)
BY DEF One

\* A handler of one call is right when that call is tidy afterwards.
LEMMA OneTidy ==
  ASSUME NEW s, NEW t, NEW c \in Call, Tidy(s), One(s, t, c), TidyRow(Row(t, c))
  PROVE  Tidy(t)
BY DEF Tidy, One

\* What a row says.
LEMMA RowParts ==
  ASSUME NEW s, NEW t, NEW c \in Call, Row(t, c) = Row(s, c)
  PROVE  /\ t.state[c] = s.state[c] /\ t.prev[c] = s.prev[c] /\ t.op[c] = s.op[c] /\ t.ct[c] = s.ct[c]
         /\ t.pend[c] = s.pend[c] /\ t.dir[c] = s.dir[c] /\ t.rmd[c] = s.rmd[c]
         /\ (c \in t.calls <=> c \in s.calls)
<1> DEFINE x == Row(t, c)
           y == Row(s, c)
<1>1. /\ x.state = t.state[c] /\ x.prev = t.prev[c] /\ x.op = t.op[c] /\ x.ct = t.ct[c]
      /\ x.pend = t.pend[c] /\ x.dir = t.dir[c] /\ x.rmd = t.rmd[c] /\ x.listed = On(c \in t.calls)
  BY DEF Row, RowOf
<1>2. /\ y.state = s.state[c] /\ y.prev = s.prev[c] /\ y.op = s.op[c] /\ y.ct = s.ct[c]
      /\ y.pend = s.pend[c] /\ y.dir = s.dir[c] /\ y.rmd = s.rmd[c] /\ y.listed = On(c \in s.calls)
  BY DEF Row, RowOf
<1> HIDE DEF x, y
<1>3. x = y
  BY DEF x, y
<1> QED BY <1>1, <1>2, <1>3 DEF On

\* What the row of a call says, field by field.
LEMMA RowFields ==
  ASSUME NEW s, NEW c \in Call
  PROVE  /\ Row(s, c).state = s.state[c] /\ Row(s, c).prev = s.prev[c] /\ Row(s, c).op = s.op[c]
         /\ Row(s, c).ct = s.ct[c] /\ Row(s, c).pend = s.pend[c] /\ Row(s, c).dir = s.dir[c]
         /\ Row(s, c).rmd = s.rmd[c]
         /\ Row(s, c).listed = "on" <=> c \in s.calls
         /\ Row(s, c).listed = "off" <=> c \notin s.calls
         /\ Row(s, c).listed \in {"on", "off"}
BY DEF Row, RowOf, On

-----------------------------------------------------------------------------
(* Turning to another call                                                 *)

\* The call that was current does not run afterwards.
Quits(s, t) == s.current # NoCall => t.state[s.current] # "StreamsRunning"

\* No call starts to run.
NoneStarts(s, t) == \A d \in Call : t.state[d] = "StreamsRunning" => s.state[d] = "StreamsRunning"

\* Another call becomes current only when the one that was does not run afterwards.
Turns(s, t) == t.current \in {s.current, NoCall} \/ Quits(s, t)

\* What each handler does before it makes its own call the current one.
LEMMA OneTurns ==
  ASSUME NEW s \in CoreType, NEW p, NEW t, NEW c \in Call, Quits(s, p), One(p, t, c),
         t.current \in {s.current, NoCall, c}
  PROVE  Turns(s, t)
<1> SUFFICES ASSUME t.current = c, s.current \notin {c, NoCall} PROVE t.state[s.current] # "StreamsRunning"
  BY DEF Turns, Quits
<1>1. s.current \in Call \ {c}
  BY DEF CoreType
<1>2. Row(t, s.current) = Row(p, s.current)
  BY <1>1 DEF One
<1>3. t.state[s.current] = p.state[s.current]
  BY <1>1, <1>2, RowParts
<1> QED BY <1>1, <1>3 DEF Quits

\* Handlers of one call that ends start none; the others of a core stay as they are.
LEMMA OneStarts ==
  ASSUME NEW s, NEW t, NEW c \in Call, One(s, t, c)
  PROVE  /\ \A d \in Call \ {c} : t.state[d] = s.state[d]
         /\ t.state[c] # "StreamsRunning" => NoneStarts(s, t)
<1>1. \A d \in Call \ {c} : t.state[d] = s.state[d]
  BY RowParts DEF One
<1> QED BY <1>1 DEF NoneStarts

-----------------------------------------------------------------------------
(* The tone                                                                *)

\* Nothing the tone plays for goes away.
LEMMA ReasonStays ==
  ASSUME NEW s \in CoreType, NEW t, NEW c \in Call, Reason(s), One(s, t, c), t.ring => s.ring,
         t.op[c] = s.op[c], c \in t.calls <=> c \in s.calls,
         t.state[c] = "Idle" => s.state[c] = "Idle",
         t.current = s.current \/ (c \in s.calls /\ s.op[c] # "ringing")
  PROVE  Reason(t)
<1>1. \A d \in Call : t.op[d] = s.op[d] /\ (d \in t.calls <=> d \in s.calls)
                      /\ (t.state[d] = "Idle" => s.state[d] = "Idle")
  BY RowParts DEF One
<1>2. s.calls \subseteq Call /\ t.calls \subseteq Call
  BY DEF CoreType, One
<1>3. Placing(s) => Placing(t)
  BY <1>1, <1>2 DEF Placing
<1>4. Called(s) => Called(t)
  BY <1>1, <1>2 DEF Called
<1> QED BY <1>3, <1>4 DEF Reason

\* A call that does not ring goes away, or changes its phase.
LEMMA ReasonElsewhere ==
  ASSUME NEW s \in CoreType, NEW t, NEW c \in Call, Reason(s), One(s, t, c), t.ring => s.ring,
         Placing(s) => s.op[c] \notin {"init", "inviting", "early"} \/ Placing(t),
         ~ Called(s)
  PROVE  Reason(t)
<1>1. \A d \in Call \ {c} : t.op[d] = s.op[d] /\ (d \in t.calls <=> d \in s.calls)
  BY RowParts DEF One
<1>2. s.calls \subseteq Call
  BY DEF CoreType
<1>3. Placing(s) => Placing(t)
  BY <1>1, <1>2 DEF Placing
<1> QED BY <1>3 DEF Reason

-----------------------------------------------------------------------------
(* Ending a call                                                           *)

\* The row of a call that is over.
LEMMA EndedTidy ==
  ASSUME NEW r, r.state \in Ended,
         r.op \in {"cancelling", "terminating"} \/ (UseIce /\ r.op = "none"),
         r.listed = "off" => r.streams = "off" /\ r.gathering = "off",
         r.ct = "none", r.busy = "off", r.ack = "off"
  PROVE  TidyRow(r)
<1>1. r.state \notin Transient /\ r.state \notin {"Paused", "PausedByRemote", "UpdatedByRemote", "Connected",
                                                   "Idle", "OutgoingInit", "EarlyUpdatedByRemote",
                                                   "StreamsRunning"}
  BY DEF Ended, Transient
<1>2. r.op # "ringing"
  OBVIOUS
<1> QED BY <1>1, <1>2 DEF TidyRow, TidyEnd, TidyHold, TidyRequest, TidyPlain, Rests

\* The last steps of every way to end a call, whose operation is already closing.
LEMMA EndTidy ==
  ASSUME NEW s \in CoreType, NEW q, NEW c \in Call, NEW new \in Ended, Tidy(s), One(s, q, c),
         q.op[c] \in {"cancelling", "terminating"} \/ (UseIce /\ q.op[c] = "none"),
         q.ct[c] = "none", Row(q, c).busy = "off", Row(q, c).ack = "off",
         Row(q, c).listed = Row(s, c).listed, Row(q, c).gathering = Row(s, c).gathering
  PROVE  LET t == SetState(StopStreams(q, c), c, new)
         IN  /\ Tidy(t) /\ One(s, t, c) /\ t.state[c] \in Ended /\ t.op[c] = q.op[c]
             /\ t.ring = q.ring /\ t.current \in {q.current, NoCall}
             /\ q.state[c] \notin Ended => c \notin t.calls
<1> DEFINE p == StopStreams(q, c)
           t == SetState(p, c, new)
<1>1. new \in CallState \ {"Released"}
  BY DEF Ended, CallState
<1>2. /\ Row(p, c) = [Row(q, c) EXCEPT !.streams = "off"] /\ SameTone(q, p) /\ p \in CoreType
      /\ One(s, p, c)
  <2>1. Makes(q, p, c, [Row(q, c) EXCEPT !.streams = "off"]) /\ SameTone(q, p)
    BY MediaMakes DEF One
  <2> HIDE DEF p
  <2> QED BY <2>1, MakesOne, OneTrans
<1>3. Row(s, c).listed = "off" => Row(s, c).gathering = "off"
  BY DEF Tidy, TidyRow, TidyEnd
<1> HIDE DEF p
<1>4. /\ p.state[c] = q.state[c] /\ p.op[c] = q.op[c] /\ p.ct[c] = q.ct[c]
      /\ Row(p, c).busy = "off" /\ Row(p, c).ack = "off" /\ Row(p, c).streams = "off"
      /\ Row(p, c).listed = Row(s, c).listed /\ Row(p, c).gathering = Row(s, c).gathering
  <2> DEFINE x == Row(q, c)
             y == Row(p, c)
  <2>1. y.state = x.state /\ y.op = x.op /\ y.ct = x.ct /\ y.busy = x.busy /\ y.ack = x.ack
        /\ y.streams = "off" /\ y.listed = x.listed /\ y.gathering = x.gathering
    BY <1>2 DEF Row, RowOf
  <2> QED BY <2>1, RowFields
<1>5. CASE p.state[c] = new
  <2>1. t = p
    BY <1>5 DEF SetState
  <2>2. TidyRow(Row(t, c))
    BY <1>3, <1>4, <1>5, <2>1, RowFields, EndedTidy
  <2>3. One(s, t, c)
    BY <1>2, <2>1
  <2> HIDE DEF t
  <2>4. Tidy(t)
    BY <2>2, <2>3, OneTidy
  <2> QED BY <1>2, <1>4, <1>5, <2>1, <2>3, <2>4 DEF SameTone, t, p
<1>6. CASE p.state[c] # new /\ p.state[c] \in Ended
  <2>1. Makes(p, t, c, [Row(p, c) EXCEPT !.prev = p.state[c]]) /\ SameTone(p, t)
    BY <1>1, <1>2, <1>6, SetStateMakes
  <2> HIDE DEF t
  <2>2. Row(t, c) = [Row(p, c) EXCEPT !.prev = p.state[c]] /\ One(s, t, c)
    <3>1. One(p, t, c) /\ Row(t, c) = [Row(p, c) EXCEPT !.prev = p.state[c]]
      BY <2>1, MakesOne
    <3> QED BY <1>2, <3>1, OneTrans
  <2>3. /\ Row(t, c).state = Row(p, c).state /\ Row(t, c).op = Row(p, c).op /\ Row(t, c).ct = Row(p, c).ct
        /\ Row(t, c).busy = Row(p, c).busy /\ Row(t, c).ack = Row(p, c).ack
        /\ Row(t, c).streams = Row(p, c).streams /\ Row(t, c).listed = Row(p, c).listed
        /\ Row(t, c).gathering = Row(p, c).gathering
    BY <2>2 DEF Row, RowOf
  <2>4. TidyRow(Row(t, c))
    BY <1>3, <1>4, <1>6, <2>3, RowFields, EndedTidy
  <2>5. t.state[c] = p.state[c] /\ t.op[c] = p.op[c]
    BY <2>3, RowFields
  <2>6. Tidy(t)
    BY <2>2, <2>4, OneTidy
  <2> QED BY <1>2, <1>4, <1>6, <2>1, <2>2, <2>5, <2>6 DEF SameTone, t, p
<1>7. CASE p.state[c] # new /\ p.state[c] \notin Ended
  <2>1. /\ Makes(p, t, c, [Row(p, c) EXCEPT !.prev = p.state[c], !.state = new, !.streams = "off",
                                            !.gathering = "off", !.listed = "off"])
        /\ t.ring = p.ring /\ t.current = IF p.current = c THEN NoCall ELSE p.current
    BY ZenonT(60), <1>1, <1>2, <1>7, SetStateMakes
  <2> HIDE DEF t
  <2>2. /\ Row(t, c) = [Row(p, c) EXCEPT !.prev = p.state[c], !.state = new, !.streams = "off",
                                         !.gathering = "off", !.listed = "off"]
        /\ One(s, t, c)
    BY <1>2, <2>1, MakesOne, OneTrans
  <2>3. /\ Row(t, c).state = new /\ Row(t, c).op = Row(p, c).op /\ Row(t, c).ct = Row(p, c).ct
        /\ Row(t, c).busy = Row(p, c).busy /\ Row(t, c).ack = Row(p, c).ack
        /\ Row(t, c).streams = "off" /\ Row(t, c).listed = "off" /\ Row(t, c).gathering = "off"
    BY ZenonT(60), <2>2 DEF Row, RowOf
  <2>4. TidyRow(Row(t, c))
    BY <1>4, <2>3, RowFields, EndedTidy
  <2>5. t.state[c] = new /\ t.op[c] = p.op[c] /\ c \notin t.calls
    BY <2>3, RowFields
  <2>6. Tidy(t)
    BY <2>2, <2>4, OneTidy
  <2>7. t.state[c] \in Ended
    BY <2>5
  <2>8. t.ring = q.ring /\ t.current \in {q.current, NoCall}
    BY <1>2, <2>1 DEF SameTone
  <2> QED BY <1>4, <2>2, <2>5, <2>6, <2>7, <2>8 DEF t, p
<1> QED BY <1>5, <1>6, <1>7

\* The operation of call c is closing, and the call is about to end.
Hangs(s, q, c) ==
  /\ One(s, q, c) /\ q.ct[c] = "none"
  /\ q.op[c] \in {"cancelling", "terminating"} \/ (UseIce /\ q.op[c] = "none")
  /\ Row(q, c).busy = "off" /\ Row(q, c).ack = "off"
  /\ Row(q, c).listed = Row(s, c).listed /\ Row(q, c).gathering = Row(s, c).gathering

\* What concerns no call does not stop the hang-up.
LEMMA HangsAside ==
  ASSUME NEW s, NEW q, NEW r, NEW c \in Call, Hangs(s, q, c), Aside(q, r)
  PROVE  Hangs(s, r, c) /\ r.op[c] = q.op[c] /\ r.state[c] = q.state[c]
<1>1. One(q, r, c) /\ Row(r, c) = Row(q, c)
  BY AsideOne
<1>2. r.state[c] = q.state[c] /\ r.op[c] = q.op[c] /\ r.ct[c] = q.ct[c]
  BY <1>1, RowParts
<1>3. One(s, r, c)
  BY <1>1, OneTrans DEF Hangs
<1> QED BY <1>1, <1>2, <1>3 DEF Hangs

\* terminate_call()
LEMMA TerminateLocallyTidy ==
  ASSUME NEW s \in CoreType, NEW q, NEW c \in Call, Tidy(s), Hangs(s, q, c)
  PROVE  LET t == TerminateLocally(q, c)
         IN  /\ Tidy(t) /\ One(s, t, c) /\ t.state[c] \in Ended /\ t.op[c] = q.op[c]
             /\ ~ t.ring /\ t.current \in {q.current, NoCall}
             /\ q.state[c] \notin Ended => c \notin t.calls
<1> DEFINE e == IF q.state[c] = "IncomingReceived" /\ q.err[c] # "timeout"
                THEN EndReason(q, c, "declined") ELSE q
           r == StopRinging(e)
           t == SetState(StopStreams(r, c), c, "End")
<1>1. TerminateLocally(q, c) = t
  BY DEF TerminateLocally
<1>2. q \in CoreType
  BY DEF Hangs, One
<1>3. Aside(q, e) /\ e.current = q.current /\ e \in CoreType
  BY <1>2, LogAside, RingAside DEF SameTone, Aside
<1> HIDE DEF e
<1>4. Aside(e, r) /\ ~ r.ring /\ r.current = e.current
  BY <1>3, RingAside
<1> HIDE DEF r
<1>5. Hangs(s, r, c) /\ r.op[c] = q.op[c] /\ r.state[c] = q.state[c]
  BY <1>3, <1>4, HangsAside
<1>6. "End" \in Ended
  BY DEF Ended
<1>7. /\ Tidy(t) /\ One(s, t, c) /\ t.state[c] \in Ended /\ t.op[c] = r.op[c]
      /\ t.ring = r.ring /\ t.current \in {r.current, NoCall}
      /\ r.state[c] \notin Ended => c \notin t.calls
  BY <1>5, <1>6, EndTidy DEF Hangs
<1> HIDE DEF t
<1> QED BY <1>1, <1>3, <1>4, <1>5, <1>7

\* What the operation of a call becomes when it is closed.
LEMMA SalTerminateHangs ==
  ASSUME NEW s, NEW q, NEW c \in Call, One(s, q, c),
         q.op[c] \in OpPhase \ {"none", "init"} \/ (UseIce /\ q.op[c] = "none"),
         Row(q, c).busy = "off", Row(q, c).ack = "off",
         Row(q, c).listed = Row(s, c).listed, Row(q, c).gathering = Row(s, c).gathering
  PROVE  LET t == SalTerminate(q, c)
         IN  Hangs(s, t, c) /\ SameTone(q, t) /\ t.state[c] = q.state[c]
<1> DEFINE t == SalTerminate(q, c)
<1>1. Makes(q, t, c, [Row(q, c) EXCEPT !.op = ClosingPhase(q.op[c]), !.ct = "none", !.pend = {}])
      /\ SameTone(q, t)
  BY SalTerminateMakes DEF One
<1> HIDE DEF t
<1>2. One(s, t, c) /\ Row(t, c) = [Row(q, c) EXCEPT !.op = ClosingPhase(q.op[c]), !.ct = "none", !.pend = {}]
  BY <1>1, MakesOne, OneTrans
<1>3. /\ Row(t, c).state = Row(q, c).state /\ Row(t, c).op = ClosingPhase(q.op[c]) /\ Row(t, c).ct = "none"
      /\ Row(t, c).busy = Row(q, c).busy /\ Row(t, c).ack = Row(q, c).ack
      /\ Row(t, c).listed = Row(q, c).listed /\ Row(t, c).gathering = Row(q, c).gathering
  BY <1>2 DEF Row, RowOf
<1>4. t.state[c] = q.state[c] /\ t.op[c] = ClosingPhase(q.op[c]) /\ t.ct[c] = "none"
  BY <1>3, RowFields
<1>5. ClosingPhase(q.op[c]) \in {"cancelling", "terminating"} \/ (UseIce /\ ClosingPhase(q.op[c]) = "none")
  BY DEF ClosingPhase, OpPhase
<1> QED BY <1>1, <1>2, <1>3, <1>4, <1>5 DEF Hangs, t

\* sal_call_terminate() of a call that has an operation, or is over.
LEMMA ClosingHangs ==
  ASSUME NEW s, NEW c \in Call, Consistent(s), Tidy(s),
         s.op[c] # "none" \/ s.state[c] \in Ended, s.state[c] # "OutgoingInit"
  PROVE  LET t == SalTerminate(s, c)
         IN  Hangs(s, t, c) /\ SameTone(s, t) /\ t.state[c] = s.state[c]
<1>1. s \in CoreType /\ CallFits(s, c) /\ TidyRow(Row(s, c)) /\ s.state[c] \in CallState /\ s.op[c] \in OpPhase
  BY DEF Consistent, CoreType, Tidy
<1>2. s.op[c] # "init"
  <2>1. s.op[c] = "init" => s.state[c] \in {"OutgoingInit"} \cup Ended
    BY <1>1 DEF CallFits, OpFits, CallState, AwaitingAnswer, Outgoing, Alerting, Answered, Ended
  <2>2. s.state[c] \in Ended => s.op[c] \in {"cancelling", "terminating", "none"}
    BY <1>1, RowFields DEF TidyRow, TidyEnd
  <2> QED BY <2>1, <2>2
<1>3. s.op[c] = "none" => UseIce
  BY <1>1, RowFields DEF TidyRow, TidyEnd
<1>4. Row(s, c).busy = "off" /\ Row(s, c).ack = "off"
  BY <1>1 DEF TidyRow, TidyPlain
<1>5. One(s, s, c)
  BY <1>1 DEF One
<1> QED BY <1>1, <1>2, <1>3, <1>4, <1>5, SalTerminateHangs

\* linphone_core_decline_call(), and linphone_core_terminate_call()
LEMMA TerminateCallTidy ==
  ASSUME NEW s, NEW c \in Call, Consistent(s), Tidy(s), s.op[c] # "none" \/ s.state[c] \in Ended
  PROVE  LET t == TerminateCall(s, c)
         IN  /\ Tidy(t) /\ One(s, t, c) /\ t.state[c] \in Ended
             /\ t.ring => s.ring
             /\ s.state[c] # "End" => ~ t.ring
             /\ t.current \in {s.current, NoCall}
             /\ t.op[c] \notin {"init", "inviting", "early", "ringing"}
             /\ s.state[c] \notin Ended => c \notin t.calls
<1> DEFINE t == TerminateCall(s, c)
<1>1. s \in CoreType /\ CallFits(s, c) /\ TidyRow(Row(s, c))
  BY DEF Consistent, Tidy
<1>2. s.state[c] # "Released"
  BY <1>1 DEF CallFits, OpFits, Ended
<1>3. CASE s.state[c] = "End"
  <2>1. t = s /\ s.state[c] \in Ended
    BY <1>3 DEF TerminateCall, Ended, Alerting
  <2>2. Aside(s, s)
    BY <1>1, RingAside
  <2>3. s.op[c] \notin {"init", "inviting", "early", "ringing"}
    BY <1>1, <2>1, RowFields DEF TidyRow, TidyEnd
  <2> QED BY <1>3, <2>1, <2>2, <2>3, AsideOne
<1>4. CASE s.state[c] = "OutgoingInit"
  <2> DEFINE q == SalRelease(s, c)
  <2>1. t = TerminateLocally(q, c)
    BY <1>4 DEF TerminateCall, Alerting
  <2>2. Makes(s, q, c, [Row(s, c) EXCEPT !.op = "none", !.busy = "off"]) /\ SameTone(s, q)
    BY <1>1, SalReleaseMakes
  <2> HIDE DEF q
  <2>3. One(s, q, c) /\ Row(q, c) = [Row(s, c) EXCEPT !.op = "none", !.busy = "off"]
    BY <2>2, MakesOne
  <2>4. /\ Row(q, c).state = Row(s, c).state /\ Row(q, c).op = "none" /\ Row(q, c).ct = Row(s, c).ct
        /\ Row(q, c).busy = "off" /\ Row(q, c).ack = Row(s, c).ack
        /\ Row(q, c).listed = Row(s, c).listed /\ Row(q, c).gathering = Row(s, c).gathering
    BY <2>3 DEF Row, RowOf
  <2>5. Row(s, c).ct = "none" /\ Row(s, c).ack = "off" /\ UseIce
    BY <1>1, <1>4, RowFields DEF TidyRow, TidyPlain, TidyRequest, Transient
  <2>6. q.state[c] = s.state[c] /\ q.op[c] = "none" /\ q.ct[c] = "none"
    BY <2>4, <2>5, RowFields
  <2>7. Hangs(s, q, c)
    BY <2>3, <2>4, <2>5, <2>6 DEF Hangs
  <2> QED BY <1>1, <1>4, <2>1, <2>2, <2>6, <2>7, TerminateLocallyTidy DEF SameTone
<1>5. CASE s.state[c] \notin {"End", "OutgoingInit"}
  <2> DEFINE q == SalTerminate(s, c)
  <2>1. t = TerminateLocally(q, c)
    BY <1>2, <1>5 DEF TerminateCall, DeclineCall
  <2>2. Hangs(s, q, c) /\ SameTone(s, q) /\ q.state[c] = s.state[c]
    BY <1>5, ClosingHangs
  <2>3. q.op[c] \in {"cancelling", "terminating", "none"}
    BY <2>2 DEF Hangs
  <2> HIDE DEF q
  <2> QED BY <1>1, <2>1, <2>2, <2>3, TerminateLocallyTidy DEF SameTone
<1> QED BY <1>3, <1>4, <1>5

\* linphone_core_terminate_call() leaves another call current, if one is.
LEMMA TerminateCallElsewhere ==
  ASSUME NEW s \in CoreType, NEW c \in Call, s.current # c
  PROVE  TerminateCall(s, c).current = s.current
<1>1. ASSUME NEW q \in CoreType, q.current = s.current
      PROVE  TerminateLocally(q, c).current = s.current
  <2> DEFINE e == IF q.state[c] = "IncomingReceived" /\ q.err[c] # "timeout"
                  THEN EndReason(q, c, "declined") ELSE q
             r == StopRinging(e)
             x == StopStreams(r, c)
  <2>1. e \in CoreType /\ e.current = s.current
    BY <1>1, EndReasonKeeps, LogAside DEF Keeps, SameTone
  <2> HIDE DEF e
  <2>2. r \in CoreType /\ r.current = s.current
    BY <2>1, RingAside DEF Aside
  <2> HIDE DEF r
  <2>3. x \in CoreType /\ x.current = s.current
    BY <2>2, MediaMakes DEF Makes, SameTone
  <2> HIDE DEF x
  <2>4. SetState(x, c, "End").current = s.current
    <3>1. "End" \in Ended /\ "End" \in CallState \ {"Released"}
      BY DEF Ended, CallState
    <3>2. CASE x.state[c] = "End"
      BY <2>3, <3>2 DEF SetState
    <3>3. CASE x.state[c] # "End"
      BY <2>3, <3>1, <3>3, SetStateMakes DEF SameTone
    <3> QED BY <3>2, <3>3
  <2>5. TerminateLocally(q, c) = SetState(x, c, "End")
    BY DEF TerminateLocally, x, r, e
  <2> QED BY <2>4, <2>5
<1>2. /\ SalTerminate(s, c) \in CoreType /\ SalTerminate(s, c).current = s.current
      /\ SalRelease(s, c) \in CoreType /\ SalRelease(s, c).current = s.current
  BY SalTerminateMakes, SalReleaseMakes DEF Makes, SameTone
<1>3. TerminateCall(s, c) \in {s, TerminateLocally(SalTerminate(s, c), c), TerminateLocally(SalRelease(s, c), c)}
  BY DEF TerminateCall, DeclineCall
<1> QED BY <1>1, <1>2, <1>3

\* linphone_core_terminate_call() declines a call that is not answered yet.
LEMMA DeclineIsTerminate ==
  ASSUME NEW s, NEW c, s.state[c] \in Alerting
  PROVE  TerminateCall(s, c) = DeclineCall(s, c)
BY DEF TerminateCall, Alerting

\* linphone_core_abort_call()
LEMMA AbortCallTidy ==
  ASSUME NEW s, NEW c \in Call, NEW q, Tidy(s), s \in CoreType, Hangs(s, SalTerminate(q, c), c), q \in CoreType
  PROVE  LET t == AbortCall(q, c)
         IN  Tidy(t) /\ One(s, t, c) /\ ~ t.ring
<1> DEFINE p == SalTerminate(q, c)
           r == StopRinging(p)
<1>1. AbortCall(q, c) = SetState(StopStreams(r, c), c, "Error")
  BY DEF AbortCall
<1>2. p \in CoreType
  BY DEF Hangs, One
<1> HIDE DEF p
<1>3. Aside(p, r) /\ ~ r.ring
  BY <1>2, RingAside
<1> HIDE DEF r
<1>4. Hangs(s, r, c)
  BY <1>3, HangsAside DEF p
<1>5. "Error" \in Ended
  BY DEF Ended
<1> QED BY <1>1, <1>3, <1>4, <1>5, EndTidy DEF Hangs

-----------------------------------------------------------------------------
(* The sound resources                                                     *)

\* _linphone_core_pause_call(): the request always leaves, since nothing else is
\* outstanding in a call that is settled.
LEMMA PauseCallTidy ==
  ASSUME NEW s, NEW c \in Call, Consistent(s), Tidy(s)
  PROVE  LET t == PauseCall(s, c)
         IN  /\ Tidy(t) /\ One(s, t, c) /\ t.ring = s.ring /\ t.current \in {s.current, NoCall}
             /\ t = s \/ (s.state[c] \in {"StreamsRunning", "PausedByRemote"} /\ c \in s.calls)
             /\ t.op[c] = s.op[c] /\ (c \in t.calls <=> c \in s.calls) /\ t.pend[c] = s.pend[c]
             /\ t.state[c] \in {s.state[c], "Pausing"}
             /\ "recvonly" \notin Offers => t.state[c] # "StreamsRunning"
<1> DEFINE u == SalUpdate(s, c, "hold")
           n == NoCurrent(u)
           q == StopStreams(n, c)
           t == SetState(q, c, "Pausing")
           heard == HasDir(s.dir[c], "sendrecv") \/ HasDir(s.dir[c], "recvonly")
<1>1. s \in CoreType /\ CallFits(s, c) /\ TidyRow(Row(s, c))
  BY DEF Consistent, Tidy
<1>2. CASE ~ (s.state[c] \in {"StreamsRunning", "PausedByRemote"} /\ heard)
  <2>1. PauseCall(s, c) = s
    BY <1>2 DEF PauseCall
  <2>2. ASSUME "recvonly" \notin Offers PROVE s.state[c] # "StreamsRunning"
    <3>1. s.state[c] = "StreamsRunning" => s.dir[c] \in {"sendrecv", "recvonly", "inactive"}
      BY <1>1, <2>2, RowFields DEF TidyRow, TidyHold, Rests
    <3> QED BY <1>2, <3>1 DEF HasDir
  <2> QED BY <1>1, <2>1, <2>2, RingAside, AsideOne
<1>3. CASE s.state[c] \in {"StreamsRunning", "PausedByRemote"} /\ heard
  <2>1. PauseCall(s, c) = t /\ s.state[c] \in {"StreamsRunning", "PausedByRemote"}
    BY <1>3 DEF PauseCall
  <2>2. s.op[c] = "active" /\ "hold" \in Request /\ c \in s.calls
    BY <1>1, <2>1 DEF CallFits, OpFits, ListFits, Answered, Request, Live, CallState, Ended
  <2>3. CanUpdate(s, c)
    <3>1. s.ct[c] = "none"
      BY <1>1, <2>1, RowFields DEF TidyRow, TidyRequest, Transient
    <3>2. ~ s.busy[c]
      BY <1>1 DEF TidyRow, TidyPlain, Row, RowOf, On
    <3> QED BY <2>2, <3>1, <3>2 DEF CanUpdate
  <2>4. Makes(s, u, c, [Row(s, c) EXCEPT !.ct = "hold"]) /\ SameTone(s, u)
    BY <1>1, <2>2, <2>3, SalUpdateMakes
  <2> HIDE DEF u
  <2>5. One(s, u, c) /\ Row(u, c) = [Row(s, c) EXCEPT !.ct = "hold"] /\ u \in CoreType
    BY <2>4, MakesOne
  <2>6. Aside(u, n) /\ n.ring = u.ring /\ n.current = NoCall
    BY <2>5, CurrentAside
  <2> HIDE DEF n
  <2>7. One(u, n, c) /\ Row(n, c) = Row(u, c) /\ n \in CoreType
    BY <2>6, AsideOne
  <2>8. Makes(n, q, c, [Row(n, c) EXCEPT !.streams = "off"]) /\ SameTone(n, q)
    BY <2>7, MediaMakes
  <2> HIDE DEF q
  <2>9. One(n, q, c) /\ Row(q, c) = [Row(n, c) EXCEPT !.streams = "off"] /\ q \in CoreType
    BY <2>8, MakesOne
  <2>10. Row(q, c).state = s.state[c]
    BY <2>5, <2>7, <2>9 DEF Row, RowOf
  <2>11. q.state[c] = s.state[c] /\ q.state[c] \notin Ended /\ q.state[c] # "Pausing"
         /\ "Pausing" \notin Ended /\ "Pausing" \in CallState \ {"Released"}
    BY <2>1, <2>10, RowFields DEF Ended, CallState
  <2>12. Makes(q, t, c, [Row(q, c) EXCEPT !.prev = q.state[c], !.state = "Pausing"]) /\ SameTone(q, t)
    BY <2>9, <2>11, SetStateMakes
  <2> HIDE DEF t
  <2>13. One(q, t, c) /\ Row(t, c) = [Row(q, c) EXCEPT !.prev = q.state[c], !.state = "Pausing"]
    BY <2>12, MakesOne
  <2>14. One(s, t, c)
    BY <2>5, <2>7, <2>9, <2>13, OneTrans
  <2> DEFINE r == Row(t, c)
  <2>15. /\ r.state = "Pausing" /\ r.prev = s.state[c] /\ r.ct = "hold" /\ r.streams = "off"
         /\ r.op = "active" /\ r.pend = s.pend[c] /\ r.dir = s.dir[c] /\ r.rmd = s.rmd[c]
         /\ r.gathering = Row(s, c).gathering /\ r.listed = Row(s, c).listed
         /\ r.busy = Row(s, c).busy /\ r.ack = Row(s, c).ack
    <3> DEFINE o == Row(s, c)
               p == Row(q, c)
    <3>1. /\ p.state = o.state /\ p.prev = o.prev /\ p.ct = "hold" /\ p.streams = "off" /\ p.op = o.op
          /\ p.pend = o.pend /\ p.dir = o.dir /\ p.rmd = o.rmd /\ p.gathering = o.gathering
          /\ p.listed = o.listed /\ p.busy = o.busy /\ p.ack = o.ack
      BY <2>5, <2>7, <2>9 DEF Row, RowOf
    <3>2. /\ r.state = "Pausing" /\ r.prev = q.state[c] /\ r.ct = p.ct /\ r.streams = p.streams /\ r.op = p.op
          /\ r.pend = p.pend /\ r.dir = p.dir /\ r.rmd = p.rmd /\ r.gathering = p.gathering
          /\ r.listed = p.listed /\ r.busy = p.busy /\ r.ack = p.ack
      BY <2>13 DEF Row, RowOf
    <3>3. o.op = "active" /\ o.pend = s.pend[c] /\ o.dir = s.dir[c] /\ o.rmd = s.rmd[c]
      BY <2>2, RowFields
    <3> HIDE DEF o, p, r
    <3> QED BY <2>11, <3>1, <3>2, <3>3 DEF o
  <2>16. TidyRow(r)
    <3> HIDE DEF r
    <3>1. TidyEnd(r)
      BY <1>1, <2>15 DEF TidyRow, TidyEnd, Ended
    <3>2. TidyHold(r)
      BY <1>1, <2>1, <2>15, RowFields DEF TidyRow, TidyHold, Rests, Transient
    <3>3. TidyRequest(r)
      BY <2>1, <2>15 DEF TidyRequest, Transient, Resting
    <3>4. TidyPlain(r)
      BY <1>1, <2>15 DEF TidyRow, TidyPlain
    <3> QED BY <3>1, <3>2, <3>3, <3>4 DEF TidyRow
  <2>17. Tidy(t)
    BY <2>14, <2>16, OneTidy
  <2>18. t.op[c] = s.op[c] /\ t.pend[c] = s.pend[c] /\ t.state[c] = "Pausing" /\ (c \in t.calls <=> c \in s.calls)
    BY <2>2, <2>15, RowFields
  <2>19. t.ring = s.ring /\ t.current = NoCall
    BY <2>4, <2>6, <2>8, <2>12 DEF SameTone
  <2> QED BY <2>1, <2>2, <2>14, <2>17, <2>18, <2>19
<1> QED BY <1>2, <1>3

\* linphone_core_preempt_sound_resources()
LEMMA PreemptTidy ==
  ASSUME NEW s, Consistent(s), Tidy(s)
  PROVE  LET t == Preempt(s)
         IN  /\ Tidy(t) /\ ~ t.ring /\ t.current \in {s.current, NoCall} /\ t \in CoreType
             /\ \A d \in Call : s.state[d] \notin {"StreamsRunning", "PausedByRemote"} => Row(t, d) = Row(s, d)
             /\ \A d \in Call : t.op[d] = s.op[d] /\ (d \in t.calls <=> d \in s.calls)
             /\ NoneStarts(s, t) /\ ("recvonly" \notin Offers => Quits(s, t))
<1> DEFINE p == IF s.current # NoCall THEN PauseCall(s, s.current) ELSE s
           t == StopRinging(p)
<1>1. s \in CoreType /\ (s.current # NoCall => s.current \in Call) /\ Preempt(s) = t
  BY DEF Consistent, CoreType, Preempt
<1>2. CASE s.current = NoCall
  <2>1. p = s
    BY <1>2
  <2>2. Aside(s, t) /\ ~ t.ring /\ t.current = s.current
    BY <1>1, <2>1, RingAside
  <2>3. Tidy(t) /\ \A d \in Call : Row(t, d) = Row(s, d)
    BY <2>2, AsideTidy DEF Aside
  <2>4. NoneStarts(s, t) /\ Quits(s, t)
    BY <1>2, <2>3, RowParts DEF NoneStarts, Quits
  <2> QED BY <1>1, <2>2, <2>3, <2>4, RowParts DEF Aside
<1>3. CASE s.current # NoCall
  <2> DEFINE c == s.current
  <2>1. c \in Call /\ p = PauseCall(s, c)
    BY <1>1, <1>3
  <2>2. /\ Tidy(p) /\ One(s, p, c) /\ p.current \in {s.current, NoCall}
        /\ p = s \/ s.state[c] \in {"StreamsRunning", "PausedByRemote"}
        /\ p.op[c] = s.op[c] /\ (c \in p.calls <=> c \in s.calls)
        /\ p.state[c] \in {s.state[c], "Pausing"}
        /\ "recvonly" \notin Offers => p.state[c] # "StreamsRunning"
    BY <2>1, PauseCallTidy
  <2> HIDE DEF p
  <2>3. Aside(p, t) /\ ~ t.ring /\ t.current = p.current
    BY <2>2, RingAside DEF One
  <2> HIDE DEF t
  <2>4. Tidy(t) /\ t \in CoreType /\ \A d \in Call : Row(t, d) = Row(p, d)
    BY <2>2, <2>3, AsideTidy DEF Aside
  <2>5. \A d \in Call : s.state[d] \notin {"StreamsRunning", "PausedByRemote"} => Row(t, d) = Row(s, d)
    BY <2>1, <2>2, <2>4 DEF One
  <2>6. \A d \in Call : t.op[d] = s.op[d] /\ (d \in t.calls <=> d \in s.calls)
    <3> SUFFICES ASSUME NEW d \in Call PROVE t.op[d] = s.op[d] /\ (d \in t.calls <=> d \in s.calls)
      OBVIOUS
    <3>1. t.op[d] = p.op[d] /\ (d \in t.calls <=> d \in p.calls)
      BY <2>4, RowParts
    <3>2. d # c => p.op[d] = s.op[d] /\ (d \in p.calls <=> d \in s.calls)
      BY <2>2, RowParts DEF One
    <3> QED BY <2>2, <3>1, <3>2
  <2>7. NoneStarts(s, t) /\ ("recvonly" \notin Offers => Quits(s, t))
    <3>1. \A d \in Call : t.state[d] = p.state[d] /\ (d # c => p.state[d] = s.state[d])
      BY <2>1, <2>2, <2>4, RowParts, OneStarts
    <3> QED BY <2>1, <2>2, <3>1 DEF NoneStarts, Quits
  <2> QED BY <1>1, <2>2, <2>3, <2>4, <2>5, <2>6, <2>7 DEF t
<1> QED BY <1>2, <1>3

\* linphone_core_resume_call()
LEMMA ResumeCallTidy ==
  ASSUME NEW s, NEW c \in Call, Consistent(s), Tidy(s)
  PROVE  /\ Tidy(ResumeCall(s, c)) /\ (ResumeCall(s, c) = s \/ ~ ResumeCall(s, c).ring)
         /\ "recvonly" \notin Offers => Turns(s, ResumeCall(s, c))
<1> DEFINE e == Preempt(s)
           p == AutoPaused(e, c, FALSE)
           u == SalUpdate(p, c, "reinvite")
           w == SetState(u, c, "Resuming")
           t == MakeCurrent(w, c)
<1>1. CASE s.state[c] # "Paused" \/ SoundLocked(s)
  BY <1>1 DEF ResumeCall, Turns
<1>2. CASE ~ (s.state[c] # "Paused" \/ SoundLocked(s))
  <2>1. ResumeCall(s, c) = IF CanUpdate(p, c) THEN t ELSE p
    BY <1>2 DEF ResumeCall
  <2>2. s \in CoreType /\ CallFits(s, c) /\ s.state[c] = "Paused" /\ TidyRow(Row(s, c))
    BY <1>2 DEF Consistent, Tidy
  <2>3. s.op[c] = "active" /\ "reinvite" \in Request /\ c \in s.calls
    BY <2>2 DEF CallFits, OpFits, ListFits, Answered, Request, Live, CallState, Ended
  <2>4. /\ Tidy(e) /\ ~ e.ring /\ e \in CoreType /\ Row(e, c) = Row(s, c)
        /\ e.current \in {s.current, NoCall} /\ ("recvonly" \notin Offers => Quits(s, e))
    BY <2>2, PreemptTidy
  <2> HIDE DEF e
  <2>5. Aside(e, p) /\ SameTone(e, p)
    BY <2>4, TaskAside
  <2> HIDE DEF p
  <2>6. Tidy(p) /\ ~ p.ring /\ p \in CoreType /\ Row(p, c) = Row(s, c) /\ One(e, p, c)
    BY <2>4, <2>5, AsideTidy, AsideOne DEF SameTone
  <2>7. CASE CanUpdate(p, c)
    <3>1. p.op[c] = "active" /\ p.state[c] = "Paused"
      BY <2>2, <2>3, <2>6, RowParts
    <3>2. Makes(p, u, c, [Row(p, c) EXCEPT !.ct = "reinvite"]) /\ SameTone(p, u)
      BY <2>3, <2>6, <2>7, <3>1, SalUpdateMakes
    <3> HIDE DEF u
    <3>3. One(p, u, c) /\ Row(u, c) = [Row(p, c) EXCEPT !.ct = "reinvite"] /\ u \in CoreType
      BY <3>2, MakesOne
    <3>4. Row(u, c).state = p.state[c]
      BY <3>3 DEF Row, RowOf
    <3>5. u.state[c] = "Paused" /\ "Paused" \notin Ended /\ "Resuming" \notin Ended /\ "Resuming" \in CallState \ {"Released"}
      BY <3>1, <3>4, RowFields DEF Ended, CallState
    <3>6. Makes(u, w, c, [Row(u, c) EXCEPT !.prev = u.state[c], !.state = "Resuming"]) /\ SameTone(u, w)
      BY <3>3, <3>5, SetStateMakes
    <3> HIDE DEF w
    <3>7. One(u, w, c) /\ Row(w, c) = [Row(u, c) EXCEPT !.prev = u.state[c], !.state = "Resuming"] /\ w \in CoreType
      BY <3>6, MakesOne
    <3>8. Aside(w, t) /\ t.ring = w.ring /\ t.current = c
      BY <3>7, CurrentAside
    <3> HIDE DEF t
    <3> DEFINE r == Row(w, c)
    <3>9. /\ r.state = "Resuming" /\ r.prev = "Paused" /\ r.ct = "reinvite" /\ r.streams = Row(s, c).streams
          /\ r.op = "active" /\ r.pend = s.pend[c] /\ r.dir = s.dir[c] /\ r.rmd = s.rmd[c]
          /\ r.gathering = Row(s, c).gathering /\ r.listed = Row(s, c).listed
          /\ r.busy = Row(s, c).busy /\ r.ack = Row(s, c).ack
      <4> DEFINE o == Row(s, c)
                 m == Row(u, c)
      <4>1. /\ m.ct = "reinvite" /\ m.streams = o.streams /\ m.op = o.op
            /\ m.pend = o.pend /\ m.dir = o.dir /\ m.rmd = o.rmd /\ m.gathering = o.gathering
            /\ m.listed = o.listed /\ m.busy = o.busy /\ m.ack = o.ack
        BY <2>6, <3>3 DEF Row, RowOf
      <4>2. /\ r.state = "Resuming" /\ r.prev = u.state[c] /\ r.ct = m.ct /\ r.streams = m.streams
            /\ r.op = m.op /\ r.pend = m.pend /\ r.dir = m.dir /\ r.rmd = m.rmd
            /\ r.gathering = m.gathering /\ r.listed = m.listed /\ r.busy = m.busy /\ r.ack = m.ack
        BY <3>7 DEF Row, RowOf
      <4>3. o.op = "active" /\ o.pend = s.pend[c] /\ o.dir = s.dir[c] /\ o.rmd = s.rmd[c]
        BY <2>3, RowFields
      <4> HIDE DEF o, m, r
      <4> QED BY <3>5, <4>1, <4>2, <4>3 DEF o
    <3>10. TidyRow(r)
      <4> HIDE DEF r
      <4>1. TidyEnd(r)
        BY <2>2, <3>9 DEF TidyRow, TidyEnd, Ended
      <4>2. TidyHold(r)
        BY <2>2, <3>9, RowFields DEF TidyRow, TidyHold, Rests, Transient
      <4>3. TidyRequest(r)
        BY <3>9 DEF TidyRequest, Transient, Resting
      <4>4. TidyPlain(r)
        BY <2>2, <3>9 DEF TidyRow, TidyPlain
      <4> QED BY <4>1, <4>2, <4>3, <4>4 DEF TidyRow
    <3>11. One(p, w, c)
      BY <3>3, <3>7, OneTrans
    <3>12. Tidy(w)
      BY <2>6, <3>10, <3>11, OneTidy
    <3>13. Tidy(t) /\ ~ t.ring
      BY <2>6, <3>2, <3>6, <3>8, <3>12, AsideTidy DEF SameTone
    <3>14. One(w, t, c)
      BY <3>8, AsideOne
    <3>15. One(e, t, c)
      BY <2>6, <3>11, <3>14, OneTrans
    <3>16. "recvonly" \notin Offers => Turns(s, t)
      BY <2>2, <2>4, <3>8, <3>15, OneTurns
    <3> QED BY <2>1, <2>7, <3>13, <3>16
  <2>8. Turns(s, p)
    BY <2>4, <2>5 DEF Turns, SameTone
  <2> QED BY <2>1, <2>6, <2>7, <2>8
<1> QED BY <1>1, <1>2

-----------------------------------------------------------------------------
(* Rows, field by field                                                    *)

\* Row r is row p but for the state, which was p's and is now new.
Moved(p, r, new) ==
  /\ r.state = new /\ r.prev = p.state
  /\ r.op = p.op /\ r.ct = p.ct /\ r.pend = p.pend /\ r.dir = p.dir /\ r.rmd = p.rmd
  /\ r.streams = p.streams /\ r.gathering = p.gathering /\ r.listed = p.listed
  /\ r.busy = p.busy /\ r.ack = p.ack

\* Row r is row p but for the media, which follow direction dir.
Streamed(p, r, dir) ==
  /\ r.dir = dir /\ r.streams = "on" /\ r.ack = "off"
  /\ r.state = p.state /\ r.prev = p.prev /\ r.op = p.op /\ r.ct = p.ct /\ r.pend = p.pend
  /\ r.rmd = p.rmd /\ r.gathering = p.gathering /\ r.listed = p.listed /\ r.busy = p.busy

\* Row r is row p but for what the operation says.
Signalled(p, r) ==
  /\ r.state = p.state /\ r.prev = p.prev /\ r.dir = p.dir /\ r.streams = p.streams
  /\ r.gathering = p.gathering /\ r.listed = p.listed /\ r.busy = p.busy /\ r.ack = p.ack

\* The call enters a state in which it is not over.
LEMMA EnterRow ==
  ASSUME NEW q \in CoreType, NEW c \in Call, NEW new \in CallState \ (Ended \cup {"Released"}),
         q.state[c] \notin Ended, q.state[c] # new
  PROVE  LET t == SetState(q, c, new)
         IN  One(q, t, c) /\ SameTone(q, t) /\ t \in CoreType /\ Moved(Row(q, c), Row(t, c), new)
<1> DEFINE t == SetState(q, c, new)
<1>1. Makes(q, t, c, [Row(q, c) EXCEPT !.prev = q.state[c], !.state = new]) /\ SameTone(q, t)
  BY SetStateMakes
<1> HIDE DEF t
<1>2. One(q, t, c) /\ t \in CoreType /\ Row(t, c) = [Row(q, c) EXCEPT !.prev = q.state[c], !.state = new]
  BY <1>1, MakesOne
<1>3. Moved(Row(q, c), Row(t, c), new)
  BY <1>2 DEF Moved, Row, RowOf
<1> QED BY <1>1, <1>2, <1>3 DEF t

\* The media of the call follow a description.
LEMMA StreamRow ==
  ASSUME NEW q \in CoreType, NEW c \in Call, NEW dir \in Dir
  PROVE  LET t == UpdateStreams(q, c, dir)
         IN  /\ One(q, t, c) /\ t \in CoreType /\ Streamed(Row(q, c), Row(t, c), dir)
             /\ t.current = q.current /\ (t.ring => q.ring /\ q.state[c] = "IncomingEarlyMedia")
<1> DEFINE t == UpdateStreams(q, c, dir)
<1>1. /\ Makes(q, t, c, [Row(q, c) EXCEPT !.dir = dir, !.ack = "off", !.streams = "on"])
      /\ t.current = q.current /\ (t.ring => q.ring /\ q.state[c] = "IncomingEarlyMedia")
  BY UpdateStreamsMakes
<1> HIDE DEF t
<1>2. One(q, t, c) /\ t \in CoreType /\ Row(t, c) = [Row(q, c) EXCEPT !.dir = dir, !.ack = "off", !.streams = "on"]
  BY <1>1, MakesOne
<1>3. Streamed(Row(q, c), Row(t, c), dir)
  BY <1>2 DEF Streamed, Row, RowOf
<1> QED BY <1>1, <1>2, <1>3 DEF t

\* The operation enters a phase; its request was answered; an offer was made.
LEMMA SignalRow ==
  ASSUME NEW q \in CoreType, NEW c \in Call
  PROVE  /\ \A op \in OpPhase :
              LET t == Operation(q, c, op)
              IN  /\ One(q, t, c) /\ SameTone(q, t) /\ t \in CoreType /\ Signalled(Row(q, c), Row(t, c))
                  /\ t.op[c] = op /\ t.ct[c] = q.ct[c] /\ t.pend[c] = q.pend[c] /\ t.rmd[c] = q.rmd[c]
         /\ LET t == RequestDone(q, c)
            IN  /\ One(q, t, c) /\ SameTone(q, t) /\ t \in CoreType /\ Signalled(Row(q, c), Row(t, c))
                /\ t.op[c] = q.op[c] /\ t.ct[c] = "none" /\ t.pend[c] = q.pend[c] /\ t.rmd[c] = q.rmd[c]
         /\ LET t == NothingPending(q, c)
            IN  /\ One(q, t, c) /\ SameTone(q, t) /\ t \in CoreType /\ Signalled(Row(q, c), Row(t, c))
                /\ t.op[c] = q.op[c] /\ t.ct[c] = q.ct[c] /\ t.pend[c] = {} /\ t.rmd[c] = q.rmd[c]
<1>1. ASSUME NEW op \in OpPhase
      PROVE  LET t == Operation(q, c, op)
             IN  /\ One(q, t, c) /\ SameTone(q, t) /\ t \in CoreType /\ Signalled(Row(q, c), Row(t, c))
                 /\ t.op[c] = op /\ t.ct[c] = q.ct[c] /\ t.pend[c] = q.pend[c] /\ t.rmd[c] = q.rmd[c]
  <2> DEFINE t == Operation(q, c, op)
             r == Row(t, c)
  <2>1. Makes(q, t, c, [Row(q, c) EXCEPT !.op = op]) /\ SameTone(q, t)
    BY OperationMakes
  <2> HIDE DEF t
  <2>2. One(q, t, c) /\ t \in CoreType /\ r = [Row(q, c) EXCEPT !.op = op]
    BY <2>1, MakesOne
  <2>3. /\ Signalled(Row(q, c), r) /\ r.op = op /\ r.ct = Row(q, c).ct /\ r.pend = Row(q, c).pend
        /\ r.rmd = Row(q, c).rmd
    BY <2>2 DEF Signalled, Row, RowOf
  <2>4. /\ t.op[c] = r.op /\ t.ct[c] = r.ct /\ t.pend[c] = r.pend /\ t.rmd[c] = r.rmd
        /\ q.op[c] = Row(q, c).op /\ q.ct[c] = Row(q, c).ct /\ q.pend[c] = Row(q, c).pend
        /\ q.rmd[c] = Row(q, c).rmd
    BY RowFields
  <2> QED BY <2>1, <2>2, <2>3, <2>4 DEF t
<1>2. LET t == RequestDone(q, c)
      IN  /\ One(q, t, c) /\ SameTone(q, t) /\ t \in CoreType /\ Signalled(Row(q, c), Row(t, c))
          /\ t.op[c] = q.op[c] /\ t.ct[c] = "none" /\ t.pend[c] = q.pend[c] /\ t.rmd[c] = q.rmd[c]
  <2> DEFINE t == RequestDone(q, c)
             r == Row(t, c)
  <2>1. Makes(q, t, c, [Row(q, c) EXCEPT !.ct = "none"]) /\ SameTone(q, t)
    BY DoneMakes
  <2> HIDE DEF t
  <2>2. One(q, t, c) /\ t \in CoreType /\ r = [Row(q, c) EXCEPT !.ct = "none"]
    BY <2>1, MakesOne
  <2>3. /\ Signalled(Row(q, c), r) /\ r.op = Row(q, c).op /\ r.ct = "none" /\ r.pend = Row(q, c).pend
        /\ r.rmd = Row(q, c).rmd
    BY <2>2 DEF Signalled, Row, RowOf
  <2>4. /\ t.op[c] = r.op /\ t.ct[c] = r.ct /\ t.pend[c] = r.pend /\ t.rmd[c] = r.rmd
        /\ q.op[c] = Row(q, c).op /\ q.ct[c] = Row(q, c).ct /\ q.pend[c] = Row(q, c).pend
        /\ q.rmd[c] = Row(q, c).rmd
    BY RowFields
  <2> QED BY <2>1, <2>2, <2>3, <2>4 DEF t
<1>3. LET t == NothingPending(q, c)
      IN  /\ One(q, t, c) /\ SameTone(q, t) /\ t \in CoreType /\ Signalled(Row(q, c), Row(t, c))
          /\ t.op[c] = q.op[c] /\ t.ct[c] = q.ct[c] /\ t.pend[c] = {} /\ t.rmd[c] = q.rmd[c]
  <2> DEFINE t == NothingPending(q, c)
             r == Row(t, c)
  <2>1. Makes(q, t, c, [Row(q, c) EXCEPT !.pend = {}]) /\ SameTone(q, t)
    BY DoneMakes
  <2> HIDE DEF t
  <2>2. One(q, t, c) /\ t \in CoreType /\ r = [Row(q, c) EXCEPT !.pend = {}]
    BY <2>1, MakesOne
  <2>3. /\ Signalled(Row(q, c), r) /\ r.op = Row(q, c).op /\ r.ct = Row(q, c).ct /\ r.pend = {}
        /\ r.rmd = Row(q, c).rmd
    BY <2>2 DEF Signalled, Row, RowOf
  <2>4. /\ t.op[c] = r.op /\ t.ct[c] = r.ct /\ t.pend[c] = r.pend /\ t.rmd[c] = r.rmd
        /\ q.op[c] = Row(q, c).op /\ q.ct[c] = Row(q, c).ct /\ q.pend[c] = Row(q, c).pend
        /\ q.rmd[c] = Row(q, c).rmd
    BY RowFields
  <2> QED BY <2>1, <2>2, <2>3, <2>4 DEF t
<1> QED BY <1>1, <1>2, <1>3

\* The far end has made an offer.
LEMMA OfferRow ==
  ASSUME NEW q \in CoreType, NEW c \in Call, NEW request \in PeerRequest, NEW offer \in Offer
  PROVE  LET t == OfferMade(q, c, request, offer)
         IN  /\ One(q, t, c) /\ SameTone(q, t) /\ t \in CoreType /\ Signalled(Row(q, c), Row(t, c))
             /\ t.op[c] = q.op[c] /\ t.ct[c] = q.ct[c] /\ t.pend[c] = q.pend[c] \cup {request}
             /\ t.rmd[c] = offer
<1> DEFINE t == OfferMade(q, c, request, offer)
           r == Row(t, c)
           p == q.pend[c] \cup {request}
<1>1. Makes(q, t, c, [Row(q, c) EXCEPT !.pend = p, !.rmd = offer]) /\ SameTone(q, t)
  BY OfferMadeMakes
<1> HIDE DEF t, p
<1>2. One(q, t, c) /\ t \in CoreType /\ r = [Row(q, c) EXCEPT !.pend = p, !.rmd = offer]
  BY <1>1, MakesOne
<1>3. /\ Signalled(Row(q, c), r) /\ r.op = Row(q, c).op /\ r.ct = Row(q, c).ct /\ r.pend = p
      /\ r.rmd = offer
  BY <1>2 DEF Signalled, Row, RowOf
<1>4. /\ t.op[c] = r.op /\ t.ct[c] = r.ct /\ t.pend[c] = r.pend /\ t.rmd[c] = r.rmd
      /\ q.op[c] = Row(q, c).op /\ q.ct[c] = Row(q, c).ct
  BY RowFields
<1> QED BY <1>1, <1>2, <1>3, <1>4 DEF t, p

-----------------------------------------------------------------------------
(* Answering                                                               *)

\* The loop of linphone_core_accept_call_with_params(): the calls that were being
\* placed are over.
LEMMA CancelOutgoingTidy ==
  ASSUME NEW s, NEW c \in Call, Consistent(s), Tidy(s)
  PROVE  LET t == CancelOutgoing(s, c)
         IN  /\ Tidy(t) /\ Row(t, c) = Row(s, c) /\ t \in CoreType
             /\ Turns(s, t) /\ (t.current = s.current \/ Quits(s, t)) /\ NoneStarts(s, t)
<1> DEFINE gone == {a \in s.calls \ {c} : s.state[a] \in Outgoing}
           x == AllClosing(s, gone)
           y == AllTerminated(x, gone)
           z == AllEnded(y, gone)
           t == StopRinging(z)
<1>1. s \in CoreType /\ gone \subseteq Call \ {c}
  BY DEF Consistent, CoreType
<1>2. CancelOutgoing(s, c) = IF gone = {} THEN s ELSE t
  BY DEF CancelOutgoing
<1>3. CASE gone = {}
  BY <1>1, <1>2, <1>3 DEF Turns, NoneStarts
<1>4. CASE gone # {}
  <2>1. \A a \in gone : a \in Call /\ CallFits(s, a) /\ TidyRow(Row(s, a)) /\ s.state[a] \in Outgoing
    BY <1>1 DEF Consistent, Tidy
  <2> HIDE DEF gone
  <2>2. x \in CoreType /\ y \in CoreType /\ z \in CoreType /\ t \in CoreType
    BY <1>1, AllClosingKeeps, AllTerminatedKeeps, AllEndedKeeps, RingKeeps DEF Keeps
  <2>3. /\ x.state = s.state /\ x.calls = s.calls /\ x.prev = s.prev /\ x.dir = s.dir
        /\ x.rmd = s.rmd /\ x.streams = s.streams /\ x.gathering = s.gathering /\ x.ackMedia = s.ackMedia
        /\ x.op = [a \in Call |-> IF a \notin gone THEN s.op[a]
                                  ELSE IF s.state[a] = "OutgoingInit" THEN "none"
                                  ELSE ClosingPhase(s.op[a])]
        /\ x.ct = [a \in Call |-> IF a \in gone THEN "none" ELSE s.ct[a]]
        /\ x.pend = [a \in Call |-> IF a \in gone THEN {} ELSE s.pend[a]]
        /\ \A a \in Call : x.busy[a] <=> s.busy[a] /\ ~ (a \in gone /\ s.state[a] = "OutgoingInit")
        /\ x.current = s.current
    BY <1>1 DEF AllClosing, CoreType
  <2> HIDE DEF x
  <2>4. /\ y.state = x.state /\ y.calls = x.calls \ gone /\ y.prev = x.prev /\ y.dir = x.dir
        /\ y.rmd = x.rmd /\ y.ackMedia = x.ackMedia
        /\ y.op = x.op /\ y.ct = x.ct /\ y.pend = x.pend /\ y.busy = x.busy
        /\ \A a \in Call : /\ (y.streams[a] <=> x.streams[a] /\ a \notin gone)
                           /\ (y.gathering[a] <=> x.gathering[a] /\ a \notin gone)
        /\ y.current = IF x.current \in gone THEN NoCall ELSE x.current
    <3> DEFINE streams == [a \in Call |-> x.streams[a] /\ a \notin gone]
               gathering == [a \in Call |-> x.gathering[a] /\ a \notin gone]
               left == x.calls \ gone
               now == IF x.current \in gone THEN NoCall ELSE x.current
    <3>1. y = [x EXCEPT !.streams = streams, !.gathering = gathering, !.calls = left, !.current = now]
      BY DEF AllTerminated
    <3>2. \A a \in Call : /\ (streams[a] <=> x.streams[a] /\ a \notin gone)
                          /\ (gathering[a] <=> x.gathering[a] /\ a \notin gone)
      OBVIOUS
    <3> HIDE DEF y, streams, gathering, left, now
    <3>3. /\ y.state = x.state /\ y.calls = left /\ y.prev = x.prev /\ y.dir = x.dir
          /\ y.rmd = x.rmd /\ y.ackMedia = x.ackMedia
          /\ y.op = x.op /\ y.ct = x.ct /\ y.pend = x.pend /\ y.busy = x.busy
          /\ y.streams = streams /\ y.gathering = gathering /\ y.current = now
      BY <2>2, <3>1 DEF CoreType
    <3> QED BY <3>2, <3>3 DEF left, now
  <2> HIDE DEF y
  <2>5. /\ z.state = [a \in Call |-> IF a \in gone THEN "End" ELSE y.state[a]]
        /\ z.prev = [a \in Call |-> IF a \in gone THEN y.state[a] ELSE y.prev[a]]
        /\ z.calls = y.calls /\ z.dir = y.dir /\ z.rmd = y.rmd /\ z.ackMedia = y.ackMedia
        /\ z.op = y.op /\ z.ct = y.ct /\ z.pend = y.pend /\ z.busy = y.busy
        /\ z.streams = y.streams /\ z.gathering = y.gathering /\ z.current = y.current
    BY ZenonT(60), <2>2 DEF AllEnded, CoreType
  <2> HIDE DEF z
  <2>6. /\ t.state = z.state /\ t.prev = z.prev /\ t.calls = z.calls /\ t.dir = z.dir
        /\ t.rmd = z.rmd /\ t.ackMedia = z.ackMedia
        /\ t.op = z.op /\ t.ct = z.ct /\ t.pend = z.pend /\ t.busy = z.busy
        /\ t.streams = z.streams /\ t.gathering = z.gathering /\ t.current = z.current
    BY <2>2 DEF StopRinging, CoreType
  <2> HIDE DEF t
  <2>7. ASSUME NEW d \in Call \ gone PROVE Row(t, d) = Row(s, d)
    <3>1. /\ t.state[d] = s.state[d] /\ t.prev[d] = s.prev[d] /\ (d \in t.calls <=> d \in s.calls)
          /\ t.dir[d] = s.dir[d] /\ t.rmd[d] = s.rmd[d] /\ t.op[d] = s.op[d]
          /\ t.ct[d] = s.ct[d] /\ t.pend[d] = s.pend[d]
      BY <2>3, <2>4, <2>5, <2>6
    <3>2. /\ On(t.ackMedia[d]) = On(s.ackMedia[d]) /\ On(t.busy[d]) = On(s.busy[d])
          /\ On(t.streams[d]) = On(s.streams[d]) /\ On(t.gathering[d]) = On(s.gathering[d])
          /\ On(d \in t.calls) = On(d \in s.calls)
      BY <2>3, <2>4, <2>5, <2>6 DEF On
    <3> QED BY <3>1, <3>2 DEF Row, RowOf
  <2>8. ASSUME NEW d \in gone PROVE TidyRow(Row(t, d))
    <3>1. d \in Call /\ CallFits(s, d) /\ TidyRow(Row(s, d)) /\ s.state[d] \in Outgoing
      BY <2>1
    <3>2. t.state[d] = "End" /\ t.ct[d] = "none" /\ ~ t.streams[d] /\ ~ t.gathering[d]
      BY <2>3, <2>4, <2>5, <2>6, <3>1
    <3>3. t.op[d] = IF s.state[d] = "OutgoingInit" THEN "none" ELSE ClosingPhase(s.op[d])
      BY <2>3, <2>4, <2>5, <2>6, <3>1
    <3>4. t.op[d] \in {"cancelling", "terminating"} \/ (UseIce /\ t.op[d] = "none")
      <4>1. CASE s.state[d] = "OutgoingInit"
        BY <3>1, <3>3, <4>1, RowFields DEF TidyRow, TidyPlain
      <4>2. CASE s.state[d] # "OutgoingInit"
        <5>1. s.op[d] \in {"inviting", "early"}
          BY <3>1, <4>2 DEF CallFits, OpFits, AwaitingAnswer
        <5> QED BY <3>3, <4>2, <5>1 DEF ClosingPhase
      <4> QED BY <4>1, <4>2
    <3>5. ~ s.busy[d] /\ ~ s.ackMedia[d]
      BY <3>1 DEF TidyRow, TidyPlain, Row, RowOf, On
    <3>6. ~ t.busy[d] /\ ~ t.ackMedia[d]
      BY <2>3, <2>4, <2>5, <2>6, <3>1, <3>5
    <3> DEFINE r == Row(t, d)
    <3>7. /\ r.state = "End" /\ r.op = t.op[d] /\ r.ct = "none" /\ r.streams = "off"
          /\ r.gathering = "off" /\ r.busy = "off" /\ r.ack = "off"
      BY <3>2, <3>6 DEF Row, RowOf, On
    <3> HIDE DEF r
    <3>8. TidyRow(r)
      BY <3>4, <3>7, EndedTidy DEF Ended
    <3> QED BY <3>8 DEF r
  <2>9. Tidy(t)
    BY <2>7, <2>8 DEF Tidy
  <2>10. \A d \in Call : t.state[d] = IF d \in gone THEN "End" ELSE s.state[d]
    BY <2>3, <2>4, <2>5, <2>6
  <2>11. t.current = IF s.current \in gone THEN NoCall ELSE s.current
    BY <2>3, <2>4, <2>5, <2>6
  <2>12. Turns(s, t) /\ (t.current = s.current \/ Quits(s, t)) /\ NoneStarts(s, t)
    BY <2>1, <2>10, <2>11 DEF Turns, Quits, NoneStarts
  <2> QED BY <1>1, <1>2, <1>4, <2>2, <2>7, <2>9, <2>12
<1> QED BY <1>3, <1>4

\* What precedes the answer leaves the call as it was, and the tone silent.
LEMMA PrepareAcceptTidy ==
  ASSUME NEW s, NEW c \in Call, Consistent(s), Tidy(s), s.state[c] \in Alerting
  PROVE  LET t == PrepareAccept(s, c)
         IN  /\ Tidy(t) /\ Row(t, c) = Row(s, c) /\ t \in CoreType /\ ~ t.ring
             /\ "recvonly" \notin Offers => s.current = c \/ Quits(s, t)
<1> DEFINE o == CancelOutgoing(s, c)
           d == o.replaces[c]
           r == IF ReplacesLive(o, c) THEN TerminateCall(o, d) ELSE o
           p == IF r.current # c THEN Preempt(r) ELSE r
           t == StopRinging(p)
<1>1. PrepareAccept(s, c) = t
  BY DEF PrepareAccept
<1>2. /\ Tidy(o) /\ Row(o, c) = Row(s, c) /\ o \in CoreType /\ Consistent(o)
      /\ (o.current = s.current \/ Quits(s, o))
  BY CancelOutgoingTidy, CancelOutgoingLeads DEF Leads
<1> HIDE DEF o
<1>3. /\ Tidy(r) /\ Row(r, c) = Row(s, c) /\ r \in CoreType /\ Consistent(r)
      /\ NoneStarts(o, r) /\ (r.current = o.current \/ Quits(o, r))
  <2>1. CASE ~ ReplacesLive(o, c)
    BY <1>2, <2>1 DEF NoneStarts
  <2>2. CASE ReplacesLive(o, c)
    <3>1. d \in Call \ {c} /\ o.op[d] # "none"
      BY <1>2, <2>2 DEF ReplacesLive, Consistent, CallFits, CoreType
    <3>2. Tidy(r) /\ One(o, r, d) /\ r.state[d] \in Ended
      BY <1>2, <2>2, <3>1, TerminateCallTidy
    <3>3. o.state[d] = "Idle" => o.op[d] = "ringing"
      BY <1>2, <3>1 DEF Consistent, CallFits, OpFits
    <3>4. Consistent(r)
      BY <1>2, <2>2, <3>1, <3>3, TerminateCallLeads DEF Leads
    <3>5. r.current = o.current \/ Quits(o, r)
      BY <1>2, <2>2, <3>1, <3>2, TerminateCallElsewhere DEF Quits, Ended
    <3>6. NoneStarts(o, r)
      BY <3>1, <3>2, OneStarts DEF Ended
    <3> QED BY <1>2, <3>1, <3>2, <3>4, <3>5, <3>6 DEF One
  <2> QED BY <2>1, <2>2
<1> HIDE DEF r
<1>4. /\ Tidy(p) /\ Row(p, c) = Row(s, c) /\ p \in CoreType
      /\ NoneStarts(r, p) /\ ("recvonly" \notin Offers /\ r.current # c => Quits(r, p))
  <2>1. r.state[c] \notin {"StreamsRunning", "PausedByRemote"}
    BY <1>3, RowParts DEF Alerting
  <2> QED BY <1>3, <2>1, PreemptTidy DEF NoneStarts
<1> HIDE DEF p
<1>5. Aside(p, t) /\ ~ t.ring
  BY <1>4, RingAside
<1> HIDE DEF t
<1>6. Tidy(t) /\ Row(t, c) = Row(s, c) /\ t \in CoreType
  BY <1>4, <1>5, AsideTidy, AsideOne
<1>7. ASSUME "recvonly" \notin Offers, s.current # c PROVE Quits(s, t)
  <2>1. Quits(s, p)
    BY <1>2, <1>3, <1>4, <1>7, NoCallAssumption DEF Quits, NoneStarts, Consistent, CoreType
  <2>2. \A a \in Call : t.state[a] = p.state[a]
    BY <1>5, RowParts DEF Aside
  <2>3. s.current \in Call \cup {NoCall}
    BY DEF Consistent, CoreType
  <2> QED BY <2>1, <2>2, <2>3 DEF Quits
<1> QED BY <1>1, <1>5, <1>6, <1>7

\* The direction in which we answer an offer.
LEMMA OfferDirs ==
  ASSUME NEW offer \in Offer, offer # "nosdp"
  PROVE  /\ DirOfOffer(offer) \in Dir
         /\ HoldsUs(offer) => DirOfOffer(offer) \in HeldDir
         /\ ~ TakesUsBack(offer) => DirOfOffer(offer) \in HeldDir
         /\ Spoken(offer) => "recvonly" \in Offers \/ DirOfOffer(offer) \in {"sendrecv", "recvonly", "inactive"}
BY DEF Offer, Dir, DirOfOffer, HoldsUs, TakesUsBack, HasDir, HeldDir, Spoken

\* linphone_core_accept_early_media_with_params()
LEMMA AcceptEarlyMediaTidy ==
  ASSUME NEW s, NEW c \in Call, Consistent(s), Tidy(s), Reason(s), s.state[c] = "IncomingReceived"
  PROVE  LET t == AcceptEarlyMediaCall(s, c)
         IN  /\ Tidy(t) /\ Reason(t) /\ t.state[c] = "IncomingEarlyMedia" /\ t.current = s.current
<1> DEFINE e == SetState(s, c, "IncomingEarlyMedia")
           dir == DirOfOffer(s.rmd[c])
           t == UpdateStreams(e, c, dir)
           o == Row(s, c)
           p == Row(e, c)
           r == Row(t, c)
<1>1. s \in CoreType /\ CallFits(s, c) /\ TidyRow(o)
  BY DEF Consistent, Tidy
<1>2. s.op[c] = "ringing" /\ c \in s.calls
  BY <1>1 DEF CallFits, OpFits, ListFits, Alerting, Live, CallState, Ended
<1>3. s.rmd[c] # "nosdp" /\ s.rmd[c] \in Offer
  BY <1>1, <1>2, RowFields DEF TidyRow, TidyPlain, CoreType
<1>4. AcceptEarlyMediaCall(s, c) = t
  BY <1>3 DEF AcceptEarlyMediaCall
<1>5. dir \in Dir
  BY <1>3, OfferDirs
<1>6. One(s, e, c) /\ SameTone(s, e) /\ e \in CoreType /\ Moved(o, p, "IncomingEarlyMedia")
  BY <1>1, EnterRow DEF CallState, Ended
<1> HIDE DEF e, dir
<1>7. /\ One(e, t, c) /\ t \in CoreType /\ Streamed(p, r, dir)
      /\ t.current = e.current /\ (t.ring => e.ring)
  BY <1>5, <1>6, StreamRow
<1> HIDE DEF t
<1>8. One(s, t, c)
  BY <1>6, <1>7, OneTrans
<1>9. /\ o.state = "IncomingReceived" /\ o.op = "ringing" /\ o.listed = "on"
      /\ o.rmd # "nosdp"
  BY <1>2, <1>3, RowFields
<1>10. t.op[c] = r.op /\ (c \in t.calls <=> r.listed = "on") /\ t.state[c] = r.state
  BY RowFields
<1> HIDE DEF o, p, r
<1>11. /\ r.state = "IncomingEarlyMedia" /\ r.op = "ringing" /\ r.listed = "on" /\ r.ct = o.ct
       /\ r.busy = o.busy /\ r.ack = "off" /\ r.rmd = o.rmd
  BY <1>6, <1>7, <1>9 DEF Moved, Streamed
<1>12. TidyRow(r)
  BY <1>1, <1>9, <1>11 DEF TidyRow, TidyEnd, TidyHold, TidyRequest, TidyPlain, Rests, Ended, Transient
<1>13. Tidy(t)
  BY <1>8, <1>12, OneTidy DEF r
<1>14. Reason(t)
  BY <1>1, <1>2, <1>6, <1>7, <1>8, <1>10, <1>11, ReasonStays DEF SameTone
<1>15. t.current = s.current
  BY <1>6, <1>7 DEF SameTone
<1> QED BY <1>4, <1>10, <1>11, <1>13, <1>14, <1>15 DEF t

\* linphone_core_accept_call_with_params(): the call runs, with the media of the offer.
LEMMA AcceptCallTidy ==
  ASSUME NEW s, NEW c \in Call, Consistent(s), Tidy(s), s.state[c] \in Alerting
  PROVE  LET t == AcceptCall(s, c, FALSE)
         IN  Tidy(t) /\ ~ t.ring /\ ("recvonly" \notin Offers => Turns(s, t))
<1> DEFINE p == PrepareAccept(s, c)
           a == SalAccept(p, c)
           m == MakeCurrent(a, c)
           k == SetState(m, c, "Connected")
           dir == DirOfOffer(s.rmd[c])
           u == UpdateStreams(k, c, dir)
           t == SetState(u, c, "StreamsRunning")
<1>1. s \in CoreType /\ CallFits(s, c) /\ TidyRow(Row(s, c))
  BY DEF Consistent, Tidy
<1>2. s.op[c] = "ringing" /\ s.pend[c] = {"invite"} /\ s.state[c] \notin Transient
  BY <1>1 DEF CallFits, OpFits, OfferFits, Alerting, Transient
<1>3. s.rmd[c] # "nosdp" /\ s.rmd[c] \in Offer /\ s.ct[c] = "none"
  BY <1>1, <1>2, RowFields DEF TidyRow, TidyPlain, TidyRequest, CoreType
<1>4. AcceptCall(s, c, FALSE) = t
  BY <1>3 DEF AcceptCall
<1>5. dir \in Dir /\ ("recvonly" \in Offers \/ dir \in {"sendrecv", "recvonly", "inactive"})
  <2>1. Spoken(s.rmd[c])
    BY <1>1, <1>2, RowFields DEF TidyRow, TidyHold
  <2> QED BY <1>3, <2>1, OfferDirs
<1>6. /\ Tidy(p) /\ Row(p, c) = Row(s, c) /\ p \in CoreType /\ ~ p.ring
      /\ "recvonly" \notin Offers => s.current = c \/ Quits(s, p)
  BY PrepareAcceptTidy
<1>7. p.op[c] = "ringing" /\ p.pend[c] = {"invite"} /\ p.state[c] = s.state[c]
  BY <1>2, <1>6, RowParts
<1> HIDE DEF p, dir
<1>8. Makes(p, a, c, [Row(p, c) EXCEPT !.pend = {}, !.op = "active"]) /\ SameTone(p, a)
  BY <1>6, <1>7, SalAcceptMakes
<1> HIDE DEF a
<1>9. One(p, a, c) /\ a \in CoreType /\ Row(a, c) = [Row(p, c) EXCEPT !.pend = {}, !.op = "active"]
  BY <1>8, MakesOne
<1>10. Aside(a, m) /\ m.ring = a.ring /\ m.current = c
  BY <1>9, CurrentAside
<1> HIDE DEF m
<1>11. One(a, m, c) /\ Row(m, c) = Row(a, c) /\ m \in CoreType
  BY <1>10, AsideOne
<1> DEFINE o == Row(s, c)
           x == Row(m, c)
<1>12. /\ x.state = o.state /\ x.op = "active" /\ x.ct = o.ct /\ x.rmd = o.rmd /\ x.busy = o.busy
       /\ x.listed = o.listed /\ x.gathering = o.gathering
  <2> DEFINE v == Row(p, c)
             w == Row(a, c)
  <2>1. /\ w.state = v.state /\ w.op = "active" /\ w.ct = v.ct /\ w.rmd = v.rmd /\ w.busy = v.busy
        /\ w.listed = v.listed /\ w.gathering = v.gathering
    BY <1>9 DEF Row, RowOf
  <2> HIDE DEF v, w, x, o
  <2>2. v = o /\ x = w
    BY <1>6, <1>11 DEF v, w, x, o
  <2> QED BY <2>1, <2>2
<1>13. m.state[c] = s.state[c]
  BY <1>12, RowFields
<1>14. One(m, k, c) /\ SameTone(m, k) /\ k \in CoreType /\ Moved(x, Row(k, c), "Connected")
  BY <1>1, <1>11, <1>13, EnterRow DEF Alerting, CallState, Ended
<1> HIDE DEF k, x
<1> DEFINE y == Row(k, c)
<1>15. /\ One(k, u, c) /\ u \in CoreType /\ Streamed(y, Row(u, c), dir) /\ (u.ring => k.ring)
       /\ u.current = k.current
  BY <1>5, <1>14, StreamRow
<1> HIDE DEF u
<1> DEFINE z == Row(u, c)
<1>16. z.state = "Connected"
  BY <1>14, <1>15 DEF Moved, Streamed
<1>17. u.state[c] = "Connected"
  BY <1>16, RowFields
<1>18. One(u, t, c) /\ SameTone(u, t) /\ t \in CoreType /\ Moved(z, Row(t, c), "StreamsRunning")
  BY <1>15, <1>17, EnterRow DEF CallState, Ended
<1> HIDE DEF t
<1> DEFINE r == Row(t, c)
<1>19. o.ct = "none"
  BY <1>3, RowFields
<1>20. o.listed \in {"on", "off"} /\ (o.listed = "off" => o.gathering = "off")
  BY <1>1, RowFields DEF TidyRow, TidyEnd
<1>21. o.listed = "on"
  BY <1>1, <1>2, RowFields DEF CallFits, ListFits, Alerting, Live, CallState, Ended
<1>22. TidyRow(o)
  BY <1>1
<1> HIDE DEF o, y, z, r
<1>23. /\ r.state = "StreamsRunning" /\ r.op = "active" /\ r.ct = "none" /\ r.listed = "on"
       /\ r.busy = o.busy /\ r.ack = "off" /\ r.dir = dir
  BY <1>12, <1>14, <1>15, <1>18, <1>19, <1>21 DEF Moved, Streamed, y, z, r, x
<1>24. TidyRow(r)
  BY <1>5, <1>22, <1>23 DEF TidyRow, TidyEnd, TidyHold, TidyRequest, TidyPlain, Rests, Ended, Transient
<1>25. One(p, t, c)
  BY <1>9, <1>11, <1>14, <1>15, <1>18, OneTrans
<1>26. Tidy(t)
  BY <1>6, <1>24, <1>25, OneTidy DEF r
<1>27. ~ t.ring
  BY <1>6, <1>8, <1>10, <1>14, <1>15, <1>18 DEF SameTone
<1>28. t.current = c
  BY <1>10, <1>14, <1>15, <1>18 DEF SameTone
<1>29. "recvonly" \notin Offers => Turns(s, t)
  BY <1>1, <1>6, <1>25, <1>28, OneTurns DEF Turns
<1> QED BY <1>4, <1>26, <1>27, <1>29 DEF t

-----------------------------------------------------------------------------
(* Announcing a call                                                       *)

\* All the other calls are tidy.
Almost(s, c) == \A d \in Call \ {c} : TidyRow(Row(s, d))

\* Once the call that comes is tidy, they all are.
LEMMA AlmostTidy ==
  ASSUME NEW s, NEW t, NEW c \in Call, Almost(s, c), One(s, t, c), TidyRow(Row(t, c))
  PROVE  Tidy(t)
BY DEF Tidy, Almost, One

\* A call that was received and is not announced yet.
Comes(s, c) ==
  /\ s.state[c] = "Idle" /\ s.op[c] = "ringing" /\ s.rmd[c] # "nosdp" /\ Spoken(s.rmd[c])
  /\ Row(s, c).busy = "off" /\ Row(s, c).ack = "off"

\* The call enters IncomingReceived; the tone is for it, if nothing else goes on.
LEMMA AnnounceTidy ==
  ASSUME NEW s, NEW c \in Call, Consistent(s), Almost(s, c), Reason(s), Comes(s, c)
  PROVE  LET t == Announce(s, c)
         IN  /\ Tidy(t) /\ Reason(t) /\ t.state[c] = "IncomingReceived"
             /\ t.current = s.current \/ (t.current = c /\ s.calls = {c})
<1>1. s \in CoreType /\ CallFits(s, c) /\ s.state[c] = "Idle"
  BY DEF Consistent, Comes
<1>2. c \in s.calls /\ s.ct[c] = "none" /\ s.op[c] = "ringing"
  BY <1>1 DEF CallFits, ListFits, RequestFits, Comes
<1>3. ASSUME NEW q \in CoreType, Aside(s, q)
      PROVE  LET t == SetState(q, c, "IncomingReceived")
             IN  /\ Tidy(t) /\ One(s, t, c) /\ SameTone(q, t) /\ t.state[c] = "IncomingReceived"
                 /\ t.op[c] = "ringing" /\ c \in t.calls
  <2> DEFINE t == SetState(q, c, "IncomingReceived")
             o == Row(s, c)
             r == Row(t, c)
  <2>1. One(s, q, c) /\ Row(q, c) = o /\ q.state[c] = "Idle"
    BY <1>1, <1>3, AsideOne, RowParts
  <2>2. One(q, t, c) /\ SameTone(q, t) /\ Moved(Row(q, c), r, "IncomingReceived")
    BY <1>3, <2>1, EnterRow DEF CallState, Ended
  <2> HIDE DEF t
  <2>3. One(s, t, c)
    BY <2>1, <2>2, OneTrans
  <2>4. /\ o.op = "ringing" /\ o.ct = "none" /\ o.listed = "on" /\ o.rmd # "nosdp" /\ Spoken(o.rmd)
        /\ o.busy = "off" /\ o.ack = "off"
    BY <1>2, RowFields DEF Comes
  <2>5. t.op[c] = r.op /\ (c \in t.calls <=> r.listed = "on") /\ t.state[c] = r.state
    BY RowFields
  <2>6. /\ r.state = "IncomingReceived" /\ r.op = "ringing" /\ r.ct = "none" /\ r.listed = "on"
        /\ r.rmd # "nosdp" /\ Spoken(r.rmd) /\ r.busy = "off" /\ r.ack = "off"
    BY <2>1, <2>2, <2>4 DEF Moved
  <2> HIDE DEF r, o
  <2>7. TidyRow(r)
    BY <2>6 DEF TidyRow, TidyEnd, TidyHold, TidyRequest, TidyPlain, Rests, Ended, Transient
  <2>8. Tidy(t)
    BY <2>3, <2>7, AlmostTidy DEF r
  <2> QED BY <2>2, <2>3, <2>5, <2>6, <2>8 DEF t
<1>4. CASE s.calls = {c}
  <2> DEFINE m == MakeCurrent(s, c)
             g == StartRinging(m)
             t == SetState(g, c, "IncomingReceived")
  <2>1. Announce(s, c) = t
    BY <1>4 DEF Announce
  <2>2. Aside(s, m) /\ m.current = c /\ m \in CoreType
    BY <1>1, CurrentAside DEF Aside
  <2> HIDE DEF m
  <2>3. Aside(m, g) /\ g.current = c
    BY <2>2, RingAside
  <2> HIDE DEF g
  <2>4. Aside(s, g) /\ g \in CoreType
    BY <2>2, <2>3 DEF Aside
  <2>5. /\ Tidy(t) /\ One(s, t, c) /\ SameTone(g, t) /\ t.state[c] = "IncomingReceived"
        /\ t.op[c] = "ringing" /\ c \in t.calls
    BY <1>3, <2>4
  <2> HIDE DEF t
  <2>6. t.calls = {c}
    <3>1. t.calls \subseteq Call /\ \A d \in Call \ {c} : d \in t.calls <=> d \in s.calls
      BY <2>5, RowParts DEF One, CoreType
    <3> QED BY <1>4, <2>5, <3>1
  <2>7. Called(t)
    BY <2>3, <2>5, <2>6 DEF Called, SameTone
  <2> QED BY <1>4, <2>1, <2>3, <2>5, <2>7 DEF Reason, SameTone
<1>5. CASE s.calls # {c}
  <2> DEFINE t == SetState(s, c, "IncomingReceived")
  <2>1. Announce(s, c) = t
    BY <1>5 DEF Announce
  <2>2. Aside(s, s)
    BY <1>1, RingAside
  <2>3. /\ Tidy(t) /\ One(s, t, c) /\ SameTone(s, t) /\ t.state[c] = "IncomingReceived"
        /\ t.op[c] = "ringing" /\ c \in t.calls
    BY <1>1, <1>3, <2>2
  <2> HIDE DEF t
  <2>4. Reason(t)
    BY <1>1, <1>2, <2>3, ReasonStays DEF SameTone
  <2> QED BY <2>1, <2>3, <2>4 DEF SameTone
<1> QED BY <1>4, <1>5

\* linphone_core_notify_incoming_call()
LEMMA NotifyIncomingTidy ==
  ASSUME NEW s, NEW c \in Call, Consistent(s), Almost(s, c), Reason(s), Comes(s, c)
  PROVE  LET t == NotifyIncoming(s, c, FALSE)
         IN  /\ Tidy(t) /\ Reason(t)
             /\ "recvonly" \notin Offers /\ s.current \in s.calls \cup {NoCall} => Turns(s, t)
<1> DEFINE i == Announce(s, c)
           e == IF EarlyMedia THEN AcceptEarlyMediaCall(i, c) ELSE i
           t == AcceptCall(e, c, FALSE)
<1>1. NotifyIncoming(s, c, FALSE) \in {i, e, t} /\ (ReplacesLive(e, c) \/ NotifyIncoming(s, c, FALSE) \in {i, e})
  BY DEF NotifyIncoming
<1>2. /\ Tidy(i) /\ Reason(i) /\ i.state[c] = "IncomingReceived"
      /\ i.current = s.current \/ (i.current = c /\ s.calls = {c})
  BY AnnounceTidy
<1>3. Consistent(i)
  BY AnnounceLeads DEF Leads, Comes
<1> HIDE DEF i
<1>4. Tidy(e) /\ Reason(e) /\ e.state[c] \in Alerting /\ e.current = i.current
  BY <1>2, <1>3, AcceptEarlyMediaTidy DEF Alerting
<1>5. Consistent(e)
  BY <1>2, <1>3, AcceptEarlyMediaCallLeads DEF Leads
<1> HIDE DEF e
<1>6. Tidy(t) /\ ~ t.ring /\ ("recvonly" \notin Offers => Turns(e, t))
  BY <1>4, <1>5, AcceptCallTidy
<1> HIDE DEF t
<1>7. Reason(t)
  BY <1>6 DEF Reason
<1>8. ASSUME "recvonly" \notin Offers, s.current \in s.calls \cup {NoCall}
      PROVE  Turns(s, i) /\ Turns(s, e) /\ Turns(s, t)
  <2>1. CASE i.current = s.current
    BY <1>4, <1>6, <1>8, <2>1 DEF Turns, Quits
  <2>2. CASE s.current = NoCall
    BY <2>2 DEF Turns, Quits
  <2>3. CASE i.current # s.current /\ s.current # NoCall
    BY <1>2, <1>8, <2>3
  <2> QED BY <2>1, <2>2, <2>3
<1> QED BY <1>1, <1>2, <1>4, <1>6, <1>7, <1>8

\* call_received(): a call that comes takes nothing from those that are there.
LEMMA CallReceivedTidy ==
  ASSUME NEW s, NEW c \in Call, NEW offer \in Offer \ {"nosdp"}, offer \in Offers, NEW replaced \in (Call \ {c}) \cup {NoCall},
         Consistent(s), Tidy(s), Reason(s), s.state[c] = "Idle", s.op[c] = "none"
  PROVE  LET t == CallReceived(s, c, offer, replaced, FALSE)
         IN  /\ Tidy(t) /\ Reason(t)
             /\ "recvonly" \notin Offers /\ s.current \in s.calls \cup {NoCall} => Turns(s, t)
<1> DEFINE a == AddCall(s, c, "ringing")
           o == OfferMade(a, c, "invite", offer)
           n == Replacing(o, c, replaced)
           x == Row(s, c)
           r == Row(n, c)
<1>1. s \in CoreType /\ CallFits(s, c) /\ TidyRow(x) /\ "ringing" \in OpPhase /\ "invite" \in PeerRequest
  BY DEF Consistent, Tidy, OpPhase, PeerRequest
<1>2. CallReceived(s, c, offer, replaced, FALSE) = IF UseIce THEN n ELSE NotifyIncoming(n, c, FALSE)
  BY DEF CallReceived
<1>3. Consistent(n) /\ n.state[c] = "Idle" /\ n.op[c] = "ringing"
  BY ReceivedLeads DEF Leads
<1>4. c \notin s.calls /\ s.ct[c] = "none"
  BY <1>1 DEF CallFits, ListFits, RequestFits, Live
<1>5. Makes(s, a, c, [x EXCEPT !.listed = "on", !.op = "ringing", !.gathering = On(UseIce)])
      /\ SameTone(s, a)
  BY <1>1, AddCallMakes
<1> HIDE DEF a
<1>6. /\ One(s, a, c) /\ a \in CoreType
      /\ Row(a, c) = [x EXCEPT !.listed = "on", !.op = "ringing", !.gathering = On(UseIce)]
  BY <1>5, MakesOne
<1>7. /\ One(a, o, c) /\ SameTone(a, o) /\ o \in CoreType /\ Signalled(Row(a, c), Row(o, c))
      /\ o.rmd[c] = offer /\ o.ct[c] = a.ct[c]
  BY <1>1, <1>6, OfferRow
<1> HIDE DEF o
<1>8. Aside(o, n) /\ SameTone(o, n)
  BY <1>7, LogAside
<1> HIDE DEF n
<1>9. One(o, n, c) /\ Row(n, c) = Row(o, c)
  BY <1>8, AsideOne
<1>10. One(s, n, c)
  BY <1>6, <1>7, <1>9, OneTrans
<1>11. /\ r.listed = "on" /\ r.busy = x.busy /\ r.ack = x.ack
  <2> DEFINE y == Row(a, c)
  <2>1. y.listed = "on" /\ y.busy = x.busy /\ y.ack = x.ack
    BY <1>6 DEF Row, RowOf
  <2> HIDE DEF y
  <2> QED BY <1>7, <1>9, <2>1 DEF Signalled, y
<1>12. n.rmd[c] = offer /\ n.ct[c] = "none"
  <2>1. Row(a, c).ct = x.ct
    BY <1>6 DEF Row, RowOf
  <2>2. a.ct[c] = s.ct[c]
    BY <2>1, RowFields
  <2> QED BY <1>4, <1>7, <1>9, <2>2, RowParts
<1>13. Comes(n, c)
  BY <1>1, <1>3, <1>11, <1>12 DEF Comes, TidyRow, TidyPlain, Spoken
<1>17. n.ring = s.ring /\ n.current = s.current
  BY <1>5, <1>7, <1>8 DEF SameTone
<1>14. Reason(n)
  <2>1. n.ring = s.ring /\ n.current = s.current
    BY <1>17
  <2>2. \A d \in Call \ {c} : /\ n.op[d] = s.op[d] /\ (d \in n.calls <=> d \in s.calls)
                              /\ n.state[d] = s.state[d]
    BY <1>10, RowParts DEF One
  <2>3. s.calls \subseteq Call /\ n.calls \subseteq Call
    BY <1>1, <1>10 DEF CoreType, One
  <2>4. Placing(s) => Placing(n)
    BY <1>4, <2>2, <2>3 DEF Placing
  <2>5. Called(s) => Called(n)
    BY <1>3, <1>4, <2>1, <2>2, <2>3 DEF Called
  <2> QED BY <2>1, <2>4, <2>5 DEF Reason
<1>15. CASE UseIce
  <2>1. r.state = "Idle" /\ r.op = "ringing" /\ r.ct = "none" /\ r.rmd # "nosdp" /\ Spoken(r.rmd)
    BY <1>3, <1>12, RowFields DEF Spoken
  <2> HIDE DEF r, x
  <2>2. TidyRow(r)
    BY <1>1, <1>11, <1>15, <2>1
    DEF TidyRow, TidyEnd, TidyHold, TidyRequest, TidyPlain, Rests, Ended, Transient
  <2>3. Tidy(n)
    BY <1>10, <2>2, OneTidy DEF r
  <2>4. Turns(s, n)
    BY <1>17 DEF Turns
  <2> QED BY <1>2, <1>14, <1>15, <2>3, <2>4 DEF n
<1>16. CASE ~ UseIce
  <2>1. Almost(n, c)
    BY <1>10 DEF Almost, Tidy, One
  <2> DEFINE t == NotifyIncoming(n, c, FALSE)
  <2>2. /\ Tidy(t) /\ Reason(t)
        /\ "recvonly" \notin Offers /\ n.current \in n.calls \cup {NoCall} => Turns(n, t)
    BY <1>3, <1>13, <1>14, <2>1, NotifyIncomingTidy
  <2> HIDE DEF t
  <2>3. s.calls \subseteq n.calls
    BY <1>1, <1>4, <1>10, RowParts DEF One, CoreType
  <2>4. "recvonly" \notin Offers /\ s.current \in s.calls \cup {NoCall} => Turns(s, t)
    BY <1>17, <2>2, <2>3 DEF Turns, Quits
  <2> QED BY <1>2, <1>16, <2>2, <2>4 DEF n, t
<1> QED BY <1>15, <1>16

-----------------------------------------------------------------------------
(* Placing a call                                                          *)

\* A change of state that neither ends nor releases the call keeps what it was made for.
LEMMA SetStateReferer ==
  ASSUME NEW q \in CoreType, NEW c \in Call, NEW new \in CallState \ (Ended \cup {"Released"})
  PROVE  SetState(q, c, new).referer = q.referer
<1>1. Remembered(q, c).referer = q.referer /\ StateIs(Remembered(q, c), c, new).referer = q.referer
  BY DEF Remembered, StateIs, CoreType
<1>2. LogStatus(StateIs(Remembered(q, c), c, new), c, "success").referer = q.referer
  <2> DEFINE x == StateIs(Remembered(q, c), c, new)
  <2>1. x \in CoreType
    BY RememberedKeeps, StateIsKeeps DEF Keeps
  <2> HIDE DEF x
  <2>2. LogStatus(x, c, "success").referer = x.referer
    BY <2>1 DEF LogStatus, CoreType
  <2> QED BY <1>1, <2>2 DEF x
<1> QED BY <1>1, <1>2 DEF SetState, Entered

\* linphone_core_start_invite() concerns one call, and not what it was made for.
LEMMA StartInviteOne ==
  ASSUME NEW q \in CoreType, NEW c \in Call, q.state[c] \in Outgoing
  PROVE  LET t == StartInvite(q, c, TRUE)
         IN  One(q, t, c) /\ t.current = q.current /\ t.referer = q.referer
<1> DEFINE p == Operation(q, c, "inviting")
           t == SetState(p, c, "OutgoingProgress")
<1>1. StartInvite(q, c, TRUE) = t
  BY DEF StartInvite
<1>2. /\ One(q, p, c) /\ p.current = q.current /\ p \in CoreType /\ p.referer = q.referer
      /\ p.state[c] = q.state[c]
  <2>1. "inviting" \in OpPhase
    BY DEF OpPhase
  <2>2. One(q, p, c) /\ p \in CoreType
    BY <2>1, SignalRow
  <2>3. p.current = q.current /\ p.referer = q.referer /\ p.state = q.state
    BY <2>1, OperationOnly
  <2> QED BY <2>2, <2>3
<1> HIDE DEF p
<1>3. t.referer = p.referer
  BY <1>2, SetStateReferer DEF CallState, Ended
<1>4. One(p, t, c) /\ t.current = p.current
  <2>1. CASE p.state[c] = "OutgoingProgress"
    BY <1>2, <2>1 DEF SetState, One
  <2>2. CASE p.state[c] # "OutgoingProgress"
    BY <1>2, <2>2, EnterRow DEF CallState, Ended, Outgoing, SameTone
  <2> QED BY <2>1, <2>2
<1> HIDE DEF t
<1>5. One(q, t, c)
  BY <1>2, <1>4, OneTrans
<1> QED BY <1>1, <1>2, <1>3, <1>4, <1>5

\* linphone_core_start_invite(), the INVITE being sent.
LEMMA StartInviteTidy ==
  ASSUME NEW s, NEW q \in CoreType, NEW c \in Call, Tidy(s), One(s, q, c),
         q.state[c] \in Outgoing, q.ct[c] = "none", c \in q.calls,
         Row(q, c).busy = "off", Row(q, c).ack = "off"
  PROVE  LET t == StartInvite(q, c, TRUE)
         IN  Tidy(t) /\ Placing(t) /\ SameTone(q, t)
<1> DEFINE p == Operation(q, c, "inviting")
           t == SetState(p, c, "OutgoingProgress")
           o == Row(q, c)
           x == Row(p, c)
           r == Row(t, c)
<1>1. StartInvite(q, c, TRUE) = t
  BY DEF StartInvite
<1>2. /\ One(q, p, c) /\ SameTone(q, p) /\ p \in CoreType /\ Signalled(o, x)
      /\ p.op[c] = "inviting" /\ p.ct[c] = q.ct[c]
  <2>1. "inviting" \in OpPhase
    BY DEF OpPhase
  <2> QED BY <2>1, SignalRow
<1> HIDE DEF p
<1>3. o.state \in Outgoing /\ o.ct = "none" /\ o.listed = "on"
  BY RowFields
<1>4. x.op = "inviting" /\ x.ct = "none" /\ p.state[c] = x.state
  BY <1>2, RowFields
<1>5. /\ One(p, t, c) /\ SameTone(p, t)
      /\ r.state = "OutgoingProgress" /\ r.op = "inviting" /\ r.ct = "none"
      /\ r.listed = "on" /\ r.busy = "off" /\ r.ack = "off"
  <2>1. CASE p.state[c] = "OutgoingProgress"
    <3>1. t = p /\ One(p, p, c)
      BY <1>2, <2>1 DEF SetState, One
    <3> QED BY <1>2, <1>3, <1>4, <2>1, <3>1 DEF Signalled, SameTone
  <2>2. CASE p.state[c] # "OutgoingProgress"
    <3>1. p.state[c] \notin Ended
      BY <1>2, <1>3, <1>4 DEF Signalled, Outgoing, Ended
    <3>2. One(p, t, c) /\ SameTone(p, t) /\ Moved(x, r, "OutgoingProgress")
      BY <1>2, <2>2, <3>1, EnterRow DEF CallState, Ended
    <3> HIDE DEF x, r, o
    <3> QED BY <1>2, <1>3, <1>4, <3>2 DEF Moved, Signalled, o
  <2> QED BY <2>1, <2>2
<1> HIDE DEF t
<1>6. One(s, t, c)
  BY <1>2, <1>5, OneTrans
<1>7. TidyRow(r)
  <2> HIDE DEF r
  <2> QED BY <1>5 DEF TidyRow, TidyEnd, TidyHold, TidyRequest, TidyPlain, Rests, Ended, Transient
<1>8. Tidy(t)
  BY <1>6, <1>7, OneTidy
<1>9. c \in t.calls /\ t.op[c] = "inviting"
  BY <1>5, RowFields
<1> QED BY <1>1, <1>2, <1>5, <1>8, <1>9 DEF SameTone, Placing, t

\* linphone_core_invite_address_with_params()
LEMMA InviteCallTidy ==
  ASSUME NEW s, NEW c \in Call, NEW ref \in Call \cup {NoCall},
         Consistent(s), Tidy(s), s.state[c] = "Idle", s.op[c] = "none"
  PROVE  LET t == InviteCall(s, c, ref, TRUE)
         IN  /\ Tidy(t) /\ ~ t.ring
             /\ t.current \in {s.current, NoCall} \/ (t.current = c /\ t.referer[c] = ref)
             /\ "recvonly" \notin Offers => Turns(s, t)
             /\ \A d \in Call \ {c} : t.state[d] = "StreamsRunning" => s.state[d] = "StreamsRunning"
<1> DEFINE p == Preempt(s)
           a == AddCall(p, c, "init")
           f == Referer(a, c, ref)
           m == MakeCurrent(f, c)
           i == SetState(m, c, "OutgoingInit")
           t == StartInvite(i, c, TRUE)
           o == Row(s, c)
           x == Row(a, c)
           r == Row(i, c)
<1>1. InviteCall(s, c, ref, TRUE) = IF ~ CanAddCall(p) THEN p ELSE IF UseIce THEN i ELSE t
  BY DEF InviteCall
<1>2. s \in CoreType /\ CallFits(s, c) /\ TidyRow(o)
  BY DEF Consistent, Tidy
<1>3. s.ct[c] = "none"
  BY <1>2 DEF CallFits, RequestFits
<1>4. /\ Tidy(p) /\ ~ p.ring /\ p \in CoreType /\ Row(p, c) = o
      /\ p.current \in {s.current, NoCall} /\ NoneStarts(s, p) /\ ("recvonly" \notin Offers => Quits(s, p))
  BY PreemptTidy
<1> HIDE DEF p
<1>5. Makes(p, a, c, [o EXCEPT !.listed = "on", !.op = "init", !.gathering = On(UseIce)])
      /\ SameTone(p, a)
  BY <1>4, AddCallMakes DEF OpPhase
<1> HIDE DEF a
<1>6. One(p, a, c) /\ a \in CoreType /\ x = [o EXCEPT !.listed = "on", !.op = "init", !.gathering = On(UseIce)]
  BY <1>5, MakesOne
<1>7. Aside(a, f) /\ SameTone(a, f) /\ f.referer[c] = ref
  BY <1>6, LogAside DEF Referer, CoreType
<1> HIDE DEF f
<1>8. One(a, f, c) /\ f \in CoreType /\ Row(f, c) = x
  BY <1>7, AsideOne
<1>9. Aside(f, m) /\ m.ring = f.ring /\ m.current = c /\ m.referer[c] = ref
  BY <1>7, <1>8, CurrentAside DEF MakeCurrent, CoreType
<1> HIDE DEF m
<1>10. One(f, m, c) /\ m \in CoreType /\ Row(m, c) = x
  BY <1>8, <1>9, AsideOne
<1>11. x.state = o.state /\ x.op = "init" /\ x.ct = o.ct /\ x.listed = "on" /\ x.busy = o.busy /\ x.ack = o.ack
  BY <1>6 DEF Row, RowOf
<1>12. m.state[c] = x.state /\ o.state = "Idle" /\ o.ct = "none"
  BY <1>3, <1>10, RowFields
<1>13. One(m, i, c) /\ SameTone(m, i) /\ i \in CoreType /\ Moved(x, r, "OutgoingInit")
  BY <1>10, <1>11, <1>12, EnterRow DEF CallState, Ended
<1>20. i.referer[c] = ref
  BY <1>9, <1>10, SetStateReferer DEF CallState, Ended
<1> HIDE DEF i
<1>14. One(p, i, c)
  BY <1>6, <1>8, <1>10, <1>13, OneTrans
<1>15. ~ i.ring
  BY <1>4, <1>5, <1>7, <1>9, <1>13 DEF SameTone
<1>16. i.state[c] = r.state /\ i.op[c] = r.op /\ i.ct[c] = r.ct /\ (c \in i.calls <=> r.listed = "on")
  BY RowFields
<1>17. /\ r.state = "OutgoingInit" /\ r.op = "init" /\ r.ct = "none" /\ r.listed = "on"
       /\ r.busy = "off" /\ r.ack = "off"
  <2> HIDE DEF r, x, o
  <2> QED BY <1>2, <1>11, <1>12, <1>13 DEF Moved, TidyRow, TidyPlain
<1>21. ASSUME NEW x1, One(p, x1, c), x1.current = c
       PROVE  /\ "recvonly" \notin Offers => Turns(s, x1)
              /\ \A d \in Call \ {c} : x1.state[d] = "StreamsRunning" => s.state[d] = "StreamsRunning"
  BY <1>2, <1>4, <1>21, OneTurns, OneStarts DEF NoneStarts
<1>22. Turns(s, p) /\ \A d \in Call \ {c} : p.state[d] = "StreamsRunning" => s.state[d] = "StreamsRunning"
  BY <1>4 DEF Turns, NoneStarts
<1>23. i.current = c
  BY <1>9, <1>13 DEF SameTone
<1>18. CASE UseIce
  <2>1. TidyRow(r)
    <3> HIDE DEF r
    <3> QED BY <1>17, <1>18 DEF TidyRow, TidyEnd, TidyHold, TidyRequest, TidyPlain, Rests, Ended, Transient
  <2>2. Tidy(i)
    BY <1>4, <1>14, <2>1, OneTidy
  <2> QED BY <1>1, <1>4, <1>14, <1>15, <1>18, <1>20, <1>21, <1>22, <1>23, <2>2 DEF p, a, f, m, i
<1>19. CASE ~ UseIce
  <2>1. i.state[c] \in Outgoing /\ i.ct[c] = "none" /\ c \in i.calls
    BY <1>16, <1>17 DEF Outgoing
  <2>2. Tidy(t) /\ SameTone(i, t)
    BY <1>4, <1>13, <1>14, <1>17, <2>1, StartInviteTidy
  <2>5. One(i, t, c) /\ t.referer = i.referer
    BY <1>13, <2>1, StartInviteOne
  <2> HIDE DEF t
  <2>3. ~ t.ring
    BY <1>15, <2>2 DEF SameTone
  <2>4. One(p, t, c) /\ t.current = c /\ t.referer[c] = ref
    BY <1>14, <1>20, <1>23, <2>2, <2>5, OneTrans DEF SameTone
  <2> QED BY <1>1, <1>4, <1>19, <1>21, <1>22, <2>2, <2>3, <2>4 DEF p, a, f, m, i, t
<1> QED BY <1>18, <1>19

\* refer_received(): the state to go back to is the one the call is in.
LEMMA ReferTidy ==
  ASSUME NEW s, NEW c \in Call, NEW n \in Call \ {c}, Consistent(s), Tidy(s),
         s.op[c] = "active", c \in s.calls, s.ct[c] = "none", s.pend[c] = {},
         s.state[n] = "Idle", s.op[n] = "none"
  PROVE  LET t == StartReferedCall(SetState(s, c, "Refered"), c, n, TRUE)
         IN  /\ Tidy(t) /\ ~ t.ring
             /\ "recvonly" \notin Offers => Turns(s, t) \/ t.referer[t.current] \notin {NoCall, s.current}
<1> DEFINE r == SetState(s, c, "Refered")
           q == PauseCall(r, c)
           p == IF r.state[c] = "Paused" THEN r ELSE AutoPaused(q, c, TRUE)
           t == InviteCall(p, n, c, TRUE)
           o == Row(s, c)
           x == Row(r, c)
<1>1. s \in CoreType /\ CallFits(s, c) /\ s.state[c] \in CallState /\ s.state[c] \notin Ended /\ "Refered" \notin CallState
      /\ TidyRow(o)
  BY PhaseStates DEF Consistent, CoreType, CallState, Tidy
<1>2. Consistent(r) /\ r.state = s.state /\ r.op = s.op /\ r.calls = s.calls
  BY ReferedLeads DEF Leads
<1>3. StartReferedCall(r, c, n, TRUE) = t
  BY DEF StartReferedCall
<1>4. Makes(s, r, c, [o EXCEPT !.prev = s.state[c]]) /\ SameTone(s, r)
  <2>1. r = Remembered(s, c)
    BY <1>1 DEF SetState
  <2>2. s.state[c] \in CallState
    BY <1>1
  <2> QED BY <1>1, <2>1, <2>2, StateIsMakes
<1> HIDE DEF r
<1>5. One(s, r, c) /\ x = [o EXCEPT !.prev = s.state[c]]
  BY <1>4, MakesOne
<1>6. /\ x.prev = s.state[c] /\ x.state = o.state /\ x.op = o.op /\ x.ct = o.ct /\ x.pend = o.pend
      /\ x.dir = o.dir /\ x.rmd = o.rmd /\ x.streams = o.streams /\ x.gathering = o.gathering
      /\ x.listed = o.listed /\ x.busy = o.busy /\ x.ack = o.ack
  BY <1>5 DEF Row, RowOf
<1>7. o.state = s.state[c] /\ o.ct = "none" /\ o.pend = {}
  BY RowFields
<1>8. TidyRow(x)
  <2> HIDE DEF x, o
  <2>1. TidyEnd(x)
    BY <1>1, <1>6 DEF TidyRow, TidyEnd
  <2>2. TidyHold(x)
    BY <1>1, <1>6, <1>7 DEF TidyRow, TidyHold, Rests, Transient
  <2>3. TidyRequest(x)
    BY <1>1, <1>6, <1>7 DEF TidyRow, TidyRequest
  <2>4. TidyPlain(x)
    BY <1>1, <1>6 DEF TidyRow, TidyPlain
  <2> QED BY <2>1, <2>2, <2>3, <2>4 DEF TidyRow
<1>9. Tidy(r)
  BY <1>5, <1>8, OneTidy
<1>10. /\ Tidy(q) /\ One(r, q, c) /\ Consistent(q)
       /\ q.current \in {r.current, NoCall} /\ ("recvonly" \notin Offers => q.state[c] # "StreamsRunning")
  BY <1>2, <1>9, PauseCallTidy, PauseCallLeads DEF Leads
<1> HIDE DEF q
<1>11. /\ Tidy(p) /\ One(r, p, c) /\ Consistent(p)
       /\ p.current = r.current
          \/ (p.current = NoCall /\ ("recvonly" \notin Offers => p.state[c] # "StreamsRunning"))
  <2> DEFINE w == AutoPaused(q, c, TRUE)
  <2>1. Aside(q, w) /\ Silent(q, w) /\ SameTone(q, w)
    BY <1>10, TaskAside, MediaIsSilent DEF One
  <2> HIDE DEF w
  <2>2. Tidy(w) /\ One(r, w, c) /\ Consistent(w)
    BY <1>10, <2>1, AsideTidy, AsideOne, OneTrans, SilentLeads DEF Leads
  <2>3. One(r, r, c)
    BY <1>2 DEF One, Consistent
  <2>4. w.current = q.current /\ w.state[c] = q.state[c]
    BY <2>1, RowParts DEF SameTone, Aside
  <2> QED BY <1>2, <1>9, <1>10, <2>2, <2>3, <2>4 DEF w
<1> HIDE DEF p
<1>12. p.state[n] = "Idle" /\ p.op[n] = "none"
  <2>1. Row(p, n) = Row(r, n)
    BY <1>11 DEF One
  <2> QED BY <1>2, <2>1, RowParts
<1>13. /\ Tidy(t) /\ ~ t.ring
       /\ t.current \in {p.current, NoCall} \/ (t.current = n /\ t.referer[n] = c)
       /\ "recvonly" \notin Offers => Turns(p, t)
       /\ \A d \in Call \ {n} : t.state[d] = "StreamsRunning" => p.state[d] = "StreamsRunning"
  <2>1. c \in Call \cup {NoCall} /\ n \in Call /\ Consistent(p) /\ Tidy(p)
    BY <1>11
  <2> QED BY <1>12, <2>1, InviteCallTidy
<1> HIDE DEF t
<1>14. ASSUME "recvonly" \notin Offers PROVE Turns(s, t) \/ t.referer[t.current] \notin {NoCall, s.current}
  <2>1. r.current = s.current
    BY <1>4 DEF SameTone
  <2>2. CASE p.current = s.current
    BY <1>13, <1>14, <2>2 DEF Turns, Quits
  <2>3. CASE p.current = NoCall /\ p.state[c] # "StreamsRunning" /\ s.current = c
    BY <1>13, <2>3 DEF Turns, Quits
  <2>4. CASE p.current = NoCall /\ s.current # c
    BY <1>13, <2>4, NoCallAssumption DEF Turns
  <2> QED BY <1>11, <1>14, <2>1, <2>2, <2>3, <2>4
<1> QED BY <1>3, <1>13, <1>14 DEF r, p, q, t

-----------------------------------------------------------------------------
(* Requests of ours, and offers of the far end                             *)

\* A request of ours that leaves, or waits for candidates.
LEMMA SalUpdateRow ==
  ASSUME NEW q \in CoreType, NEW c \in Call, q.op[c] = "active"
  PROVE  LET t == SalUpdate(q, c, "reinvite")
         IN  /\ One(q, t, c) /\ SameTone(q, t) /\ t \in CoreType /\ Signalled(Row(q, c), Row(t, c))
             /\ t.op[c] = "active" /\ t.pend[c] = q.pend[c] /\ t.rmd[c] = q.rmd[c]
             /\ t.ct[c] = IF CanUpdate(q, c) THEN "reinvite" ELSE q.ct[c]
<1> DEFINE t == SalUpdate(q, c, "reinvite")
<1>1. /\ CanUpdate(q, c) => Makes(q, t, c, [Row(q, c) EXCEPT !.ct = "reinvite"])
      /\ ~ CanUpdate(q, c) => t = q
      /\ SameTone(q, t)
  <2>1. "reinvite" \in Request
    BY DEF Request
  <2> QED BY <2>1, SalUpdateMakes
<1>2. CASE ~ CanUpdate(q, c)
  <2>1. One(q, q, c) /\ Signalled(Row(q, c), Row(q, c))
    BY DEF One, Signalled
  <2> QED BY <1>1, <1>2, <2>1
<1>3. CASE CanUpdate(q, c)
  <2> HIDE DEF t
  <2> DEFINE r == Row(t, c)
             o == Row(q, c)
  <2>1. One(q, t, c) /\ t \in CoreType /\ r = [o EXCEPT !.ct = "reinvite"]
    BY <1>1, <1>3, MakesOne
  <2>2. Signalled(o, r) /\ r.op = o.op /\ r.ct = "reinvite" /\ r.pend = o.pend /\ r.rmd = o.rmd
    BY <2>1 DEF Signalled, Row, RowOf
  <2>3. t.op[c] = r.op /\ t.ct[c] = r.ct /\ t.pend[c] = r.pend /\ t.rmd[c] = r.rmd
        /\ q.op[c] = o.op /\ q.pend[c] = o.pend /\ q.rmd[c] = o.rmd
    BY RowFields
  <2> QED BY <1>1, <1>3, <2>1, <2>2, <2>3 DEF t
<1> QED BY <1>2, <1>3

\* Gathering candidates touches nothing else.
LEMMA GatherRow ==
  ASSUME NEW q \in CoreType, NEW c \in Call, NEW b \in BOOLEAN
  PROVE  LET t == Gathering(q, c, b)
             o == Row(q, c)
             r == Row(t, c)
         IN  /\ One(q, t, c) /\ SameTone(q, t) /\ t \in CoreType
             /\ r.gathering = On(b)
             /\ r.state = o.state /\ r.prev = o.prev /\ r.op = o.op /\ r.ct = o.ct /\ r.pend = o.pend
             /\ r.dir = o.dir /\ r.rmd = o.rmd /\ r.streams = o.streams /\ r.listed = o.listed
             /\ r.busy = o.busy /\ r.ack = o.ack
<1> DEFINE t == Gathering(q, c, b)
<1>1. Makes(q, t, c, [Row(q, c) EXCEPT !.gathering = On(b)]) /\ SameTone(q, t)
  BY MediaMakes
<1> HIDE DEF t
<1>2. One(q, t, c) /\ t \in CoreType /\ Row(t, c) = [Row(q, c) EXCEPT !.gathering = On(b)]
  BY <1>1, MakesOne
<1> QED BY <1>1, <1>2 DEF Row, RowOf, t

\* A tidy call that gathers candidates stays tidy, if it is listed.
LEMMA GatheringTidy ==
  ASSUME NEW s, NEW q \in CoreType, NEW c \in Call, NEW b \in BOOLEAN, Tidy(s), One(s, q, c),
         TidyRow(Row(q, c)), c \in q.calls \/ ~ b
  PROVE  LET t == Gathering(q, c, b)
         IN  Tidy(t) /\ One(s, t, c) /\ SameTone(q, t) /\ t.op[c] = q.op[c] /\ t.state[c] = q.state[c]
             /\ (c \in t.calls <=> c \in q.calls)
<1> DEFINE t == Gathering(q, c, b)
           o == Row(q, c)
           r == Row(t, c)
<1>1. /\ One(q, t, c) /\ SameTone(q, t) /\ t \in CoreType
      /\ r.gathering = On(b)
      /\ r.state = o.state /\ r.prev = o.prev /\ r.op = o.op /\ r.ct = o.ct /\ r.pend = o.pend
      /\ r.dir = o.dir /\ r.rmd = o.rmd /\ r.streams = o.streams /\ r.listed = o.listed
      /\ r.busy = o.busy /\ r.ack = o.ack
  BY GatherRow
<1> HIDE DEF t
<1>2. One(s, t, c)
  BY <1>1, OneTrans
<1>3. t.op[c] = r.op /\ q.op[c] = o.op /\ t.state[c] = r.state /\ q.state[c] = o.state
      /\ (c \in t.calls <=> r.listed = "on") /\ (c \in q.calls <=> o.listed = "on")
      /\ o.listed \in {"on", "off"}
  BY RowFields
<1>4. o.listed = "off" => On(b) = "off"
  BY <1>3 DEF On
<1>5. TidyRow(o)
  OBVIOUS
<1> HIDE DEF r, o
<1>6. TidyRow(r)
  BY <1>1, <1>4, <1>5 DEF TidyRow, TidyEnd, TidyHold, TidyRequest, TidyPlain, Rests
<1>7. Tidy(t)
  BY <1>2, <1>6, OneTidy DEF r
<1> QED BY <1>1, <1>2, <1>3, <1>7 DEF t

\* linphone_core_start_accept_call_update(): the row of a call whose offer we answer.
LEMMA AnswerRow ==
  ASSUME NEW q \in CoreType, NEW c \in Call, NEW next \in CallState \ (Ended \cup {"Released"}),
         "update" \in q.pend[c] \/ q.op[c] # "ringing", q.state[c] \notin Ended
  PROVE  LET t == StartAcceptUpdate(q, c, next)
             o == Row(q, c)
             r == Row(t, c)
         IN  /\ One(q, t, c) /\ t.current = q.current /\ t \in CoreType
             /\ t.ring => q.ring /\ (q.state[c] = "IncomingEarlyMedia" \/ q.rmd[c] = "nosdp")
             /\ r.state = next /\ r.prev = (IF q.state[c] = next THEN o.prev ELSE o.state)
             /\ r.op = o.op /\ r.ct = o.ct /\ r.rmd = o.rmd /\ r.gathering = o.gathering
             /\ r.listed = o.listed /\ r.busy = o.busy /\ r.ack \in {"off", o.ack}
             /\ r.dir = IF q.rmd[c] = "nosdp" THEN o.dir ELSE DirOfOffer(q.rmd[c])
<1> DEFINE a == SalAccept(q, c)
           dir == DirOfOffer(q.rmd[c])
           u == IF q.rmd[c] = "nosdp" THEN a ELSE UpdateStreams(a, c, dir)
           t == SetState(u, c, next)
           o == Row(q, c)
           w == Row(a, c)
           x == Row(u, c)
           r == Row(t, c)
<1>1. StartAcceptUpdate(q, c, next) = t
  BY DEF StartAcceptUpdate
<1>2. q.rmd[c] # "nosdp" => dir \in Dir
  <2>1. q.rmd[c] \in Offer
    BY DEF CoreType
  <2> QED BY <2>1, OfferDirs
<1> HIDE DEF dir
<1>3. SameTone(q, a) /\ \E p \in SUBSET PeerRequest : Makes(q, a, c, [o EXCEPT !.pend = p])
  BY SalAcceptMakes
<1> HIDE DEF a
<1>4. PICK p \in SUBSET PeerRequest : Makes(q, a, c, [o EXCEPT !.pend = p])
  BY <1>3
<1>5. One(q, a, c) /\ a \in CoreType /\ w = [o EXCEPT !.pend = p]
  BY <1>4, MakesOne
<1>6. /\ w.state = o.state /\ w.prev = o.prev /\ w.op = o.op /\ w.ct = o.ct /\ w.dir = o.dir
      /\ w.rmd = o.rmd /\ w.gathering = o.gathering /\ w.listed = o.listed /\ w.busy = o.busy
      /\ w.ack = o.ack
  BY <1>5 DEF Row, RowOf
<1>7. /\ One(a, u, c) /\ u \in CoreType /\ u.current = a.current
      /\ u.ring => a.ring /\ (a.state[c] = "IncomingEarlyMedia" \/ q.rmd[c] = "nosdp")
      /\ x.state = w.state /\ x.prev = w.prev /\ x.op = w.op /\ x.ct = w.ct /\ x.rmd = w.rmd
      /\ x.gathering = w.gathering /\ x.listed = w.listed /\ x.busy = w.busy
      /\ x.ack \in {"off", w.ack}
      /\ x.dir = IF q.rmd[c] = "nosdp" THEN w.dir ELSE dir
  <2>1. CASE q.rmd[c] = "nosdp"
    <3>1. u = a /\ One(a, a, c)
      BY <1>5, <2>1 DEF One
    <3> HIDE DEF u
    <3> QED BY <1>5, <2>1, <3>1
  <2>2. CASE q.rmd[c] # "nosdp"
    <3>1. u = UpdateStreams(a, c, dir)
      BY <2>2
    <3> HIDE DEF u
    <3>2. /\ One(a, u, c) /\ u \in CoreType /\ Streamed(w, x, dir)
          /\ u.current = a.current /\ (u.ring => a.ring /\ a.state[c] = "IncomingEarlyMedia")
      BY <1>2, <1>5, <2>2, <3>1, StreamRow
    <3> HIDE DEF w, x
    <3> QED BY <2>2, <3>2 DEF Streamed
  <2> QED BY <2>1, <2>2
<1> HIDE DEF u
<1>8. a.state[c] = q.state[c] /\ u.state[c] = q.state[c] /\ q.state[c] = x.state
  <2>1. a.state[c] = w.state /\ u.state[c] = x.state /\ q.state[c] = o.state
    BY RowFields
  <2> QED BY <1>6, <1>7, <2>1
<1>9. /\ One(u, t, c) /\ SameTone(u, t) /\ t \in CoreType
      /\ r.state = next /\ r.prev = (IF q.state[c] = next THEN x.prev ELSE x.state)
      /\ r.op = x.op /\ r.ct = x.ct /\ r.rmd = x.rmd /\ r.gathering = x.gathering
      /\ r.listed = x.listed /\ r.busy = x.busy /\ r.ack = x.ack /\ r.dir = x.dir
  <2>1. CASE q.state[c] = next
    <3>1. t = u /\ One(u, u, c)
      BY <1>7, <1>8, <2>1 DEF SetState, One
    <3> HIDE DEF t
    <3> QED BY <1>7, <1>8, <2>1, <3>1 DEF SameTone
  <2>2. CASE q.state[c] # next
    <3>1. One(u, t, c) /\ SameTone(u, t) /\ t \in CoreType /\ Moved(x, r, next)
      BY <1>7, <1>8, <2>2, EnterRow
    <3> HIDE DEF t, x, r
    <3> QED BY <2>2, <3>1 DEF Moved
  <2> QED BY <2>1, <2>2
<1> HIDE DEF t
<1>10. One(q, t, c)
  BY <1>5, <1>7, <1>9, OneTrans
<1>11. t.current = q.current
  BY <1>3, <1>7, <1>9 DEF SameTone
<1>12. t.ring => q.ring /\ (q.state[c] = "IncomingEarlyMedia" \/ q.rmd[c] = "nosdp")
  BY <1>3, <1>7, <1>8, <1>9 DEF SameTone
<1>13. q.state[c] = o.state
  BY RowFields
<1> HIDE DEF o, w, x, r
<1>14. /\ r.state = next /\ r.prev = (IF q.state[c] = next THEN o.prev ELSE o.state)
       /\ r.op = o.op /\ r.ct = o.ct /\ r.rmd = o.rmd /\ r.gathering = o.gathering
       /\ r.listed = o.listed /\ r.busy = o.busy /\ r.ack \in {"off", o.ack}
       /\ r.dir = IF q.rmd[c] = "nosdp" THEN o.dir ELSE dir
  BY <1>6, <1>7, <1>9
<1> QED BY <1>1, <1>9, <1>10, <1>11, <1>12, <1>14 DEF o, r, t, u, a, dir

\* The call stays in the list and in its phase, and no tone starts.
Calm(s, t, c) ==
  /\ Tidy(t) /\ One(s, t, c) /\ t.op[c] = s.op[c] /\ (c \in t.calls <=> c \in s.calls)
  /\ t.current = s.current /\ (t.ring => s.ring)
  /\ t.state[c] = "Idle" => s.state[c] = "Idle"

\* Nothing that the tone plays for is lost in a calm step.
LEMMA CalmReason ==
  ASSUME NEW s \in CoreType, NEW t, NEW c \in Call, Reason(s), Calm(s, t, c)
  PROVE  Tidy(t) /\ Reason(t)
BY ReasonStays DEF Calm

\* Two calm steps.
LEMMA CalmTrans ==
  ASSUME NEW s, NEW t, NEW u, NEW c \in Call, Calm(s, t, c), Calm(t, u, c)
  PROVE  Calm(s, u, c)
BY OneTrans DEF Calm

\* No step at all.
LEMMA CalmSelf ==
  ASSUME NEW s \in CoreType, NEW c \in Call, Tidy(s)
  PROVE  Calm(s, s, c)
BY DEF Calm, One

\* What remains to show once the new row is tidy.
LEMMA CalmRow ==
  ASSUME NEW s, NEW t, NEW c \in Call, Tidy(s), One(s, t, c), TidyRow(Row(t, c)),
         Row(t, c).op = Row(s, c).op, Row(t, c).listed = Row(s, c).listed,
         t.current = s.current, t.ring => s.ring,
         Row(t, c).state = "Idle" => Row(s, c).state = "Idle"
  PROVE  Calm(s, t, c)
<1>1. Tidy(t)
  BY OneTidy
<1>2. /\ t.op[c] = s.op[c] /\ (c \in t.calls <=> c \in s.calls)
      /\ t.state[c] = "Idle" => s.state[c] = "Idle"
  BY RowFields
<1> QED BY <1>1, <1>2 DEF Calm

\* An offer of the far end
LEMMA OfferTidy ==
  ASSUME NEW s \in CoreType, NEW c \in Call, NEW request \in PeerRequest, NEW offer \in Offer \ {"nosdp"}, offer \in Offers,
         Tidy(s)
  PROVE  LET t == OfferMade(s, c, request, offer)
         IN  /\ Calm(s, t, c) /\ t \in CoreType /\ t.state[c] = s.state[c] /\ t.prev[c] = s.prev[c]
             /\ t.ct[c] = s.ct[c] /\ t.pend[c] = s.pend[c] \cup {request} /\ t.rmd[c] = offer
<1> DEFINE t == OfferMade(s, c, request, offer)
           o == Row(s, c)
           r == Row(t, c)
<1>1. /\ One(s, t, c) /\ SameTone(s, t) /\ t \in CoreType /\ Signalled(o, r)
      /\ t.op[c] = s.op[c] /\ t.ct[c] = s.ct[c] /\ t.pend[c] = s.pend[c] \cup {request}
      /\ t.rmd[c] = offer
  BY OfferRow
<1> HIDE DEF t
<1>2. /\ r.op = t.op[c] /\ r.ct = t.ct[c] /\ r.pend = t.pend[c] /\ r.rmd = t.rmd[c]
      /\ r.state = t.state[c] /\ r.prev = t.prev[c]
      /\ o.op = s.op[c] /\ o.ct = s.ct[c] /\ o.state = s.state[c] /\ o.prev = s.prev[c]
  BY RowFields
<1>3. TidyRow(o)
  BY DEF Tidy
<1> HIDE DEF r, o
<1>4. TidyRow(r)
  BY <1>1, <1>2, <1>3 DEF Signalled, TidyRow, TidyEnd, TidyHold, TidyRequest, TidyPlain, Rests, Spoken
<1>5. r.op = o.op /\ r.listed = o.listed /\ r.state = o.state
  BY <1>1, <1>2 DEF Signalled
<1>6. Calm(s, t, c)
  BY <1>1, <1>4, <1>5, CalmRow DEF SameTone, r, o
<1>7. t.state[c] = s.state[c] /\ t.prev[c] = s.prev[c]
  BY <1>1, <1>2 DEF Signalled
<1> QED BY <1>1, <1>6, <1>7 DEF t

\* The application is asked about the offer, or a new stream needs candidates.
LEMMA AskTidy ==
  ASSUME NEW q \in CoreType, NEW c \in Call, NEW new \in {"UpdatedByRemote", "EarlyUpdatedByRemote"},
         Tidy(q), q.ct[c] = "none", q.state[c] \notin Ended \cup {new},
         new = "UpdatedByRemote" => q.state[c] = "StreamsRunning" /\ q.pend[c] # {} /\ Spoken(q.rmd[c]),
         new = "EarlyUpdatedByRemote" => q.op[c] \in {"early", "ringing"}
  PROVE  LET t == SetState(q, c, new)
         IN  /\ Calm(q, t, c) /\ t \in CoreType /\ t.state[c] = new /\ t.prev[c] = q.state[c]
             /\ t.ct[c] = "none" /\ t.pend[c] = q.pend[c] /\ t.rmd[c] = q.rmd[c]
<1> DEFINE t == SetState(q, c, new)
           o == Row(q, c)
           r == Row(t, c)
<1>1. One(q, t, c) /\ SameTone(q, t) /\ t \in CoreType /\ Moved(o, r, new)
  BY EnterRow DEF CallState, Ended
<1> HIDE DEF t
<1>2. /\ r.op = t.op[c] /\ r.ct = t.ct[c] /\ r.pend = t.pend[c] /\ r.rmd = t.rmd[c]
      /\ r.state = t.state[c] /\ r.prev = t.prev[c]
      /\ o.op = q.op[c] /\ o.ct = q.ct[c] /\ o.pend = q.pend[c] /\ o.rmd = q.rmd[c] /\ o.state = q.state[c]
  BY RowFields
<1>3. TidyRow(o)
  BY DEF Tidy
<1> HIDE DEF r, o
<1>4. TidyRow(r)
  <2>1. TidyEnd(r)
    BY <1>1, <1>3 DEF Moved, TidyRow, TidyEnd, Ended
  <2>4. TidyHold(r)
    BY <1>1, <1>2, <1>3 DEF Moved, TidyRow, TidyHold, Rests, Transient
  <2>2. TidyRequest(r)
    BY <1>1, <1>2, <1>3 DEF Moved, TidyRow, TidyRequest, Transient
  <2>3. TidyPlain(r)
    BY <1>1, <1>2, <1>3 DEF Moved, TidyRow, TidyPlain
  <2> QED BY <2>1, <2>2, <2>3, <2>4 DEF TidyRow
<1>5. r.op = o.op /\ r.listed = o.listed /\ r.state # "Idle"
  BY <1>1 DEF Moved
<1>6. Calm(q, t, c)
  BY <1>1, <1>4, <1>5, CalmRow DEF SameTone, r, o
<1>7. /\ t.state[c] = new /\ t.prev[c] = q.state[c]
      /\ t.ct[c] = "none" /\ t.pend[c] = q.pend[c] /\ t.rmd[c] = q.rmd[c]
  BY <1>1, <1>2 DEF Moved
<1> QED BY <1>1, <1>6, <1>7 DEF t

\* The offer is refused; in UpdatedByRemote another one is left.
LEMMA DeclineTidy ==
  ASSUME NEW q \in CoreType, NEW c \in Call, Tidy(q), q.op[c] # "ringing",
         q.state[c] = "UpdatedByRemote" => {"invite", "update"} \subseteq q.pend[c]
  PROVE  Calm(q, SalDecline(q, c), c)
<1> DEFINE t == SalDecline(q, c)
           p == IF "invite" \in q.pend[c] THEN q.pend[c] \ {"invite"} ELSE {}
           o == Row(q, c)
           r == Row(t, c)
<1>1. Makes(q, t, c, [o EXCEPT !.pend = p]) /\ SameTone(q, t)
  BY SalDeclineMakes
<1>2. q.state[c] = "UpdatedByRemote" => p # {}
  OBVIOUS
<1> HIDE DEF t, p
<1>3. One(q, t, c) /\ r = [o EXCEPT !.pend = p]
  BY <1>1, MakesOne
<1>4. /\ r.state = o.state /\ r.prev = o.prev /\ r.op = o.op /\ r.ct = o.ct /\ r.pend = p
      /\ r.dir = o.dir /\ r.rmd = o.rmd /\ r.streams = o.streams /\ r.gathering = o.gathering
      /\ r.listed = o.listed /\ r.busy = o.busy /\ r.ack = o.ack
  BY <1>3 DEF Row, RowOf
<1>5. TidyRow(o) /\ o.state = q.state[c]
  BY RowFields DEF Tidy
<1> HIDE DEF r, o
<1>6. TidyRow(r)
  BY <1>2, <1>4, <1>5 DEF TidyRow, TidyEnd, TidyHold, TidyRequest, TidyPlain, Rests
<1>7. Calm(q, t, c)
  BY <1>1, <1>3, <1>4, <1>6, CalmRow DEF SameTone, r, o
<1> QED BY <1>7 DEF t

\* Our answer to the offer
LEMMA AnswerTidy ==
  ASSUME NEW q \in CoreType, NEW c \in Call, Tidy(q),
         NEW next \in {"StreamsRunning", "PausedByRemote", "OutgoingRinging", "OutgoingEarlyMedia",
                       "IncomingEarlyMedia"},
         "update" \in q.pend[c] \/ q.op[c] # "ringing", q.state[c] \notin Ended, q.ct[c] = "none",
         c \in q.calls, next = "PausedByRemote" => q.rmd[c] # "nosdp" /\ DirOfOffer(q.rmd[c]) \in HeldDir,
         next = "StreamsRunning" =>
           q.state[c] = "UpdatedByRemote" \/ (q.rmd[c] # "nosdp" /\ Spoken(q.rmd[c]))
  PROVE  Calm(q, StartAcceptUpdate(q, c, next), c)
<1> DEFINE t == StartAcceptUpdate(q, c, next)
           o == Row(q, c)
           r == Row(t, c)
<1>1. next \in CallState \ (Ended \cup {"Released"})
  BY DEF CallState, Ended
<1>2. /\ One(q, t, c) /\ t.current = q.current /\ t \in CoreType
      /\ t.ring => q.ring
      /\ r.state = next /\ r.op = o.op /\ r.ct = o.ct /\ r.rmd = o.rmd /\ r.gathering = o.gathering
      /\ r.listed = o.listed /\ r.busy = o.busy /\ r.ack \in {"off", o.ack}
      /\ r.dir = IF q.rmd[c] = "nosdp" THEN o.dir ELSE DirOfOffer(q.rmd[c])
  BY <1>1, AnswerRow
<1> HIDE DEF t
<1>3. /\ TidyRow(o) /\ o.ct = "none" /\ o.op = q.op[c] /\ o.listed = "on"
      /\ o.rmd = q.rmd[c] /\ o.state = q.state[c] /\ q.rmd[c] \in Offer
  BY RowFields DEF Tidy, CoreType
<1> HIDE DEF r, o
<1>7. ASSUME next = "StreamsRunning"
      PROVE  "recvonly" \in Offers \/ r.dir \in {"sendrecv", "recvonly", "inactive"}
  <2>1. CASE q.rmd[c] = "nosdp"
    BY <1>2, <1>3, <1>7, <2>1 DEF TidyRow, TidyHold
  <2>2. CASE q.rmd[c] # "nosdp"
    <3>1. Spoken(q.rmd[c])
      BY <1>3, <1>7 DEF TidyRow, TidyHold
    <3> QED BY <1>2, <1>3, <2>2, <3>1, OfferDirs
  <2> QED BY <2>1, <2>2
<1>8. r.op = "ringing" => Spoken(r.rmd)
  BY <1>2, <1>3 DEF TidyRow, TidyHold
<1>4. r.state \notin Transient \cup Ended
  BY <1>2 DEF Transient, Ended
<1>5. TidyRow(r)
  <2>1. TidyEnd(r)
    BY <1>2, <1>3, <1>4 DEF TidyRow, TidyEnd, Ended
  <2>2. TidyHold(r)
    BY <1>2, <1>4, <1>7, <1>8 DEF TidyHold, Rests
  <2>3. TidyRequest(r)
    BY <1>2, <1>3, <1>4 DEF TidyRequest
  <2>4. TidyPlain(r)
    BY <1>2, <1>3 DEF TidyRow, TidyPlain
  <2> QED BY <2>1, <2>2, <2>3, <2>4 DEF TidyRow
<1>6. Calm(q, t, c)
  BY <1>2, <1>5, CalmRow DEF r, o
<1> QED BY <1>6 DEF t

\* Gathering candidates, or answering: what linphone_core_accept_call_update() does.
LEMMA AcceptUpdateTidy ==
  ASSUME NEW q \in CoreType, NEW c \in Call, NEW regather \in BOOLEAN, Tidy(q),
         NEW next \in {"StreamsRunning", "PausedByRemote", "OutgoingRinging", "OutgoingEarlyMedia",
                       "IncomingEarlyMedia"},
         "update" \in q.pend[c] \/ q.op[c] # "ringing", q.state[c] \notin Ended, q.ct[c] = "none",
         c \in q.calls, next = "PausedByRemote" => q.rmd[c] # "nosdp" /\ DirOfOffer(q.rmd[c]) \in HeldDir,
         next = "StreamsRunning" =>
           q.state[c] = "UpdatedByRemote" \/ (q.rmd[c] # "nosdp" /\ Spoken(q.rmd[c]))
  PROVE  Calm(q, AcceptUpdate(q, c, next, regather), c)
<1>1. CASE regather
  <2> DEFINE t == Gathering(q, c, TRUE)
  <2>1. One(q, q, c) /\ TidyRow(Row(q, c))
    BY DEF One, Tidy
  <2>2. /\ Tidy(t) /\ One(q, t, c) /\ SameTone(q, t) /\ t.op[c] = q.op[c] /\ t.state[c] = q.state[c]
        /\ (c \in t.calls <=> c \in q.calls)
    BY <2>1, GatheringTidy
  <2> HIDE DEF t
  <2>3. Calm(q, t, c)
    BY <2>2 DEF Calm, SameTone
  <2> QED BY <1>1, <2>3 DEF AcceptUpdate, t
<1>2. CASE ~ regather
  BY <1>2, AnswerTidy DEF AcceptUpdate
<1> QED BY <1>1, <1>2

\* linphone_core_accept_call_update()
LEMMA AcceptCallUpdateTidy ==
  ASSUME NEW s, NEW c \in Call, NEW regather \in BOOLEAN, Consistent(s), Tidy(s), Reason(s),
         s.state[c] = "UpdatedByRemote"
  PROVE  LET t == AcceptUpdate(s, c, s.prev[c], regather)
         IN  Tidy(t) /\ Reason(t)
<1>1. s \in CoreType /\ s.op[c] = "active" /\ c \in s.calls
  BY DEF Consistent, CallFits, OpFits, ListFits, Answered, Live, CallState, Ended
<1>2. s.ct[c] = "none" /\ s.prev[c] = "StreamsRunning"
  BY RowFields DEF Tidy, TidyRow, TidyRequest, Transient
<1>3. Calm(s, AcceptUpdate(s, c, s.prev[c], regather), c)
  BY <1>1, <1>2, AcceptUpdateTidy DEF Ended
<1> QED BY <1>1, <1>3, CalmReason

\* linphone_core_update_call(): the request leaves, or waits for candidates.
LEMMA UpdateCallTidy ==
  ASSUME NEW s, NEW c \in Call, NEW regather \in BOOLEAN, Consistent(s), Tidy(s), Reason(s),
         regather => UseIce, s.state[c] = "StreamsRunning"
  PROVE  LET t == UpdateCall(s, c, regather)
         IN  Tidy(t) /\ Reason(t)
<1> DEFINE u == SetState(s, c, "Updating")
           o == Row(s, c)
           p == Row(u, c)
<1>1. s \in CoreType /\ s.op[c] = "active" /\ c \in s.calls
  BY DEF Consistent, CallFits, OpFits, ListFits, Answered, Live, CallState, Ended
<1>2. TidyRow(o) /\ o.state = "StreamsRunning" /\ o.op = "active" /\ o.listed = "on"
  BY <1>1, RowFields DEF Tidy
<1>3. /\ One(s, u, c) /\ SameTone(s, u) /\ u \in CoreType /\ Moved(o, p, "Updating")
  <2>1. "Updating" \in CallState \ (Ended \cup {"Released"}) /\ s.state[c] \notin Ended
    BY DEF CallState, Ended
  <2> QED BY <1>1, <2>1, EnterRow
<1>4. u.op[c] = p.op /\ u.ct[c] = p.ct /\ u.state[c] = p.state /\ (c \in u.calls <=> p.listed = "on")
  BY RowFields
<1>5. p.busy = "off" => ~ u.busy[c]
  BY DEF Row, RowOf, On
<1> HIDE DEF u, p, o
<1>6. p.ct = "none" /\ o.ct = "none"
  BY <1>2, <1>3 DEF TidyRow, TidyRequest, Transient, Moved
<1>7. p.op = "active" /\ p.busy = "off" /\ p.listed = "on" /\ p.state = "Updating" /\ p.prev = "StreamsRunning"
  BY <1>2, <1>3 DEF TidyRow, TidyPlain, Moved
<1>8. TidyEnd(p) /\ TidyHold(p) /\ TidyPlain(p)
  BY <1>2, <1>3, <1>7 DEF TidyRow, TidyEnd, TidyHold, TidyPlain, Moved, Rests, Ended
<1>9. CASE regather
  <2> DEFINE t == Gathering(u, c, TRUE)
  <2>1. TidyRow(p)
    BY <1>6, <1>7, <1>8, <1>9 DEF TidyRow, TidyRequest, Resting, Transient
  <2>2. c \in u.calls
    BY <1>4, <1>7
  <2>3. /\ Tidy(t) /\ One(s, t, c) /\ SameTone(u, t) /\ t.op[c] = u.op[c] /\ t.state[c] = u.state[c]
        /\ (c \in t.calls <=> c \in u.calls)
    BY <1>3, <2>1, <2>2, GatheringTidy DEF p
  <2> HIDE DEF t
  <2>4. Reason(t)
    BY <1>1, <1>3, <1>4, <1>7, <2>2, <2>3, ReasonStays DEF SameTone
  <2> QED BY <1>9, <2>3, <2>4 DEF UpdateCall, u, t
<1>10. CASE ~ regather
  <2> DEFINE t == SalUpdate(u, c, "reinvite")
             r == Row(t, c)
  <2>1. CanUpdate(u, c)
    BY <1>4, <1>5, <1>6, <1>7 DEF CanUpdate
  <2>2. /\ One(u, t, c) /\ SameTone(u, t) /\ t \in CoreType /\ Signalled(p, r)
        /\ t.op[c] = "active" /\ t.pend[c] = u.pend[c] /\ t.rmd[c] = u.rmd[c] /\ t.ct[c] = "reinvite"
    BY <1>3, <1>4, <1>7, <2>1, SalUpdateRow DEF p
  <2>3. /\ t.op[c] = r.op /\ t.ct[c] = r.ct /\ t.state[c] = r.state /\ t.pend[c] = r.pend
        /\ t.rmd[c] = r.rmd /\ (c \in t.calls <=> r.listed = "on")
    BY RowFields
  <2> HIDE DEF t, r
  <2>4. r.state = "Updating" /\ r.prev = "StreamsRunning" /\ r.op = "active" /\ r.ct = "reinvite"
        /\ r.listed = "on" /\ r.busy = "off" /\ r.ack = p.ack /\ r.dir = p.dir
    BY <1>7, <2>2, <2>3 DEF Signalled
  <2>5. TidyRow(r)
    BY <1>7, <1>8, <2>4 DEF TidyRow, TidyEnd, TidyHold, TidyPlain, TidyRequest, Rests, Ended, Resting, Transient
  <2>6. One(s, t, c)
    BY <1>3, <2>2, OneTrans
  <2>7. Tidy(t)
    BY <2>5, <2>6, OneTidy DEF r
  <2>8. Reason(t)
    BY <1>1, <1>3, <2>2, <2>3, <2>4, <2>6, ReasonStays DEF SameTone
  <2> QED BY <1>10, <2>7, <2>8 DEF UpdateCall, u, t
<1> QED BY <1>9, <1>10

\* call_updated_by_remote() in a confirmed dialog
LEMMA UpdatedByRemoteTidy ==
  ASSUME NEW q \in CoreType, NEW c \in Call, NEW isUpdate \in BOOLEAN, NEW compatible \in BOOLEAN,
         NEW deferred \in BOOLEAN, NEW regather \in BOOLEAN, Tidy(q),
         q.op[c] = "active", q.rmd[c] # "nosdp", Spoken(q.rmd[c]), c \in q.calls, q.pend[c] # {}, q.ct[c] = "none",
         q.state[c] \in Resting, q.state[c] = "Paused" => ~ isUpdate,
         q.state[c] = "PausedByRemote" => ~ TakesUsBack(q.rmd[c])
  PROVE  Calm(q, UpdatedByRemote(q, c, isUpdate, compatible, deferred, regather), c)
<1> DEFINE t == UpdatedByRemote(q, c, isUpdate, compatible, deferred, regather)
<1>1. CASE ~ compatible
  <2>1. Calm(q, SalDecline(q, c), c)
    BY DeclineTidy DEF Resting
  <2>2. t = SalDecline(q, c)
    BY <1>1 DEF UpdatedByRemote
  <2> QED BY <2>1, <2>2
<1>2. CASE compatible
  <2> DEFINE o == UpdateOffered(q, c, isUpdate, deferred, regather)
  <2>1. t = o
    BY <1>2 DEF UpdatedByRemote
  <2>2. CASE q.state[c] = "StreamsRunning"
    <3> DEFINE u == SetState(q, c, "UpdatedByRemote")
    <3>1. /\ Calm(q, u, c) /\ u \in CoreType /\ u.state[c] = "UpdatedByRemote" /\ u.prev[c] = "StreamsRunning"
          /\ u.ct[c] = "none" /\ u.pend[c] = q.pend[c] /\ u.rmd[c] = q.rmd[c]
      BY <2>2, AskTidy DEF Ended
    <3> HIDE DEF u
    <3>2. Calm(u, AcceptUpdate(u, c, u.prev[c], regather), c)
      <4>1. u.op[c] = "active" /\ c \in u.calls /\ Tidy(u)
        BY <3>1 DEF Calm
      <4> QED BY <3>1, <4>1, AcceptUpdateTidy DEF Ended
    <3>3. Calm(q, AcceptUpdate(u, c, u.prev[c], regather), c)
      BY <3>1, <3>2, CalmTrans
    <3>4. o = IF DeferUpdate \/ deferred THEN u ELSE AcceptUpdate(u, c, u.prev[c], regather)
      BY <2>2 DEF UpdateOffered, u
    <3> QED BY <2>1, <3>1, <3>3, <3>4
  <2>3. CASE q.state[c] = "PausedByRemote"
    <3>1. q.rmd[c] \in Offer
      BY DEF CoreType
    <3>2. Calm(q, AcceptUpdate(q, c, "PausedByRemote", regather), c)
      <4>1. DirOfOffer(q.rmd[c]) \in HeldDir
        BY <2>3, <3>1, OfferDirs
      <4> QED BY <2>3, <4>1, AcceptUpdateTidy DEF Ended
    <3>3. o = IF DeferUpdate THEN q ELSE AcceptUpdate(q, c, "PausedByRemote", regather)
      BY <2>3 DEF UpdateOffered
    <3> QED BY <2>1, <3>2, <3>3, CalmSelf
  <2>4. CASE q.state[c] = "Paused"
    <3>1. o = q
      BY <2>4 DEF UpdateOffered
    <3> QED BY <2>1, <3>1, CalmSelf
  <2> QED BY <2>2, <2>3, <2>4 DEF Resting
<1> QED BY <1>1, <1>2

\* call_updating() in a confirmed dialog
LEMMA CallUpdatingTidy ==
  ASSUME NEW q \in CoreType, NEW c \in Call, NEW isUpdate \in BOOLEAN, NEW compatible \in BOOLEAN,
         NEW deferred \in BOOLEAN, NEW regather \in BOOLEAN, Tidy(q),
         q.op[c] = "active", q.rmd[c] # "nosdp", Spoken(q.rmd[c]), c \in q.calls, q.pend[c] # {},
         q.state[c] \in Settling, q.state[c] = "Paused" => ~ isUpdate,
         q.state[c] = "UpdatedByRemote" => {"invite", "update"} \subseteq q.pend[c]
  PROVE  Calm(q, CallUpdating(q, c, isUpdate, compatible, deferred, regather), c)
<1> DEFINE updated == UpdatedByRemote(q, c, isUpdate, compatible, deferred, regather)
           t == CallUpdating(q, c, isUpdate, compatible, deferred, regather)
<1>1. q.rmd[c] \in Offer
  BY DEF CoreType
<1>2. q.state[c] \in Resting => q.ct[c] = "none"
  BY RowFields DEF Tidy, TidyRow, TidyRequest, Resting, Transient
<1>3. CASE q.state[c] = "PausedByRemote"
  <2>1. t = IF TakesUsBack(q.rmd[c]) THEN AcceptUpdate(q, c, "StreamsRunning", regather) ELSE updated
    BY <1>3 DEF CallUpdating, Transient
  <2>2. Calm(q, AcceptUpdate(q, c, "StreamsRunning", regather), c)
    BY <1>2, <1>3, AcceptUpdateTidy DEF Ended, Resting
  <2>3. ~ TakesUsBack(q.rmd[c]) => Calm(q, updated, c)
    BY <1>2, <1>3, UpdatedByRemoteTidy DEF Resting
  <2> QED BY <2>1, <2>2, <2>3
<1>4. CASE q.state[c] \in {"StreamsRunning", "Paused"}
  <2>1. t = IF HoldsUs(q.rmd[c]) THEN AcceptUpdate(q, c, "PausedByRemote", regather) ELSE updated
    BY <1>4 DEF CallUpdating, Transient
  <2>2. HoldsUs(q.rmd[c]) => Calm(q, AcceptUpdate(q, c, "PausedByRemote", regather), c)
    BY <1>1, <1>2, <1>4, AcceptUpdateTidy, OfferDirs DEF Ended, Resting
  <2>3. Calm(q, updated, c)
    BY <1>2, <1>4, UpdatedByRemoteTidy DEF Resting
  <2> QED BY <2>1, <2>2, <2>3
<1>5. CASE q.state[c] \in Transient \cup {"UpdatedByRemote"}
  <2>1. t = SalDecline(q, c)
    BY <1>5 DEF CallUpdating, Transient
  <2>2. Calm(q, SalDecline(q, c), c)
    BY <1>5, DeclineTidy
  <2> QED BY <2>1, <2>2
<1> QED BY <1>3, <1>4, <1>5 DEF Settling, Answered, Transient

\* A re-INVITE, or an UPDATE, in the confirmed dialog
LEMMA PeerOfferTidy ==
  ASSUME NEW s, NEW c \in Call, NEW offer \in Offer \ {"nosdp"}, offer \in Offers, NEW isUpdate \in BOOLEAN,
         NEW compatible \in BOOLEAN, NEW deferred \in BOOLEAN, NEW regather \in BOOLEAN,
         Consistent(s), Tidy(s), Reason(s), s.op[c] = "active", c \in s.calls, "invite" \notin s.pend[c],
         isUpdate => "update" \notin s.pend[c] /\ s.state[c] # "Paused"
  PROVE  LET request == IF isUpdate THEN "update" ELSE "invite"
             t == CallUpdating(OfferMade(s, c, request, offer), c, isUpdate, compatible, deferred, regather)
         IN  Tidy(t) /\ Reason(t)
<1> DEFINE request == IF isUpdate THEN "update" ELSE "invite"
           m == OfferMade(s, c, request, offer)
           t == CallUpdating(m, c, isUpdate, compatible, deferred, regather)
<1>1. s \in CoreType /\ s.pend[c] \subseteq PeerRequest
  BY DEF Consistent, CoreType
<1>2. request \in PeerRequest
  BY DEF PeerRequest
<1> HIDE DEF request
<1>3. /\ Calm(s, m, c) /\ m \in CoreType /\ m.state[c] = s.state[c]
      /\ m.pend[c] = s.pend[c] \cup {request} /\ m.rmd[c] = offer /\ Spoken(m.rmd[c])
  BY <1>1, <1>2, OfferTidy DEF Spoken
<1>4. s.state[c] \in Settling
  <2>1. s.state[c] \in Settling \cup {"Connected", "EarlyUpdatedByRemote"}
    BY PhaseStates
  <2>2. s.state[c] \notin {"Connected", "EarlyUpdatedByRemote"}
    BY RowFields DEF Tidy, TidyRow, TidyPlain
  <2> QED BY <2>1, <2>2
<1>5. s.state[c] = "UpdatedByRemote" => {"invite", "update"} \subseteq m.pend[c]
  <2>1. s.state[c] = "UpdatedByRemote" => s.pend[c] # {}
    BY RowFields DEF Tidy, TidyRow, TidyRequest
  <2>2. s.state[c] = "UpdatedByRemote" => "update" \in s.pend[c]
    BY <1>1, <2>1 DEF PeerRequest
  <2>3. s.state[c] = "UpdatedByRemote" => request = "invite"
    BY <2>2 DEF request
  <2> QED BY <1>3, <2>2, <2>3
<1>6. m.op[c] = "active" /\ c \in m.calls /\ Tidy(m) /\ m.pend[c] # {}
  BY <1>3 DEF Calm
<1> HIDE DEF m
<1>7. Calm(m, t, c)
  BY <1>3, <1>4, <1>5, <1>6, CallUpdatingTidy
<1> HIDE DEF t
<1>8. Calm(s, t, c)
  BY <1>3, <1>7, CalmTrans
<1> QED BY <1>1, <1>8, CalmReason DEF t, m, request

\* An UPDATE before the call is answered
LEMMA EarlyOfferTidy ==
  ASSUME NEW s, NEW c \in Call, NEW offer \in Offer \ {"nosdp"}, offer \in Offers, NEW compatible \in BOOLEAN,
         NEW regather \in BOOLEAN, Consistent(s), Tidy(s), Reason(s),
         s.op[c] \in {"early", "ringing"}, c \in s.calls,
         s.op[c] = "ringing" => compatible
  PROVE  LET t == CallUpdating(OfferMade(s, c, "update", offer), c, TRUE, compatible, FALSE, regather)
         IN  Tidy(t) /\ Reason(t)
<1> DEFINE m == OfferMade(s, c, "update", offer)
           e == SetState(m, c, "EarlyUpdatedByRemote")
           t == CallUpdating(m, c, TRUE, compatible, FALSE, regather)
<1>1. s \in CoreType
  BY DEF Consistent
<1>2. /\ Calm(s, m, c) /\ m \in CoreType /\ m.state[c] = s.state[c] /\ m.ct[c] = s.ct[c]
      /\ m.pend[c] = s.pend[c] \cup {"update"} /\ m.rmd[c] = offer
  BY <1>1, OfferTidy DEF PeerRequest
<1>3. s.ct[c] = "none" /\ s.state[c] \notin Answered \cup Ended
  BY DEF Consistent, CallFits, OpFits, RequestFits
<1>4. m.op[c] = s.op[c] /\ c \in m.calls /\ Tidy(m)
  BY <1>2 DEF Calm
<1> HIDE DEF m
<1>5. CASE s.state[c] \in {"OutgoingRinging", "OutgoingEarlyMedia", "IncomingEarlyMedia"}
  <2>1. t = UpdatedByRemote(m, c, TRUE, compatible, FALSE, regather)
    BY <1>2, <1>5 DEF CallUpdating, Transient
  <2>2. ASSUME ~ compatible PROVE Calm(m, t, c)
    <3>1. t = SalDecline(m, c)
      BY <1>2, <2>1, <2>2 DEF UpdatedByRemote
    <3>2. m.op[c] # "ringing" /\ m.state[c] # "UpdatedByRemote"
      BY <1>2, <1>4, <1>5, <2>2
    <3>3. Calm(m, SalDecline(m, c), c)
      BY <1>2, <1>4, <3>2, DeclineTidy
    <3> QED BY <3>1, <3>3
  <2>3. ASSUME compatible PROVE Calm(m, t, c)
    <3>1. t = AcceptUpdate(e, c, e.prev[c], regather)
      BY <1>2, <1>5, <2>1, <2>3 DEF UpdatedByRemote, UpdateOffered
    <3>2. /\ Calm(m, e, c) /\ e \in CoreType /\ e.state[c] = "EarlyUpdatedByRemote"
          /\ e.prev[c] = m.state[c] /\ e.ct[c] = "none" /\ e.pend[c] = m.pend[c] /\ e.rmd[c] = m.rmd[c]
      BY <1>2, <1>3, <1>4, <1>5, AskTidy DEF Ended
    <3>3. Tidy(e) /\ c \in e.calls /\ "update" \in e.pend[c]
      BY <1>2, <1>4, <3>2 DEF Calm
    <3> HIDE DEF e
    <3>4. /\ e.prev[c] \in {"OutgoingRinging", "OutgoingEarlyMedia", "IncomingEarlyMedia"}
          /\ e.prev[c] # "PausedByRemote" /\ e.state[c] \notin Ended
      BY <1>2, <1>5, <3>2 DEF Ended
    <3>5. Calm(e, AcceptUpdate(e, c, e.prev[c], regather), c)
      BY <3>2, <3>3, <3>4, AcceptUpdateTidy
    <3>6. Calm(m, AcceptUpdate(e, c, e.prev[c], regather), c)
      BY <3>2, <3>5, CalmTrans
    <3> QED BY <3>1, <3>6 DEF e
  <2> HIDE DEF t
  <2>4. Calm(m, t, c)
    BY <2>2, <2>3
  <2>5. Calm(s, t, c)
    BY <1>2, <2>4, CalmTrans
  <2> QED BY <1>1, <2>5, CalmReason DEF t, m
<1>6. CASE s.state[c] \notin {"OutgoingRinging", "OutgoingEarlyMedia", "IncomingEarlyMedia"}
  <2>1. t = m
    BY <1>2, <1>3, <1>6 DEF CallUpdating, Transient, Answered
  <2> QED BY <1>1, <1>2, <2>1, CalmReason DEF m
<1> QED BY <1>5, <1>6

\* handle_ice_events(), when the candidates are gathered
LEMMA IceGatheredTidy ==
  ASSUME NEW s, NEW c \in Call, Consistent(s), Tidy(s), Reason(s), c \in s.calls
  PROVE  LET t == IceGathered(s, c, TRUE)
         IN  Tidy(t) /\ Reason(t)
<1> DEFINE g == Gathering(s, c, FALSE)
           t == IceGathered(s, c, TRUE)
<1>1. s \in CoreType /\ CallFits(s, c)
  BY DEF Consistent
<1>2. One(s, s, c) /\ TidyRow(Row(s, c))
  BY <1>1 DEF One, Tidy
<1>3. /\ Tidy(g) /\ One(s, g, c) /\ SameTone(s, g) /\ g.op[c] = s.op[c] /\ g.state[c] = s.state[c]
      /\ (c \in g.calls <=> c \in s.calls)
  BY <1>1, <1>2, GatheringTidy
<1>4. /\ g \in CoreType /\ Row(g, c).busy = Row(s, c).busy /\ Row(g, c).ack = Row(s, c).ack
      /\ Row(g, c).ct = Row(s, c).ct /\ Row(g, c).prev = Row(s, c).prev /\ Row(g, c).pend = Row(s, c).pend
      /\ Row(g, c).rmd = Row(s, c).rmd
  BY <1>1, GatherRow
<1>5. Consistent(g)
  BY <1>1, MediaIsSilent, SilentLeads DEF Leads
<1> HIDE DEF g
<1>6. Reason(g)
  BY <1>1, <1>3, ReasonStays DEF SameTone
<1>7. g.ct[c] = s.ct[c] /\ g.prev[c] = s.prev[c] /\ g.pend[c] = s.pend[c] /\ g.rmd[c] = s.rmd[c]
  BY <1>4, RowFields
<1>8. s.state[c] = "Idle" => s.op[c] = "ringing"
  BY <1>1 DEF CallFits, ListFits, Live
<1>9. CASE s.state[c] = "Updating"
  <2> DEFINE u == SalUpdate(g, c, "reinvite")
             o == Row(g, c)
             r == Row(u, c)
  <2>1. g.op[c] = "active"
    BY <1>1, <1>3, <1>9 DEF CallFits, OpFits, Answered
  <2>2. /\ One(g, u, c) /\ SameTone(g, u) /\ u \in CoreType /\ Signalled(o, r)
        /\ u.op[c] = "active" /\ u.pend[c] = g.pend[c] /\ u.rmd[c] = g.rmd[c]
        /\ u.ct[c] \in {"reinvite", g.ct[c]}
    BY <1>4, <2>1, SalUpdateRow
  <2>3. /\ u.op[c] = r.op /\ u.ct[c] = r.ct /\ u.state[c] = r.state /\ u.pend[c] = r.pend
        /\ u.rmd[c] = r.rmd /\ (c \in u.calls <=> r.listed = "on")
    BY RowFields
  <2>4. /\ g.op[c] = o.op /\ g.ct[c] = o.ct /\ g.state[c] = o.state /\ g.pend[c] = o.pend
        /\ g.rmd[c] = o.rmd /\ (c \in g.calls <=> o.listed = "on") /\ TidyRow(o)
    BY <1>3, RowFields DEF Tidy
  <2> HIDE DEF u, o, r
  <2>5. r.state = "Updating" /\ r.op = o.op /\ r.ct \in {"reinvite", o.ct} /\ r.rmd = o.rmd /\ r.pend = o.pend
    BY <1>3, <1>9, <2>1, <2>2, <2>3, <2>4 DEF Signalled
  <2>6. TidyRow(r)
    BY <2>2, <2>4, <2>5 DEF TidyRow, TidyEnd, TidyHold, TidyRequest, TidyPlain, Rests, Signalled, Transient
  <2>7. Calm(g, u, c)
    BY <1>3, <2>2, <2>5, <2>6, CalmRow DEF SameTone, Signalled, o, r
  <2>8. t = u
    BY <1>9 DEF IceGathered, g, u
  <2> QED BY <1>4, <1>6, <2>7, <2>8, CalmReason
<1>10. CASE s.state[c] = "UpdatedByRemote"
  <2>1. s.ct[c] = "none" /\ s.prev[c] = "StreamsRunning"
    BY <1>10, RowFields DEF Tidy, TidyRow, TidyRequest, Transient
  <2>2. s.op[c] = "active"
    BY <1>1, <1>10 DEF CallFits, OpFits, Answered
  <2>3. Calm(g, StartAcceptUpdate(g, c, "StreamsRunning"), c)
    BY <1>3, <1>4, <1>7, <1>10, <2>1, <2>2, AnswerTidy DEF Ended
  <2>4. t = StartAcceptUpdate(g, c, "StreamsRunning")
    BY <1>10, <2>1 DEF IceGathered, g
  <2> QED BY <1>4, <1>6, <2>3, <2>4, CalmReason
<1>11. CASE s.state[c] = "OutgoingInit"
  <2>1. t = StartInvite(g, c, TRUE)
    BY <1>11 DEF IceGathered, g
  <2>2. g.ct[c] = "none"
    BY <1>1, <1>7, <1>11 DEF CallFits, RequestFits, Settling, Answered
  <2>3. Row(g, c).busy = "off" /\ Row(g, c).ack = "off"
    BY <1>2, <1>4 DEF TidyRow, TidyPlain
  <2>4. Tidy(t) /\ Placing(t)
    BY <1>3, <1>4, <1>11, <2>1, <2>2, <2>3, StartInviteTidy DEF Outgoing
  <2> QED BY <2>4 DEF Reason
<1>12. CASE s.state[c] = "Idle"
  <2>1. t = NotifyIncoming(g, c, FALSE)
    BY <1>12 DEF IceGathered, g
  <2>2. s.rmd[c] # "nosdp" /\ Spoken(s.rmd[c]) /\ Row(s, c).busy = "off" /\ Row(s, c).ack = "off"
    BY <1>2, <1>8, <1>12, RowFields DEF TidyRow, TidyPlain, TidyHold
  <2>3. Comes(g, c)
    BY <1>3, <1>4, <1>7, <1>8, <1>12, <2>2 DEF Comes
  <2>4. Almost(g, c)
    BY <1>3 DEF Almost, Tidy
  <2> QED BY <1>5, <1>6, <2>1, <2>3, <2>4, NotifyIncomingTidy
<1>13. CASE s.state[c] \notin {"Updating", "UpdatedByRemote", "OutgoingInit", "Idle"}
  <2>1. t = g
    BY <1>13 DEF IceGathered, g
  <2> QED BY <1>3, <1>6, <2>1
<1> QED BY <1>9, <1>10, <1>11, <1>12, <1>13

\* sip/delayed_timeout: the INVITE leaves without the candidates.
LEMMA DelayedInviteTidy ==
  ASSUME NEW s, NEW c \in Call, Consistent(s), Tidy(s), Reason(s), c \in s.calls,
         s.state[c] = "OutgoingInit"
  PROVE  LET t == StartInvite(Gathering(s, c, FALSE), c, TRUE)
         IN  Tidy(t) /\ Reason(t)
<1>1. StartInvite(Gathering(s, c, FALSE), c, TRUE) = IceGathered(s, c, TRUE)
  BY DEF IceGathered
<1> QED BY <1>1, IceGatheredTidy

\* resume_call_after_failed_transfer()
LEMMA ResumeTaskTidy ==
  ASSUME NEW s, NEW c \in Call, Consistent(s), Tidy(s), Reason(s)
  PROVE  LET t == ResumeTask(s, c)
         IN  Tidy(t) /\ Reason(t) /\ ("recvonly" \notin Offers => Turns(s, t))
<1> DEFINE d == DequeueResume(s, c)
<1>1. s \in CoreType
  BY DEF Consistent
<1>2. Aside(s, d) /\ SameTone(s, d)
  BY <1>1, TaskAside
<1>3. Tidy(d)
  BY <1>2, AsideTidy
<1>4. Consistent(d)
  BY <1>1, MediaIsSilent, SilentLeads DEF Leads
<1> HIDE DEF d
<1>5. One(s, d, c) /\ Row(d, c) = Row(s, c)
  BY <1>2, AsideOne
<1>6. d.op[c] = s.op[c] /\ (c \in d.calls <=> c \in s.calls) /\ d.state[c] = s.state[c]
  BY <1>5, RowParts
<1>7. Reason(d)
  BY <1>1, <1>2, <1>5, <1>6, ReasonStays DEF SameTone
<1>8. /\ Tidy(ResumeCall(d, c)) /\ Reason(ResumeCall(d, c))
      /\ "recvonly" \notin Offers => Turns(d, ResumeCall(d, c))
  BY <1>3, <1>4, <1>7, ResumeCallTidy DEF Reason
<1>9. ResumeTask(s, c) \in {d, ResumeCall(d, c)}
  BY DEF ResumeTask, d
<1>10. d.current = s.current
  BY <1>2 DEF SameTone
<1>11. Turns(s, d) /\ ("recvonly" \notin Offers => Turns(s, ResumeCall(d, c)))
  BY <1>8, <1>10 DEF Turns, Quits
<1> QED BY <1>3, <1>7, <1>8, <1>9, <1>11

-----------------------------------------------------------------------------
(* Answers to our INVITE and to our offers                                 *)

\* From s on, call c is being placed in an early dialog.
Trying(s, t, c) ==
  /\ One(s, t, c) /\ t \in CoreType /\ t.op[c] = "early" /\ t.ct[c] = "none" /\ c \in t.calls
  /\ Row(t, c).busy = "off" /\ Row(t, c).ack = "off"
  /\ t.state[c] \in AwaitingAnswer \cup {"EarlyUpdatedByRemote"}

\* A call that is being placed is tidy, and the tone may play for it.
LEMMA TryingTidy ==
  ASSUME NEW s, NEW t, NEW c \in Call, Tidy(s), Trying(s, t, c)
  PROVE  Tidy(t) /\ Reason(t)
<1> DEFINE r == Row(t, c)
<1>1. /\ r.state \in AwaitingAnswer \cup {"EarlyUpdatedByRemote"} /\ r.op = "early" /\ r.ct = "none"
      /\ r.listed = "on" /\ r.busy = "off" /\ r.ack = "off"
  BY RowFields DEF Trying
<1> HIDE DEF r
<1>2. TidyRow(r)
  BY <1>1 DEF TidyRow, TidyEnd, TidyHold, TidyRequest, TidyPlain, Rests, AwaitingAnswer, Outgoing, Ended,
              Transient
<1>3. Tidy(t)
  BY <1>2, OneTidy DEF Trying, r
<1>4. Placing(t)
  BY DEF Trying, Placing
<1> QED BY <1>3, <1>4 DEF Reason

\* Tones, progress and early media leave it being placed.
LEMMA TryingGoesOn ==
  ASSUME NEW s, NEW t, NEW c \in Call, Trying(s, t, c)
  PROVE  /\ Trying(s, StopRinging(t), c) /\ Trying(s, StartRinging(t), c)
         /\ \A new \in {"OutgoingRinging", "OutgoingEarlyMedia"} : Trying(s, SetState(t, c, new), c)
         /\ \A dir \in Dir : Trying(s, UpdateStreams(t, c, dir), c)
<1>1. t \in CoreType /\ t.state[c] \notin Ended
  BY DEF Trying, AwaitingAnswer, Outgoing, Ended
<1>2. ASSUME NEW u, Aside(t, u)
      PROVE  Trying(s, u, c)
  <2>1. One(t, u, c) /\ Row(u, c) = Row(t, c) /\ u \in CoreType
    BY <1>2, AsideOne
  <2>2. One(s, u, c)
    BY <2>1, OneTrans DEF Trying
  <2>3. u.op[c] = t.op[c] /\ u.ct[c] = t.ct[c] /\ (c \in u.calls <=> c \in t.calls) /\ u.state[c] = t.state[c]
    BY <2>1, RowParts
  <2> QED BY <2>1, <2>2, <2>3 DEF Trying
<1>3. Trying(s, StopRinging(t), c) /\ Trying(s, StartRinging(t), c)
  BY <1>1, <1>2, RingAside
<1>4. ASSUME NEW new \in {"OutgoingRinging", "OutgoingEarlyMedia"}
      PROVE  Trying(s, SetState(t, c, new), c)
  <2> DEFINE u == SetState(t, c, new)
             o == Row(t, c)
             r == Row(u, c)
  <2>1. CASE t.state[c] = new
    BY <2>1 DEF SetState
  <2>2. CASE t.state[c] # new
    <3>1. new \in CallState \ (Ended \cup {"Released"})
      BY DEF CallState, Ended
    <3>2. One(t, u, c) /\ u \in CoreType /\ Moved(o, r, new)
      BY <1>1, <2>2, <3>1, EnterRow
    <3>3. u.op[c] = r.op /\ u.ct[c] = r.ct /\ u.state[c] = r.state /\ (c \in u.calls <=> r.listed = "on")
      BY RowFields
    <3>4. t.op[c] = o.op /\ t.ct[c] = o.ct /\ (c \in t.calls <=> o.listed = "on")
      BY RowFields
    <3> HIDE DEF u
    <3>5. One(s, u, c)
      BY <3>2, OneTrans DEF Trying
    <3>6. o.busy = "off" /\ o.ack = "off" /\ o.op = "early" /\ o.ct = "none" /\ o.listed = "on"
      BY <3>4 DEF Trying
    <3> HIDE DEF o, r
    <3>7. r.busy = "off" /\ r.ack = "off" /\ r.op = "early" /\ r.ct = "none" /\ r.listed = "on" /\ r.state = new
      BY <3>2, <3>6 DEF Moved
    <3> QED BY <3>2, <3>3, <3>5, <3>7 DEF Trying, AwaitingAnswer, Outgoing, r, u
  <2> QED BY <2>1, <2>2
<1>5. ASSUME NEW dir \in Dir
      PROVE  Trying(s, UpdateStreams(t, c, dir), c)
  <2> DEFINE u == UpdateStreams(t, c, dir)
             o == Row(t, c)
             r == Row(u, c)
  <2>1. One(t, u, c) /\ u \in CoreType /\ Streamed(o, r, dir)
    BY <1>1, StreamRow
  <2>2. u.op[c] = r.op /\ u.ct[c] = r.ct /\ u.state[c] = r.state /\ (c \in u.calls <=> r.listed = "on")
    BY RowFields
  <2>3. t.op[c] = o.op /\ t.ct[c] = o.ct /\ t.state[c] = o.state /\ (c \in t.calls <=> o.listed = "on")
    BY RowFields
  <2> HIDE DEF u
  <2>4. One(s, u, c)
    BY <2>1, OneTrans DEF Trying
  <2>5. o.busy = "off" /\ o.op = "early" /\ o.ct = "none" /\ o.listed = "on"
    BY <2>3 DEF Trying
  <2> HIDE DEF o, r
  <2>6. r.busy = "off" /\ r.ack = "off" /\ r.op = "early" /\ r.ct = "none" /\ r.listed = "on" /\ r.state = o.state
    BY <2>1, <2>5 DEF Streamed
  <2> QED BY <2>1, <2>2, <2>3, <2>4, <2>6 DEF Trying, r, u
<1> QED BY <1>3, <1>4, <1>5

\* call_ringing()
LEMMA RingingTidy ==
  ASSUME NEW s, NEW c \in Call, NEW md \in Dir \cup {"none"}, Consistent(s), Tidy(s),
         s.op[c] \in {"inviting", "early"}
  PROVE  LET t == CallRinging(Operation(s, c, "early"), c, md)
         IN  Tidy(t) /\ Reason(t)
<1> DEFINE q == Operation(s, c, "early")
           t == CallRinging(q, c, md)
           o == Row(s, c)
           p == Row(q, c)
<1>1. s \in CoreType /\ s.state[c] \in AwaitingAnswer \cup {"EarlyUpdatedByRemote"} /\ s.ct[c] = "none"
      /\ c \in s.calls
  <2>1. s \in CoreType /\ s.state[c] \in AwaitingAnswer \cup {"EarlyUpdatedByRemote"}
    BY PhaseStates DEF Consistent
  <2>2. s.state[c] \in Live
    BY <2>1 DEF Live, AwaitingAnswer, Outgoing, Ended, CallState
  <2> QED BY <2>1, <2>2, LiveRow
<1>2. /\ One(s, q, c) /\ q \in CoreType /\ Signalled(o, p) /\ q.op[c] = "early" /\ q.ct[c] = s.ct[c]
  <2>1. "early" \in OpPhase
    BY DEF OpPhase
  <2> QED BY <1>1, <2>1, SignalRow
<1>3. q.state[c] = p.state /\ (c \in q.calls <=> p.listed = "on")
  BY RowFields
<1>4. s.state[c] = o.state /\ (c \in s.calls <=> o.listed = "on") /\ o.busy = "off" /\ o.ack = "off"
  BY RowFields DEF Tidy, TidyRow, TidyPlain
<1> HIDE DEF q, o, p
<1>5. Trying(s, q, c)
  BY <1>1, <1>2, <1>3, <1>4 DEF Trying, Signalled, p
<1>6. CASE md = "none"
  <2>1. t \in {q, SetState(StartRinging(q), c, "OutgoingRinging")}
    BY <1>6 DEF CallRinging
  <2> HIDE DEF t
  <2>2. Trying(s, t, c)
    BY <1>5, <2>1, TryingGoesOn
  <2> QED BY <2>2, TryingTidy DEF t, q
<1>7. CASE md # "none"
  <2> DEFINE e == StopRinging(SetState(q, c, "OutgoingEarlyMedia"))
             u == UpdateStreams(e, c, md)
  <2>1. t \in {q, StartRinging(u), StopRinging(u)}
    BY <1>7 DEF CallRinging
  <2>2. Trying(s, e, c)
    BY <1>5, TryingGoesOn
  <2> HIDE DEF e
  <2>3. Trying(s, u, c)
    BY <1>7, <2>2, TryingGoesOn
  <2> HIDE DEF u
  <2>4. Trying(s, StartRinging(u), c) /\ Trying(s, StopRinging(u), c)
    BY <2>3, TryingGoesOn
  <2> HIDE DEF t
  <2>5. Trying(s, t, c)
    BY <1>5, <2>1, <2>4
  <2> QED BY <2>5, TryingTidy DEF t, q
<1> QED BY <1>6, <1>7

\* The last steps of call_accepted(): the streams and the state follow the answer.
LEMMA SettledTidy ==
  ASSUME NEW s, NEW k \in CoreType, NEW c \in Call, NEW md \in Dir, Tidy(s), One(s, k, c), c \in k.calls,
         k.op[c] = "active", k.ct[c] = "none", Row(k, c).busy = "off",
         k.state[c] \in Settling \cup {"Connected", "EarlyUpdatedByRemote"}
  PROVE  LET t == Settled(k, c, md, FALSE)
         IN  Tidy(t) /\ ~ t.ring
<1> DEFINE u == UpdateStreams(k, c, md)
           v == IF md = "sendrecv" THEN MakeCurrent(u, c) ELSE u
           new == CASE md \in {"sendonly", "inactive"} -> "Paused"
                    [] md = "recvonly" -> "PausedByRemote"
                    [] OTHER -> "StreamsRunning"
           t == SetState(v, c, new)
           o == Row(k, c)
           p == Row(u, c)
           r == Row(t, c)
<1>1. One(k, u, c) /\ u \in CoreType /\ Streamed(o, p, md) /\ ~ u.ring
  <2>1. k.state[c] # "IncomingEarlyMedia"
    BY DEF Settling, Answered
  <2> QED BY <2>1, StreamRow
<1>2. o.state = k.state[c] /\ o.op = "active" /\ o.ct = "none" /\ o.listed = "on"
  BY RowFields
<1> HIDE DEF u
<1>3. Aside(u, v) /\ ~ v.ring
  BY <1>1, CurrentAside, RingAside
<1> HIDE DEF v
<1>4. One(u, v, c) /\ Row(v, c) = p /\ v \in CoreType /\ v.state[c] = p.state
  <2>1. One(u, v, c) /\ Row(v, c) = p /\ v \in CoreType
    BY <1>3, AsideOne
  <2>2. Row(v, c).state = v.state[c]
    BY RowFields
  <2> QED BY <2>1, <2>2
<1>5. /\ new \in Resting
      /\ new = "Paused" => md \in HoldDir
      /\ new = "PausedByRemote" => md \in HeldDir
      /\ new = "StreamsRunning" => md = "sendrecv"
  BY DEF Resting, HoldDir, HeldDir, Dir
<1> HIDE DEF new, o, p
<1>6. v.state[c] \notin Ended
  BY <1>1, <1>2, <1>4 DEF Streamed, Settling, Answered, Ended
<1>7. /\ One(v, t, c) /\ ~ t.ring /\ r.state = new /\ r.op = p.op /\ r.ct = p.ct /\ r.dir = p.dir
      /\ r.listed = p.listed /\ r.busy = p.busy /\ r.ack = p.ack
  <2>1. CASE v.state[c] = new
    <3>1. t = v
      BY <2>1 DEF SetState
    <3>2. One(v, v, c)
      BY <1>4 DEF One
    <3> HIDE DEF t
    <3>3. r = p
      BY <1>4, <3>1
    <3> QED BY <1>3, <1>4, <2>1, <3>1, <3>2, <3>3
  <2>2. CASE v.state[c] # new
    <3>1. new \in CallState \ (Ended \cup {"Released"})
      BY <1>5 DEF CallState, Ended, Resting
    <3>2. One(v, t, c) /\ SameTone(v, t) /\ Moved(Row(v, c), r, new)
      BY <1>4, <1>6, <2>2, <3>1, EnterRow
    <3> HIDE DEF t, r
    <3>3. Moved(p, r, new)
      BY <1>4, <3>2
    <3> QED BY <1>3, <3>2, <3>3 DEF Moved, SameTone
  <2> QED BY <2>1, <2>2
<1>8. t = Settled(k, c, md, FALSE)
  BY DEF Settled, t, new, v, u
<1>9. One(s, t, c)
  BY <1>1, <1>4, <1>7, OneTrans
<1> HIDE DEF t, r
<1>10. /\ r.state \in Resting /\ r.op = "active" /\ r.ct = "none" /\ r.listed = "on" /\ r.busy = "off"
       /\ r.ack = "off" /\ r.dir = md
  BY <1>1, <1>2, <1>5, <1>7 DEF Streamed, o
<1>11. TidyRow(r)
  BY <1>5, <1>7, <1>10 DEF TidyRow, TidyEnd, TidyHold, TidyRequest, TidyPlain, Rests, Resting, Ended, Transient
<1>12. Tidy(t)
  BY <1>9, <1>11, OneTidy DEF r
<1> QED BY <1>7, <1>8, <1>12

\* The core in which call_accepted() looks at the description, after a 2xx on our INVITE
LEMMA ConnectedRow ==
  ASSUME NEW s, NEW c \in Call, Consistent(s), Tidy(s), s.op[c] \in {"inviting", "early"}
  PROVE  LET k == Answer(Operation(s, c, "active"), c, FALSE)
         IN  /\ One(s, k, c) /\ k \in CoreType /\ k.op[c] = "active" /\ k.ct[c] = "none" /\ c \in k.calls
             /\ Row(k, c).busy = "off" /\ Row(k, c).ack = "off"
             /\ Row(k, c).listed = Row(s, c).listed /\ Row(k, c).gathering = Row(s, c).gathering
             /\ k.state[c] \in {"Connected", "EarlyUpdatedByRemote"} /\ k.prev[c] \in Outgoing
<1> DEFINE q == Operation(s, c, "active")
           k == Answer(q, c, FALSE)
           o == Row(s, c)
           p == Row(q, c)
           r == Row(k, c)
<1>1. s \in CoreType /\ s.state[c] \in AwaitingAnswer \cup {"EarlyUpdatedByRemote"} /\ s.ct[c] = "none"
      /\ c \in s.calls
  <2>1. s \in CoreType /\ s.state[c] \in AwaitingAnswer \cup {"EarlyUpdatedByRemote"}
    BY PhaseStates DEF Consistent
  <2>2. s.state[c] \in Live
    BY <2>1 DEF Live, AwaitingAnswer, Outgoing, Ended, CallState
  <2> QED BY <2>1, <2>2, LiveRow
<1>2. s.state[c] = "EarlyUpdatedByRemote" => s.prev[c] \in AwaitingAnswer
  <2>1. OpFits(s.state[c], s.op[c]) /\ PrevFits(s, c)
    BY DEF Consistent, CallFits
  <2> QED BY <2>1 DEF OpFits, PrevFits
<1>3. /\ One(s, q, c) /\ q \in CoreType /\ Signalled(o, p) /\ q.op[c] = "active" /\ q.ct[c] = s.ct[c]
  <2>1. "active" \in OpPhase
    BY DEF OpPhase
  <2> QED BY <1>1, <2>1, SignalRow
<1>4. /\ q.state[c] = p.state /\ q.prev[c] = p.prev /\ (c \in q.calls <=> p.listed = "on")
      /\ p.op = q.op[c] /\ p.ct = q.ct[c]
  BY RowFields
<1>5. /\ s.state[c] = o.state /\ s.prev[c] = o.prev /\ (c \in s.calls <=> o.listed = "on")
      /\ o.busy = "off" /\ o.ack = "off"
  BY RowFields DEF Tidy, TidyRow, TidyPlain
<1>6. /\ k.state[c] = r.state /\ k.prev[c] = r.prev /\ (c \in k.calls <=> r.listed = "on")
      /\ k.op[c] = r.op /\ k.ct[c] = r.ct
  BY RowFields
<1> HIDE DEF q, o
<1>7. /\ p.busy = "off" /\ p.ack = "off" /\ p.listed = "on" /\ p.op = "active" /\ p.ct = "none"
      /\ p.gathering = o.gathering /\ p.listed = o.listed /\ p.state = o.state /\ p.prev = o.prev
  BY <1>1, <1>3, <1>4, <1>5 DEF Signalled
<1>8. CASE s.state[c] \in AwaitingAnswer
  <2>1. k = SetState(q, c, "Connected")
    BY <1>4, <1>5, <1>7, <1>8 DEF Answer, AwaitingAnswer, Outgoing
  <2>2. One(q, k, c) /\ k \in CoreType /\ Moved(p, r, "Connected")
    <3>1. "Connected" \in CallState \ (Ended \cup {"Released"})
      BY DEF CallState, Ended
    <3>2. q.state[c] \notin Ended /\ q.state[c] # "Connected"
      BY <1>4, <1>5, <1>7, <1>8 DEF Ended, AwaitingAnswer, Outgoing
    <3> QED BY <1>3, <2>1, <3>1, <3>2, EnterRow
  <2> HIDE DEF k, p, r
  <2>3. One(s, k, c)
    BY <1>3, <2>2, OneTrans
  <2>4. /\ r.op = "active" /\ r.ct = "none" /\ r.listed = "on" /\ r.busy = "off" /\ r.ack = "off"
        /\ r.listed = o.listed /\ r.gathering = o.gathering /\ r.state = "Connected" /\ r.prev \in Outgoing
    BY <1>5, <1>7, <1>8, <2>2 DEF Moved, AwaitingAnswer
  <2> QED BY <1>6, <2>2, <2>3, <2>4 DEF k, q, r, o
<1>9. CASE s.state[c] = "EarlyUpdatedByRemote"
  <2>1. k = q
    BY <1>4, <1>5, <1>7, <1>9 DEF Answer, AwaitingAnswer, Outgoing
  <2> HIDE DEF k
  <2>2. r = p
    BY <2>1
  <2>3. r.prev \in Outgoing /\ r.state = "EarlyUpdatedByRemote"
    BY <1>2, <1>5, <1>7, <1>9, <2>2 DEF AwaitingAnswer
  <2> HIDE DEF r, p
  <2>4. /\ r.op = "active" /\ r.ct = "none" /\ r.listed = "on" /\ r.busy = "off" /\ r.ack = "off"
        /\ r.listed = o.listed /\ r.gathering = o.gathering
    BY <1>7, <2>2
  <2> QED BY <1>3, <1>6, <2>1, <2>3, <2>4 DEF k, q, r, o
<1> QED BY <1>1, <1>8, <1>9

\* A 2xx on our INVITE
LEMMA Answered200Tidy ==
  ASSUME NEW s, NEW c \in Call, NEW answer \in Dir \cup Unusable, Consistent(s), Tidy(s),
         s.op[c] \in {"inviting", "early"}
  PROVE  LET t == CallAccepted(Operation(s, c, "active"), c, answer, FALSE)
         IN  Tidy(t) /\ ~ t.ring
<1> DEFINE q == Operation(s, c, "active")
           k == Answer(q, c, FALSE)
           md == UsableAnswer(k, c, answer)
           t == CallAccepted(q, c, answer, FALSE)
<1>1. s \in CoreType /\ q.state[c] # "EarlyUpdating"
  <2>1. s \in CoreType /\ OpFits(s.state[c], s.op[c]) /\ "active" \in OpPhase
    BY DEF Consistent, CallFits, OpPhase
  <2>2. q.state = s.state
    BY <2>1, OperationOnly
  <2> QED BY <2>1, <2>2 DEF OpFits
<1>2. /\ One(s, k, c) /\ k \in CoreType /\ k.op[c] = "active" /\ k.ct[c] = "none" /\ c \in k.calls
      /\ Row(k, c).busy = "off" /\ Row(k, c).ack = "off"
      /\ Row(k, c).listed = Row(s, c).listed /\ Row(k, c).gathering = Row(s, c).gathering
      /\ k.state[c] \in {"Connected", "EarlyUpdatedByRemote"} /\ k.prev[c] \in Outgoing
  BY ConnectedRow
<1> HIDE DEF k
<1>3. md \in Dir \cup {"bad"}
  BY <1>2, UsableAnswerType
<1>4. t = IF md = "bad" THEN AbortCall(k, c) ELSE Settled(k, c, md, FALSE)
  BY <1>1, <1>2 DEF CallAccepted, k
<1> HIDE DEF md, t, q
<1>5. CASE md = "bad"
  <2>1. Hangs(s, SalTerminate(k, c), c)
    BY <1>2, SalTerminateHangs DEF OpPhase
  <2>2. Tidy(AbortCall(k, c)) /\ ~ AbortCall(k, c).ring
    BY <1>1, <1>2, <2>1, AbortCallTidy
  <2> QED BY <1>4, <1>5, <2>2 DEF t, q
<1>6. CASE md # "bad"
  <2>1. Tidy(Settled(k, c, md, FALSE)) /\ ~ Settled(k, c, md, FALSE).ring
    BY <1>2, <1>3, <1>6, SettledTidy
  <2> QED BY <1>4, <1>6, <2>1 DEF t, q
<1> QED BY <1>5, <1>6

\* A request of ours has its answer, and the call goes back to where it was.
LEMMA RestoreTidy ==
  ASSUME NEW s \in CoreType, NEW q \in CoreType, NEW c \in Call, Tidy(s), Reason(s), One(s, q, c),
         SameTone(s, q), s.state[c] \in Transient, s.op[c] = "active", c \in s.calls,
         Row(q, c).state = Row(s, c).state, Row(q, c).prev = Row(s, c).prev, Row(q, c).op = Row(s, c).op,
         Row(q, c).ct = "none", Row(q, c).dir = Row(s, c).dir, Row(q, c).listed = Row(s, c).listed,
         Row(q, c).busy = Row(s, c).busy, Row(q, c).ack = Row(s, c).ack
  PROVE  LET t == SetState(q, c, q.prev[c])
         IN  Tidy(t) /\ Reason(t)
<1> DEFINE t == SetState(q, c, q.prev[c])
           o == Row(s, c)
           p == Row(q, c)
           r == Row(t, c)
<1>1. /\ TidyRow(o) /\ o.state \in Transient /\ o.op = "active" /\ o.listed = "on"
  BY RowFields DEF Tidy
<1>2. q.prev[c] = p.prev /\ q.state[c] = p.state
  BY RowFields
<1> HIDE DEF o, p
<1>3. /\ p.state = o.state /\ p.prev = o.prev /\ p.op = "active" /\ p.ct = "none" /\ p.dir = o.dir
      /\ p.listed = "on" /\ p.busy = o.busy /\ p.ack = o.ack
  BY <1>1 DEF o, p
<1>4. o.prev \in Resting \cup Transient /\ (~ UseIce => o.prev \in Resting)
  BY <1>1 DEF TidyRow, TidyRequest
<1>5. /\ One(q, t, c) /\ SameTone(q, t) /\ r.op = p.op /\ r.ct = p.ct /\ r.dir = p.dir /\ r.listed = p.listed
      /\ r.busy = p.busy /\ r.ack = p.ack /\ r.state = o.prev
      /\ r.prev = IF o.state = o.prev THEN o.prev ELSE o.state
  <2>1. CASE q.state[c] = q.prev[c]
    <3>1. t = q
      BY <2>1 DEF SetState
    <3>2. One(q, q, c) /\ SameTone(q, q)
      BY DEF One, SameTone
    <3> HIDE DEF t
    <3>3. r = p
      BY <3>1 DEF p
    <3> QED BY <1>2, <1>3, <2>1, <3>1, <3>2, <3>3
  <2>2. CASE q.state[c] # q.prev[c]
    <3>1. q.prev[c] \in CallState \ (Ended \cup {"Released"}) /\ q.state[c] \notin Ended
      BY <1>1, <1>2, <1>3, <1>4 DEF CallState, Ended, Resting, Transient
    <3>2. One(q, t, c) /\ SameTone(q, t) /\ Moved(p, r, q.prev[c])
      BY <2>2, <3>1, EnterRow DEF p
    <3> HIDE DEF t, r
    <3> QED BY <1>2, <1>3, <2>2, <3>2 DEF Moved
  <2> QED BY <2>1, <2>2
<1>6. t.op[c] = r.op /\ t.state[c] = r.state /\ (c \in t.calls <=> r.listed = "on")
  BY RowFields
<1>7. One(s, t, c) /\ SameTone(s, t)
  BY <1>5, OneTrans DEF SameTone
<1> HIDE DEF t, r
<1>8. TidyRow(r)
  <2>1. TidyEnd(r)
    BY <1>3, <1>4, <1>5 DEF TidyEnd, Ended, Resting, Transient
  <2>2. TidyHold(r)
    BY <1>1, <1>3, <1>4, <1>5 DEF TidyRow, TidyHold, Rests, Resting, Transient
  <2>3. TidyRequest(r)
    BY <1>1, <1>3, <1>4, <1>5 DEF TidyRequest, Resting, Transient
  <2>4. TidyPlain(r)
    BY <1>1, <1>3, <1>4, <1>5 DEF TidyRow, TidyPlain, Resting, Transient
  <2> QED BY <2>1, <2>2, <2>3, <2>4 DEF TidyRow
<1>9. Tidy(t)
  BY <1>7, <1>8, OneTidy DEF r
<1>10. Reason(t)
  BY <1>3, <1>4, <1>5, <1>6, <1>7, ReasonStays DEF SameTone, Resting, Transient
<1> QED BY <1>9, <1>10 DEF t

\* A response accepts our re-INVITE or UPDATE.
LEMMA OfferAcceptedTidy ==
  ASSUME NEW s, NEW c \in Call, NEW answer \in Dir \cup Unusable, Consistent(s), Tidy(s), Reason(s),
         s.ct[c] # "none"
  PROVE  LET t == CallAccepted(RequestDone(s, c), c, answer, FALSE)
         IN  Tidy(t) /\ Reason(t)
<1> DEFINE q == RequestDone(s, c)
           md == UsableAnswer(q, c, answer)
           t == CallAccepted(q, c, answer, FALSE)
           o == Row(s, c)
           p == Row(q, c)
<1>1. s \in CoreType /\ s.op[c] = "active" /\ s.state[c] \in Transient /\ s.prev[c] \in Resting \cup Transient
  BY RowFields DEF Consistent, CallFits, RequestFits, Tidy, TidyRow, TidyRequest
<1>2. c \in s.calls
  <2>1. s.state[c] \in Live
    BY <1>1 DEF Live, Transient, Ended, CallState
  <2> QED BY <2>1, LiveRow
<1>3. /\ One(s, q, c) /\ SameTone(s, q) /\ q \in CoreType /\ Signalled(o, p)
      /\ q.op[c] = "active" /\ q.ct[c] = "none"
  BY <1>1, SignalRow
<1>4. /\ q.state[c] = p.state /\ q.prev[c] = p.prev /\ (c \in q.calls <=> p.listed = "on")
      /\ p.op = q.op[c] /\ p.ct = q.ct[c]
  BY RowFields
<1>5. /\ s.state[c] = o.state /\ s.prev[c] = o.prev /\ (c \in s.calls <=> o.listed = "on") /\ s.op[c] = o.op
      /\ o.busy = "off"
  BY RowFields DEF Tidy, TidyRow, TidyPlain
<1> HIDE DEF q, o, p
<1>6. /\ q.state[c] = s.state[c] /\ q.prev[c] = s.prev[c] /\ c \in q.calls /\ p.busy = "off"
      /\ p.ct = "none" /\ p.op = o.op
  BY <1>1, <1>2, <1>3, <1>4, <1>5 DEF Signalled
<1>7. Answer(q, c, FALSE) = q
  BY <1>1, <1>6 DEF Answer, Transient, AwaitingAnswer, Outgoing
<1>8. md \in Dir \cup {"bad"}
  BY <1>1, <1>3, UsableAnswerType
<1>9. t = IF md = "bad" THEN SetState(q, c, q.prev[c]) ELSE Settled(q, c, md, FALSE)
  BY <1>1, <1>6, <1>7 DEF CallAccepted, Resting, Transient, Outgoing
<1> HIDE DEF t, md
<1>10. CASE md = "bad"
  <2>1. Tidy(SetState(q, c, q.prev[c])) /\ Reason(SetState(q, c, q.prev[c]))
    BY <1>1, <1>2, <1>3, <1>6, RestoreTidy DEF Signalled, o, p
  <2> QED BY <1>9, <1>10, <2>1 DEF t, q
<1>11. CASE md # "bad"
  <2>1. q.state[c] \in Settling
    BY <1>1, <1>6 DEF Settling, Answered, Transient
  <2>2. Tidy(Settled(q, c, md, FALSE)) /\ ~ Settled(q, c, md, FALSE).ring
    BY <1>3, <1>6, <1>8, <1>11, <2>1, SettledTidy DEF p
  <2> QED BY <1>9, <1>11, <2>2 DEF t, q, Reason
<1> QED BY <1>10, <1>11

\* A final response refuses our re-INVITE.
LEMMA OfferRejectedTidy ==
  ASSUME NEW s, NEW c \in Call, NEW reason, NEW sent \in BOOLEAN, Consistent(s), Tidy(s), Reason(s), s.ct[c] # "none"
  PROVE  LET t == CallFailure(RequestDone(s, c), c, reason, sent)
         IN  Tidy(t) /\ Reason(t)
<1> DEFINE q == RequestDone(s, c)
           x == StopStreams(q, c)
           t == CallFailure(q, c, reason, sent)
           o == Row(s, c)
           p == Row(q, c)
           r == Row(x, c)
<1>1. s \in CoreType /\ s.op[c] = "active" /\ s.state[c] \in Transient
  BY RowFields DEF Consistent, CallFits, RequestFits, Tidy, TidyRow, TidyRequest
<1>2. c \in s.calls
  <2>1. s.state[c] \in Live
    BY <1>1 DEF Live, Transient, Ended, CallState
  <2> QED BY <2>1, LiveRow
<1>3. /\ One(s, q, c) /\ SameTone(s, q) /\ q \in CoreType /\ Signalled(o, p)
      /\ q.op[c] = "active" /\ q.ct[c] = "none"
  BY <1>1, SignalRow
<1>4. p.op = q.op[c] /\ p.ct = q.ct[c] /\ o.op = s.op[c] /\ o.state = s.state[c] /\ p.state = q.state[c]
      /\ p.prev = q.prev[c] /\ x.prev[c] = r.prev
  BY RowFields
<1> HIDE DEF q
<1>5. Makes(q, x, c, [p EXCEPT !.streams = "off"]) /\ SameTone(q, x)
  BY <1>3, MediaMakes
<1>6. One(q, x, c) /\ r = [p EXCEPT !.streams = "off"] /\ x \in CoreType
  BY <1>5, MakesOne
<1>7. /\ r.state = p.state /\ r.prev = p.prev /\ r.op = p.op /\ r.ct = p.ct /\ r.dir = p.dir
      /\ r.listed = p.listed /\ r.busy = p.busy /\ r.ack = p.ack
  BY <1>6 DEF Row, RowOf
<1>8. One(s, x, c) /\ SameTone(s, x)
  BY <1>3, <1>5, <1>6, OneTrans DEF SameTone
<1> HIDE DEF x, o, p, r
<1>9. Tidy(SetState(q, c, q.prev[c])) /\ Reason(SetState(q, c, q.prev[c]))
  <2>1. /\ p.state = o.state /\ p.prev = o.prev /\ p.op = o.op /\ p.dir = o.dir
        /\ p.listed = o.listed /\ p.busy = o.busy /\ p.ack = o.ack
    BY <1>1, <1>3, <1>4 DEF Signalled
  <2>2. p.ct = "none"
    BY <1>3, <1>4
  <2>3. Tidy(s) /\ Reason(s)
    OBVIOUS
  <2>4. /\ Row(q, c).state = Row(s, c).state /\ Row(q, c).prev = Row(s, c).prev
        /\ Row(q, c).op = Row(s, c).op /\ Row(q, c).ct = "none"
        /\ Row(q, c).dir = Row(s, c).dir /\ Row(q, c).listed = Row(s, c).listed
        /\ Row(q, c).busy = Row(s, c).busy /\ Row(q, c).ack = Row(s, c).ack
    BY <2>1, <2>2 DEF o, p
  <2> QED BY ZenonT(60), <1>1, <1>2, <1>3, <2>3, <2>4, RestoreTidy
<1>10. Tidy(SetState(x, c, x.prev[c])) /\ Reason(SetState(x, c, x.prev[c]))
  <2>1. /\ r.state = o.state /\ r.prev = o.prev /\ r.op = o.op /\ r.ct = "none" /\ r.dir = o.dir
        /\ r.listed = o.listed /\ r.busy = o.busy /\ r.ack = o.ack
    BY <1>1, <1>3, <1>4, <1>7 DEF Signalled
  <2> QED BY <1>1, <1>2, <1>6, <1>8, <2>1, RestoreTidy DEF o, r
<1>11. q.prev[c] = x.prev[c]
  BY <1>4, <1>7
<1>12. q.state[c] \in Transient
  BY <1>1, <1>3, <1>4 DEF Signalled
<1>13. t \in {SetState(q, c, q.prev[c]), SetState(x, c, x.prev[c])}
  BY <1>11, <1>12 DEF CallFailure, Transient, Outgoing, x
<1> HIDE DEF t
<1> QED BY <1>9, <1>10, <1>13 DEF t, q

-----------------------------------------------------------------------------
(* The end of a dialog, failures and timeouts                              *)

\* A call that is out of the list holds nothing.
Out(r) == r.listed = "off" /\ r.streams = "off" /\ r.gathering = "off"

\* The media stop and the call is over, whatever its operation.
LEMMA OverRow ==
  ASSUME NEW q \in CoreType, NEW c \in Call, NEW new \in Ended, q.state[c] \notin Ended
  PROVE  LET t == SetState(StopStreams(q, c), c, new)
             o == Row(q, c)
             r == Row(t, c)
         IN  /\ One(q, t, c) /\ t \in CoreType /\ t.ring = q.ring /\ t.current \in {q.current, NoCall}
             /\ r.state = new /\ Out(r) /\ r.op = o.op /\ r.ct = o.ct /\ r.busy = o.busy /\ r.ack = o.ack
<1> DEFINE x == StopStreams(q, c)
           t == SetState(x, c, new)
           o == Row(q, c)
           p == Row(x, c)
           r == Row(t, c)
<1>1. Makes(q, x, c, [o EXCEPT !.streams = "off"]) /\ SameTone(q, x)
  BY MediaMakes
<1>2. One(q, x, c) /\ p = [o EXCEPT !.streams = "off"] /\ x \in CoreType
  BY <1>1, MakesOne
<1>3. p.state = o.state /\ p.op = o.op /\ p.ct = o.ct /\ p.busy = o.busy /\ p.ack = o.ack
  BY <1>2 DEF Row, RowOf
<1>4. x.state[c] = p.state /\ q.state[c] = o.state
  BY RowFields
<1>5. new \in CallState \ {"Released"}
  BY DEF Ended, CallState
<1> HIDE DEF x, o, p
<1>a. x.state[c] \notin Ended /\ x.state[c] # new
  BY <1>3, <1>4
<1>6. /\ Makes(x, t, c, [Row(x, c) EXCEPT !.prev = x.state[c], !.state = new, !.streams = "off",
                                           !.gathering = "off", !.listed = "off"])
      /\ t.ring = x.ring /\ t.current = IF x.current = c THEN NoCall ELSE x.current
  BY <1>2, <1>5, <1>a, SetStateMakes
<1> HIDE DEF t
<1>7. /\ One(x, t, c) /\ t \in CoreType
      /\ r = [Row(x, c) EXCEPT !.prev = x.state[c], !.state = new, !.streams = "off",
                               !.gathering = "off", !.listed = "off"]
  BY <1>6, MakesOne
<1>8. r.state = new /\ r.listed = "off" /\ r.streams = "off" /\ r.gathering = "off" /\ r.op = p.op
      /\ r.ct = p.ct /\ r.busy = p.busy /\ r.ack = p.ack
  BY <1>7 DEF Row, RowOf, p
<1>9. One(q, t, c)
  BY <1>2, <1>7, OneTrans
<1> QED BY <1>1, <1>3, <1>6, <1>7, <1>8, <1>9 DEF SameTone, Out, t, x, o

\* A closing dialog keeps no request of either side.
LEMMA ClosingRow ==
  ASSUME NEW q \in CoreType, NEW c \in Call
  PROVE  LET t == Closing(q, c)
             o == Row(q, c)
             r == Row(t, c)
         IN  /\ One(q, t, c) /\ SameTone(q, t) /\ t \in CoreType /\ Signalled(o, r)
             /\ r.op = "terminating" /\ r.ct = "none"
<1> DEFINE u == Operation(q, c, "terminating")
           v == RequestDone(u, c)
           t == NothingPending(v, c)
           o == Row(q, c)
           r == Row(t, c)
<1>1. One(q, u, c) /\ SameTone(q, u) /\ u \in CoreType /\ Signalled(o, Row(u, c)) /\ u.op[c] = "terminating"
  <2>1. "terminating" \in OpPhase
    BY DEF OpPhase
  <2> QED BY <2>1, SignalRow
<1> HIDE DEF u
<1>2. /\ One(u, v, c) /\ SameTone(u, v) /\ v \in CoreType /\ Signalled(Row(u, c), Row(v, c))
      /\ v.op[c] = u.op[c] /\ v.ct[c] = "none"
  BY <1>1, SignalRow
<1> HIDE DEF v
<1>3. /\ One(v, t, c) /\ SameTone(v, t) /\ t \in CoreType /\ Signalled(Row(v, c), r)
      /\ t.op[c] = v.op[c] /\ t.ct[c] = v.ct[c]
  BY <1>2, SignalRow
<1>4. r.op = t.op[c] /\ r.ct = t.ct[c]
  BY RowFields
<1> HIDE DEF t
<1>5. One(q, t, c)
  BY <1>1, <1>2, <1>3, OneTrans
<1>6. Signalled(o, r)
  BY <1>1, <1>2, <1>3 DEF Signalled
<1>7. SameTone(q, t)
  BY <1>1, <1>2, <1>3 DEF SameTone
<1> QED BY <1>1, <1>2, <1>3, <1>4, <1>5, <1>6, <1>7 DEF Closing, u, v, t

\* call_released(): the operation of a call that is over goes.
LEMMA ReleasedRow ==
  ASSUME NEW q \in CoreType, NEW c \in Call, q.state[c] # "Released", c \notin q.calls
  PROVE  LET t == SetState(q, c, "Released")
             o == Row(q, c)
             r == Row(t, c)
         IN  /\ One(q, t, c) /\ SameTone(q, t) /\ t \in CoreType
             /\ r.state = "Released" /\ r.op = "none" /\ r.ct = "none" /\ r.busy = "off" /\ r.ack = "off"
             /\ r.listed = o.listed /\ r.streams = o.streams /\ r.gathering = o.gathering
<1> DEFINE m == Remembered(q, c)
           i == StateIs(m, c, "Released")
           n == NoOperation(i, c)
           f == NoReferer(n, c)
           t == Destroyed(f, c)
<1>1. "Released" \in CallState /\ "Released" \notin Ended
  BY DEF CallState, Ended
<1>2. /\ Makes(q, m, c, [Row(q, c) EXCEPT !.prev = q.state[c]]) /\ SameTone(q, m) /\ m \in CoreType
  BY <1>1, StateIsMakes, MakesRow
<1>3. Row(m, c) = [Row(q, c) EXCEPT !.prev = q.state[c]] /\ One(q, m, c)
  BY <1>2, MakesOne
<1>4. Row(m, c).listed = Row(q, c).listed /\ Row(m, c).streams = Row(q, c).streams
      /\ Row(m, c).gathering = Row(q, c).gathering
  BY <1>3 DEF Row, RowOf
<1> HIDE DEF m
<1>5. Makes(m, i, c, [Row(m, c) EXCEPT !.state = "Released"]) /\ SameTone(m, i)
  BY <1>1, <1>2, StateIsMakes
<1>6. Row(i, c) = [Row(m, c) EXCEPT !.state = "Released"] /\ One(m, i, c) /\ i \in CoreType
  BY <1>5, MakesOne
<1>7. Row(i, c).listed = Row(m, c).listed /\ Row(i, c).streams = Row(m, c).streams
      /\ Row(i, c).gathering = Row(m, c).gathering /\ Row(i, c).state = "Released"
  BY <1>6 DEF Row, RowOf
<1> HIDE DEF i
<1>8. n \in CoreType
  BY <1>6, NoOperationKeeps DEF Keeps
<1>9. \A d \in Call \ {c} : Row(n, d) = Row(i, d)
  BY <1>6 DEF NoOperation, Row, RowOf, On, CoreType
<1>10. /\ Row(n, c).listed = Row(i, c).listed /\ Row(n, c).streams = Row(i, c).streams
       /\ Row(n, c).gathering = Row(i, c).gathering /\ Row(n, c).state = Row(i, c).state
       /\ Row(n, c).op = "none" /\ Row(n, c).ct = "none" /\ Row(n, c).busy = "off"
  <2>1. /\ n.calls = i.calls /\ n.streams = i.streams /\ n.gathering = i.gathering
        /\ n.state = i.state
    BY <1>6 DEF NoOperation, CoreType
  <2>2. n.op[c] = "none" /\ n.ct[c] = "none" /\ n.busy[c] = FALSE
    BY <1>6 DEF NoOperation, CoreType
  <2> HIDE DEF n
  <2>3. /\ Row(n, c).listed = Row(i, c).listed /\ Row(n, c).streams = Row(i, c).streams
        /\ Row(n, c).gathering = Row(i, c).gathering /\ Row(n, c).state = Row(i, c).state
    BY <2>1 DEF Row, RowOf
  <2>4. On(n.busy[c]) = "off"
    BY <2>2 DEF On
  <2>5. Row(n, c).op = "none" /\ Row(n, c).ct = "none" /\ Row(n, c).busy = "off"
    BY <2>2, <2>4 DEF Row, RowOf
  <2> QED BY <2>3, <2>5
<1>11. SameTone(i, n)
  BY <1>6 DEF SameTone, NoOperation, CoreType
<1> HIDE DEF n
<1>12. Aside(n, f) /\ SameTone(n, f)
  BY <1>8, LogAside DEF NoReferer, Referer
<1>13. One(n, f, c) /\ Row(f, c) = Row(n, c) /\ f \in CoreType
  BY <1>12, AsideOne
<1> HIDE DEF f
<1>14. t \in CoreType
  BY <1>13, DestroyedKeeps DEF Keeps
<1>15. \A d \in Call \ {c} : Row(t, d) = Row(f, d)
  BY <1>13 DEF Destroyed, Row, RowOf, On, CoreType
<1>16. /\ Row(t, c).listed = Row(f, c).listed /\ Row(t, c).streams = Row(f, c).streams
       /\ Row(t, c).gathering = Row(f, c).gathering /\ Row(t, c).state = Row(f, c).state
       /\ Row(t, c).op = Row(f, c).op /\ Row(t, c).ct = Row(f, c).ct /\ Row(t, c).busy = Row(f, c).busy
       /\ Row(t, c).ack = "off"
  <2>1. /\ t.calls = f.calls /\ t.streams = f.streams /\ t.gathering = f.gathering /\ t.state = f.state
        /\ t.op = f.op /\ t.ct = f.ct /\ t.busy = f.busy
    BY <1>13 DEF Destroyed, CoreType
  <2>2. On(t.ackMedia[c]) = "off"
    BY <1>13 DEF Destroyed, CoreType, On
  <2> QED BY <2>1, <2>2 DEF Row, RowOf
<1>17. SameTone(f, t)
  BY <1>13 DEF SameTone, Destroyed, CoreType
<1> HIDE DEF t
<1>18. One(i, n, c) /\ One(f, t, c)
  BY <1>8, <1>9, <1>14, <1>15 DEF One
<1>19. One(q, t, c)
  BY <1>3, <1>6, <1>13, <1>18, OneTrans
<1>20. SameTone(q, t)
  BY <1>2, <1>5, <1>11, <1>12, <1>17 DEF SameTone
<1>21. SetState(q, c, "Released") = t
  <2>1. SetState(q, c, "Released") = Entered(q, c, "Released")
    BY DEF SetState
  <2>2. Entered(q, c, "Released") = ReleasedCall(i, c)
    BY <1>1 DEF Entered, i, m
  <2>3. c \notin i.calls
    <3>1. Row(i, c).listed = "off"
      BY <1>4, <1>7, RowFields
    <3> QED BY <3>1, RowFields
  <2>4. ReleasedCall(i, c) = t
    BY <2>3 DEF ReleasedCall, t, f, n
  <2> QED BY <2>1, <2>2, <2>4
<1> QED BY <1>4, <1>7, <1>10, <1>13, <1>14, <1>16, <1>19, <1>20, <1>21

\* A call that is out of the list is no concern of the tone.
LEMMA ReasonOutside ==
  ASSUME NEW s \in CoreType, NEW t, NEW c \in Call, Reason(s), One(s, t, c), SameTone(s, t),
         c \notin s.calls, c \notin t.calls
  PROVE  Reason(t)
<1>1. \A d \in Call \ {c} : t.op[d] = s.op[d] /\ t.state[d] = s.state[d] /\ (d \in t.calls <=> d \in s.calls)
  BY RowParts DEF One
<1>2. s.calls \subseteq Call /\ t.calls \subseteq Call
  BY DEF One, CoreType
<1>3. Placing(s) => Placing(t)
  BY <1>1, <1>2 DEF Placing
<1>4. Called(s) => Called(t)
  <2>1. t.calls = s.calls
    BY <1>1, <1>2
  <2> QED BY <1>1, <1>2, <2>1 DEF Called, SameTone
<1> QED BY <1>3, <1>4 DEF Reason, SameTone

\* The row of a released call
LEMMA GoneTidy ==
  ASSUME NEW r, r.state = "Released", r.op = "none", r.ct = "none", r.busy = "off", r.ack = "off",
         r.listed = "off" => r.streams = "off" /\ r.gathering = "off"
  PROVE  TidyRow(r)
<1>1. r.state \notin Ended \cup Transient
  BY DEF Ended, Transient
<1> QED BY <1>1 DEF TidyRow, TidyEnd, TidyHold, TidyRequest, TidyPlain, Rests

\* A call that is over, with its dialog closing or with no operation any more.
LEMMA OverTidy ==
  ASSUME NEW s, NEW x \in CoreType, NEW c \in Call, Tidy(s), One(s, x, c), x.state[c] \in Ended,
         Out(Row(x, c)), Row(x, c).busy = "off", Row(x, c).ack = "off"
  PROVE  /\ Tidy(Closing(x, c)) /\ One(s, Closing(x, c), c) /\ SameTone(x, Closing(x, c))
         /\ LET d == RequestDone(x, c)
                t == SetState(d, c, "Released")
            IN  Tidy(t) /\ One(s, t, c) /\ SameTone(x, t)
<1> DEFINE k == Closing(x, c)
           d == RequestDone(x, c)
           t == SetState(d, c, "Released")
           o == Row(x, c)
<1>1. o.state \in Ended /\ x.state[c] = o.state
  BY RowFields
<1>2. /\ One(x, k, c) /\ SameTone(x, k) /\ Signalled(o, Row(k, c))
      /\ Row(k, c).op = "terminating" /\ Row(k, c).ct = "none"
  BY ClosingRow
<1>3. One(x, d, c) /\ SameTone(x, d) /\ d \in CoreType /\ Signalled(o, Row(d, c))
  BY SignalRow
<1>4. d.state[c] = Row(d, c).state /\ (c \notin d.calls <=> Row(d, c).listed = "off")
  BY RowFields
<1> HIDE DEF k, d, o
<1>5. TidyRow(Row(k, c))
  BY <1>1, <1>2, EndedTidy DEF Signalled, Out, o
<1>6. One(s, k, c) /\ Tidy(k)
  BY <1>2, <1>5, OneTrans, OneTidy
<1>7. d.state[c] # "Released" /\ c \notin d.calls
  BY <1>1, <1>3, <1>4 DEF Signalled, Out, Ended, o
<1>8. /\ One(d, t, c) /\ SameTone(d, t) /\ t \in CoreType
      /\ Row(t, c).state = "Released" /\ Row(t, c).op = "none" /\ Row(t, c).ct = "none"
      /\ Row(t, c).busy = "off" /\ Row(t, c).ack = "off" /\ Row(t, c).listed = Row(d, c).listed
      /\ Row(t, c).streams = Row(d, c).streams /\ Row(t, c).gathering = Row(d, c).gathering
  BY <1>3, <1>7, ReleasedRow
<1> HIDE DEF t
<1>9. TidyRow(Row(t, c))
  BY <1>3, <1>8, GoneTidy DEF Signalled, Out, o
<1>10. One(s, t, c)
  BY <1>3, <1>8, OneTrans
<1>11. Tidy(t) /\ SameTone(x, t)
  BY <1>3, <1>8, <1>9, <1>10, OneTidy DEF SameTone
<1> QED BY <1>2, <1>6, <1>10, <1>11 DEF k, d, t

\* BYE, or the end of the dialog, and CANCEL
LEMMA DialogEndTidy ==
  ASSUME NEW s, NEW c \in Call, Consistent(s), Tidy(s), Reason(s), s.op[c] \in {"active", "ringing"}
  PROVE  LET t == Closing(CallTerminated(s, c), c)
         IN  Tidy(t) /\ Reason(t)
<1> DEFINE e == IF s.state[c] \in Alerting THEN EndReason(s, c, "timeout") ELSE s
           r == IF Cardinality(s.calls) = 1 \/ s.current # NoCall THEN StopRinging(e) ELSE e
           x == SetState(StopStreams(r, c), c, "End")
           t == Closing(x, c)
           o == Row(s, c)
<1>1. s \in CoreType /\ TidyRow(o) /\ s.state[c] = o.state /\ s.op[c] = o.op
  BY RowFields DEF Consistent, Tidy
<1>2. s.state[c] \notin Ended
  BY <1>1 DEF TidyRow, TidyEnd
<1>3. CallTerminated(s, c) = x
  BY <1>2 DEF CallTerminated
<1>4. Aside(s, e) /\ SameTone(s, e) /\ e \in CoreType
  BY <1>1, LogAside, RingAside DEF Aside, SameTone
<1> HIDE DEF e
<1>5. /\ Aside(s, r) /\ r \in CoreType /\ (r.ring => s.ring) /\ r.current = s.current
      /\ r.ring => s.current = NoCall
  <2>1. Aside(e, StopRinging(e)) /\ ~ StopRinging(e).ring /\ StopRinging(e).current = e.current /\ Aside(e, e)
    BY <1>4, RingAside
  <2>2. Aside(s, r)
    BY <1>4, <2>1, MakesTrans
  <2> QED BY <1>4, <2>1, <2>2 DEF Aside, SameTone
<1> HIDE DEF r
<1>6. One(s, r, c) /\ Row(r, c) = o /\ r.state[c] = s.state[c]
  BY <1>5, AsideOne, RowParts
<1>7. /\ One(r, x, c) /\ x \in CoreType /\ x.ring = r.ring
      /\ Row(x, c).state = "End" /\ Out(Row(x, c)) /\ Row(x, c).busy = o.busy /\ Row(x, c).ack = o.ack
  BY <1>2, <1>5, <1>6, OverRow DEF Ended
<1> HIDE DEF x, o
<1>8. x.state[c] \in Ended /\ Row(x, c).busy = "off" /\ Row(x, c).ack = "off"
  BY <1>1, <1>7, RowFields DEF TidyRow, TidyPlain, Ended
<1>9. One(s, x, c)
  BY <1>6, <1>7, OneTrans
<1>10. Tidy(t) /\ One(s, t, c) /\ SameTone(x, t)
  BY <1>7, <1>8, <1>9, OverTidy
<1> HIDE DEF t
<1>11. Reason(t)
  <2>1. CASE t.ring
    <3>1. s.ring /\ s.current = NoCall
      BY <1>5, <1>7, <1>10, <2>1 DEF SameTone
    <3>2. ~ Called(s)
      BY <1>1, <3>1, NoCallAssumption DEF Called, CoreType
    <3> QED BY <1>1, <1>10, <3>1, <3>2, ReasonElsewhere
  <2>2. CASE ~ t.ring
    BY <2>2 DEF Reason
  <2> QED BY <2>1, <2>2
<1> QED BY <1>3, <1>10, <1>11 DEF t

\* call_released()
LEMMA ReleaseTidy ==
  ASSUME NEW s, NEW c \in Call, Consistent(s), Tidy(s), Reason(s),
         s.op[c] \in {"cancelling", "terminating"}
  PROVE  LET t == SetState(s, c, "Released")
         IN  Tidy(t) /\ Reason(t)
<1> DEFINE t == SetState(s, c, "Released")
           o == Row(s, c)
           r == Row(t, c)
<1>1. s \in CoreType /\ s.state[c] \in Ended /\ c \notin s.calls
  BY PhaseStates DEF Consistent
<1>2. TidyRow(o) /\ o.listed = "off"
  BY <1>1, RowFields DEF Tidy
<1>3. /\ One(s, t, c) /\ SameTone(s, t) /\ t \in CoreType
      /\ r.state = "Released" /\ r.op = "none" /\ r.ct = "none" /\ r.busy = "off" /\ r.ack = "off"
      /\ r.listed = o.listed /\ r.streams = o.streams /\ r.gathering = o.gathering
  BY <1>1, ReleasedRow DEF Ended
<1>4. c \notin t.calls <=> r.listed = "off"
  BY RowFields
<1> HIDE DEF t, o, r
<1>5. TidyRow(r)
  BY <1>2, <1>3, GoneTidy DEF TidyRow, TidyEnd
<1>6. Tidy(t)
  BY <1>3, <1>5, OneTidy DEF r
<1>7. Reason(t)
  BY <1>1, <1>2, <1>3, <1>4, ReasonOutside
<1> QED BY <1>6, <1>7 DEF t

\* The fatal end of call_failure()
LEMMA FailedCallRow ==
  ASSUME NEW q \in CoreType, NEW c \in Call, NEW reason, q.state[c] \notin Ended
  PROVE  LET x == FailedCall(q, c, reason)
         IN  /\ One(q, x, c) /\ x \in CoreType /\ ~ x.ring /\ x.state[c] \in Ended
             /\ Out(Row(x, c)) /\ Row(x, c).busy = Row(q, c).busy /\ Row(x, c).ack = Row(q, c).ack
<1> DEFINE r == StopRinging(q)
           new == IF reason = "declined" THEN "End" ELSE "Error"
           y == SetState(StopStreams(r, c), c, new)
           x == FailedCall(q, c, reason)
<1>1. Aside(q, r) /\ ~ r.ring
  BY RingAside
<1>2. One(q, r, c) /\ Row(r, c) = Row(q, c) /\ r \in CoreType /\ r.state[c] = q.state[c]
  BY <1>1, AsideOne, RowParts
<1>3. new \in Ended
  BY DEF Ended
<1>4. x = IF q.referer[c] = NoCall THEN y ELSE QueueResume(y, q.referer[c])
  BY DEF FailedCall
<1> HIDE DEF r, new, x
<1>5. /\ One(r, y, c) /\ y \in CoreType /\ y.ring = r.ring /\ Row(y, c).state = new
      /\ Out(Row(y, c)) /\ Row(y, c).busy = Row(r, c).busy /\ Row(y, c).ack = Row(r, c).ack
  BY <1>2, <1>3, OverRow
<1> HIDE DEF y
<1>6. Aside(y, x) /\ SameTone(y, x)
  <2>1. q.referer[c] \in Call \cup {NoCall}
    BY DEF CoreType
  <2> QED BY <1>4, <1>5, <2>1, TaskAside, RingAside DEF SameTone
<1>7. One(y, x, c) /\ Row(x, c) = Row(y, c) /\ x \in CoreType
  BY <1>6, AsideOne
<1>8. x.state[c] = new
  BY <1>5, <1>7, RowFields
<1>9. One(q, x, c)
  BY <1>2, <1>5, <1>7, OneTrans
<1> QED BY <1>1, <1>2, <1>3, <1>5, <1>6, <1>7, <1>8, <1>9 DEF SameTone, x

\* The transaction of an INVITE we no longer want times out.
LEMMA CancelledTimeoutTidy ==
  ASSUME NEW s, NEW c \in Call, Consistent(s), Tidy(s), s.op[c] = "cancelling"
  PROVE  LET t == SetState(CallFailure(s, c, "other", TRUE), c, "Released")
         IN  Tidy(t) /\ Reason(t)
<1> DEFINE r == StopRinging(s)
           y == StopStreams(r, c)
           x == CallFailure(s, c, "other", TRUE)
           t == SetState(x, c, "Released")
           o == Row(s, c)
<1>1. s \in CoreType /\ s.state[c] \in Ended /\ c \notin s.calls
  BY PhaseStates DEF Consistent
<1>2. TidyRow(o) /\ o.listed = "off" /\ o.state = s.state[c]
  BY <1>1, RowFields DEF Tidy
<1>3. Aside(s, r) /\ ~ r.ring
  BY <1>1, RingAside
<1>4. One(s, r, c) /\ Row(r, c) = o /\ r \in CoreType
  BY <1>3, AsideOne
<1>5. x = FailedCall(s, c, "other")
  BY <1>1 DEF CallFailure, Ended, Transient
<1>6. x = IF s.referer[c] = NoCall THEN y ELSE QueueResume(y, s.referer[c])
  BY <1>1, <1>5 DEF FailedCall
<1> HIDE DEF r
<1>7. Makes(r, y, c, [Row(r, c) EXCEPT !.streams = "off"]) /\ SameTone(r, y)
  BY <1>4, MediaMakes
<1> HIDE DEF x, y
<1>8. One(r, y, c) /\ Row(y, c) = [o EXCEPT !.streams = "off"] /\ y \in CoreType
  <2>1. One(r, y, c) /\ Row(y, c) = [Row(r, c) EXCEPT !.streams = "off"] /\ y \in CoreType
    BY <1>7, MakesOne
  <2> QED BY <1>4, <2>1
<1>9. Aside(y, x) /\ SameTone(y, x)
  <2>1. s.referer[c] \in Call \cup {NoCall}
    BY <1>1 DEF CoreType
  <2> QED BY <1>6, <1>8, <2>1, TaskAside, RingAside DEF SameTone
<1>10. One(y, x, c) /\ Row(x, c) = [o EXCEPT !.streams = "off"] /\ x \in CoreType
  BY <1>8, <1>9, AsideOne
<1>11. Row(x, c).listed = o.listed /\ Row(x, c).streams = "off" /\ Row(x, c).gathering = o.gathering
       /\ Row(x, c).state = o.state
  BY <1>10 DEF Row, RowOf
<1>12. x.state[c] = s.state[c] /\ c \notin x.calls
  BY <1>2, <1>11, RowFields
<1>13. /\ One(x, t, c) /\ SameTone(x, t) /\ t \in CoreType
       /\ Row(t, c).state = "Released" /\ Row(t, c).op = "none" /\ Row(t, c).ct = "none"
       /\ Row(t, c).busy = "off" /\ Row(t, c).ack = "off" /\ Row(t, c).listed = Row(x, c).listed
       /\ Row(t, c).streams = Row(x, c).streams /\ Row(t, c).gathering = Row(x, c).gathering
  <2>1. x \in CoreType /\ x.state[c] # "Released" /\ c \notin x.calls
    BY <1>1, <1>10, <1>12 DEF Ended
  <2> QED BY <2>1, ReleasedRow
<1> HIDE DEF t, o
<1>14. o.gathering = "off"
  BY <1>2 DEF TidyRow, TidyEnd
<1>15. TidyRow(Row(t, c))
  BY <1>2, <1>11, <1>13, <1>14, GoneTidy
<1>16. One(s, t, c)
  BY <1>4, <1>8, <1>10, <1>13, OneTrans
<1>17. Tidy(t) /\ ~ t.ring
  BY <1>3, <1>7, <1>9, <1>13, <1>15, <1>16, OneTidy DEF SameTone
<1> QED BY <1>17 DEF Reason, t, x

\* The user let it ring too long.
LEMMA IncomingTimeoutTidy ==
  ASSUME NEW s, NEW c \in Call, Consistent(s), Tidy(s), s.state[c] \in Alerting
  PROVE  LET t == DeclineCall(EndReason(LogStatus(s, c, "missed"), c, "timeout"), c)
         IN  Tidy(t) /\ Reason(t)
<1> DEFINE l == LogStatus(s, c, "missed")
           q == EndReason(l, c, "timeout")
           t == TerminateLocally(SalTerminate(q, c), c)
<1>1. s \in CoreType /\ s.op[c] = "ringing"
  BY AlertingRow DEF Consistent
<1>2. Row(s, c).busy = "off" /\ Row(s, c).ack = "off"
  BY DEF Tidy, TidyRow, TidyPlain
<1>3. Aside(s, l) /\ l \in CoreType
  BY <1>1, LogAside DEF Aside
<1> HIDE DEF l
<1>4. Aside(l, q)
  BY <1>3, LogAside
<1>5. Aside(s, q)
  BY <1>3, <1>4, MakesTrans
<1> HIDE DEF q
<1>6. One(s, q, c) /\ Row(q, c) = Row(s, c) /\ q.op[c] = s.op[c]
  <2>1. One(s, q, c) /\ Row(q, c) = Row(s, c)
    BY <1>5, AsideOne
  <2> QED BY <2>1, RowParts
<1>7. Hangs(s, SalTerminate(q, c), c)
  BY <1>1, <1>2, <1>6, SalTerminateHangs DEF OpPhase
<1>8. Tidy(t) /\ ~ t.ring
  BY <1>1, <1>7, TerminateLocallyTidy
<1> QED BY <1>8 DEF DeclineCall, Reason, q, l

\* A new operation takes over: linphone_core_restart_invite()
LEMMA NextOperationRow ==
  ASSUME NEW q \in CoreType, NEW c \in Call, q.retries[c] < MaxRetries
  PROVE  LET t == NextOperation(q, c)
             o == Row(q, c)
             r == Row(t, c)
         IN  /\ One(q, t, c) /\ t \in CoreType /\ t.state[c] = q.state[c] /\ t.ct[c] = "none"
             /\ (c \in t.calls <=> c \in q.calls) /\ r.busy = "off" /\ r.ack = o.ack
<1> DEFINE t == NextOperation(q, c)
<1>1. t \in CoreType
  BY NextOperationKeeps DEF Keeps
<1>2. \A d \in Call \ {c} : Row(t, d) = Row(q, d)
  BY DEF NextOperation, Row, RowOf, On, CoreType
<1>3. t.state = q.state /\ t.calls = q.calls /\ t.ackMedia = q.ackMedia
  BY DEF NextOperation, CoreType
<1>4. t.ct[c] = "none" /\ On(t.busy[c]) = "off"
  BY DEF NextOperation, CoreType, On
<1> HIDE DEF t
<1>5. Row(t, c).busy = "off" /\ Row(t, c).ack = Row(q, c).ack
  BY <1>3, <1>4 DEF Row, RowOf
<1> QED BY <1>1, <1>2, <1>3, <1>4, <1>5 DEF One, t

\* The streams stop, and nothing else changes.
LEMMA StoppedRow ==
  ASSUME NEW q \in CoreType, NEW c \in Call
  PROVE  LET t == StopStreams(q, c)
         IN  /\ One(q, t, c) /\ t \in CoreType /\ t.state[c] = q.state[c] /\ t.retries = q.retries
             /\ t.ct[c] = q.ct[c] /\ (c \in t.calls <=> c \in q.calls)
             /\ Row(t, c).busy = Row(q, c).busy /\ Row(t, c).ack = Row(q, c).ack
<1> DEFINE t == StopStreams(q, c)
<1>1. Makes(q, t, c, [Row(q, c) EXCEPT !.streams = "off"])
  BY MediaMakes
<1>2. t.state = q.state /\ t.retries = q.retries /\ t.ct = q.ct /\ t.calls = q.calls
  BY DEF StopStreams, CoreType
<1> HIDE DEF t
<1>3. One(q, t, c) /\ t \in CoreType /\ Row(t, c) = [Row(q, c) EXCEPT !.streams = "off"]
  BY <1>1, MakesOne
<1>4. Row(t, c).busy = Row(q, c).busy /\ Row(t, c).ack = Row(q, c).ack
  BY <1>3 DEF Row, RowOf
<1> QED BY <1>2, <1>3, <1>4 DEF t

\* An error response to our INVITE: another one leaves, or the call is over.
LEMMA InviteFailedTidy ==
  ASSUME NEW s, NEW c \in Call, NEW reason, reason # "pending",
         Consistent(s), Tidy(s), s.op[c] \in {"inviting", "early"}
  PROVE  LET f == CallFailure(s, c, reason, TRUE)
             t == IF f.retries[c] # s.retries[c] THEN f
                  ELSE IF s.op[c] = "inviting" THEN SetState(RequestDone(f, c), c, "Released")
                  ELSE Closing(f, c)
         IN  Tidy(t) /\ Reason(t)
<1> DEFINE g == IF reason = "redirect" THEN StopStreams(s, c) ELSE s
           retry == /\ reason \in {"redirect", "notacceptable"}
                    /\ s.state[c] \in Outgoing /\ s.retries[c] < MaxRetries
           f == CallFailure(s, c, reason, TRUE)
           t == IF f.retries[c] # s.retries[c] THEN f
                ELSE IF s.op[c] = "inviting" THEN SetState(RequestDone(f, c), c, "Released")
                ELSE Closing(f, c)
<1>1. /\ s \in CoreType /\ s.state[c] \in AwaitingAnswer \cup {"EarlyUpdatedByRemote"} /\ s.ct[c] = "none"
      /\ c \in s.calls
  <2>1. s \in CoreType /\ s.state[c] \in AwaitingAnswer \cup {"EarlyUpdatedByRemote"}
    BY PhaseStates DEF Consistent
  <2>2. s.state[c] \in Live
    BY <2>1 DEF Live, AwaitingAnswer, Outgoing, Ended, CallState
  <2> QED BY <2>1, <2>2, LiveRow
<1>2. s.state[c] \notin Transient \cup Ended \cup {"Released"}
  BY <1>1 DEF AwaitingAnswer, Outgoing, Transient, Ended
<1>3. /\ retry => f = RestartInvite(g, c, TRUE)
      /\ ~ retry => f = FailedCall(g, c, reason)
  BY <1>2 DEF CallFailure
<1>4. Row(s, c).busy = "off" /\ Row(s, c).ack = "off"
  BY DEF Tidy, TidyRow, TidyPlain
<1>5. Silent(s, g) /\ Consistent(g)
  <2>1. Silent(s, g)
    BY <1>1, RingIsSilent, MediaIsSilent
  <2> HIDE DEF g
  <2> QED BY <2>1, SilentLeads DEF Leads
<1>6. /\ One(s, g, c) /\ g \in CoreType /\ g.state[c] = s.state[c] /\ g.retries = s.retries
      /\ g.ct[c] = "none" /\ c \in g.calls /\ Row(g, c).busy = "off" /\ Row(g, c).ack = "off"
  <2>1. CASE reason = "redirect"
    <3>1. g = StopStreams(s, c)
      BY <2>1
    <3> QED BY <1>1, <1>4, <3>1, StoppedRow
  <2>2. CASE reason # "redirect"
    <3>1. g = s
      BY <2>2
    <3> QED BY <1>1, <1>4, <3>1 DEF One
  <2> QED BY <2>1, <2>2
<1> HIDE DEF g, f
<1>7. CASE retry
  <2> DEFINE h == StopStreams(g, c)
             n == NextOperation(h, c)
  <2>1. /\ One(g, h, c) /\ h \in CoreType /\ h.state[c] = g.state[c] /\ h.retries = g.retries
        /\ h.ct[c] = g.ct[c] /\ (c \in h.calls <=> c \in g.calls)
        /\ Row(h, c).busy = Row(g, c).busy /\ Row(h, c).ack = Row(g, c).ack
    BY <1>6, StoppedRow
  <2> HIDE DEF h
  <2>2. /\ One(h, n, c) /\ n \in CoreType /\ n.state[c] = h.state[c] /\ n.ct[c] = "none"
        /\ (c \in n.calls <=> c \in h.calls) /\ Row(n, c).busy = "off" /\ Row(n, c).ack = Row(h, c).ack
    BY <1>6, <1>7, <2>1, NextOperationRow
  <2>3. f = StartInvite(n, c, TRUE)
    BY <1>3, <1>7 DEF RestartInvite, n, h
  <2> HIDE DEF n
  <2>4. One(s, n, c)
    BY <1>6, <2>1, <2>2, OneTrans
  <2>5. Tidy(f) /\ Placing(f)
    BY <1>6, <1>7, <2>1, <2>2, <2>3, <2>4, StartInviteTidy
  <2>6. f.retries[c] # s.retries[c]
    BY <1>3, <1>5, <1>6, <1>7, RestartInviteRetries
  <2> QED BY <2>5, <2>6 DEF Reason, f
<1>8. CASE ~ retry
  <2>1. f = FailedCall(g, c, reason)
    BY <1>3, <1>8
  <2>2. /\ One(g, f, c) /\ f \in CoreType /\ ~ f.ring /\ f.state[c] \in Ended
        /\ Out(Row(f, c)) /\ Row(f, c).busy = "off" /\ Row(f, c).ack = "off"
    BY <1>2, <1>6, <2>1, FailedCallRow
  <2>3. f.retries = s.retries
    <3>1. s.state[c] # "Released" /\ Silent(s, g) /\ g.retries = s.retries /\ Consistent(s)
      BY <1>2, <1>5, <1>6
    <3>2. FailedCall(g, c, reason).retries = s.retries
      BY <3>1, FailedCallOnly
    <3> QED BY <2>1, <3>2
  <2>4. One(s, f, c)
    BY <1>6, <2>2, OneTrans
  <2>5. /\ Tidy(Closing(f, c)) /\ SameTone(f, Closing(f, c))
        /\ Tidy(SetState(RequestDone(f, c), c, "Released"))
        /\ SameTone(f, SetState(RequestDone(f, c), c, "Released"))
    BY <2>2, <2>4, OverTidy
  <2>6. Reason(Closing(f, c)) /\ Reason(SetState(RequestDone(f, c), c, "Released"))
    BY <2>2, <2>5 DEF Reason, SameTone
  <2>7. t \in {Closing(f, c), SetState(RequestDone(f, c), c, "Released")}
    BY <2>3
  <2> HIDE DEF t
  <2>8. Tidy(t) /\ Reason(t)
    BY <2>5, <2>6, <2>7
  <2> QED BY <2>8 DEF t, f
<1> QED BY <1>7, <1>8

-----------------------------------------------------------------------------
(* The actions                                                             *)

\* The inductive invariant: the calls, their media, and the tone.
Orderly(s) == Consistent(s) /\ Tidy(s) /\ Reason(s)

\* What the environment may choose when nothing out of the ordinary happens.
LEMMA QuietWorld ==
  ASSUME Quiet
  PROVE  /\ Sent = {TRUE} /\ Hangup = {FALSE} /\ Mannerly
         /\ Regather \subseteq BOOLEAN /\ \A regather \in Regather : regather => UseIce
         /\ Offers \subseteq Offer \ {"nosdp"} /\ Answers \subseteq Dir \cup Unusable
BY SwitchAssumption DEF Quiet, Sent, Hangup, Regather, Mannerly

\* linphone_core_init(): no call, and no tone.
LEMMA InitOrderly == Init => Tidy(lc) /\ Reason(lc)
<1> SUFFICES ASSUME Init PROVE Tidy(lc) /\ Reason(lc)
  OBVIOUS
<1>1. ~ lc.ring
  BY DEF Init, EmptyCore
<1>2. ASSUME NEW c \in Call PROVE TidyRow(Row(lc, c))
  <2>1. /\ lc.state[c] = "Idle" /\ lc.prev[c] = "Idle" /\ lc.op[c] = "none" /\ lc.ct[c] = "none"
        /\ lc.pend[c] = {} /\ lc.dir[c] = "none" /\ lc.rmd[c] = "nosdp" /\ lc.calls = {}
        /\ ~ lc.streams[c] /\ ~ lc.gathering[c] /\ ~ lc.busy[c] /\ ~ lc.ackMedia[c]
    BY DEF Init, EmptyCore
  <2> DEFINE r == Row(lc, c)
  <2>2. /\ r.state = "Idle" /\ r.prev = "Idle" /\ r.op = "none" /\ r.ct = "none"
        /\ r.streams = "off" /\ r.gathering = "off" /\ r.listed = "off" /\ r.busy = "off" /\ r.ack = "off"
    BY <2>1 DEF Row, RowOf, On
  <2> HIDE DEF r
  <2>3. TidyEnd(r) /\ TidyHold(r) /\ TidyRequest(r) /\ TidyPlain(r)
    BY <2>2 DEF TidyEnd, TidyHold, TidyRequest, TidyPlain, Rests, Ended, Transient
  <2> QED BY <2>3 DEF TidyRow, r
<1> QED BY <1>1, <1>2 DEF Tidy, Reason

\* The public API
LEMMA UserOrderly ==
  ASSUME Quiet, Orderly(lc), NEW c \in Call, UserStep(c)
  PROVE  Tidy(lc') /\ Reason(lc')
<1>1. Consistent(lc) /\ Tidy(lc) /\ Reason(lc) /\ lc \in CoreType /\ CallFits(lc, c)
  BY DEF Orderly, Consistent
<1>2. CASE Invite(c)
  <2>1. lc' = InviteCall(lc, c, NoCall, TRUE) /\ lc.state[c] = "Idle" /\ lc.op[c] = "none"
    BY <1>2, QuietWorld DEF Invite, Fresh
  <2>2. NoCall \in Call \cup {NoCall}
    OBVIOUS
  <2>3. Tidy(lc') /\ ~ lc'.ring
    BY <1>1, <2>1, <2>2, InviteCallTidy
  <2> QED BY <2>3 DEF Reason
<1>3. CASE AcceptEarlyMedia(c)
  BY <1>1, <1>3, AcceptEarlyMediaTidy DEF AcceptEarlyMedia
<1>4. CASE Accept(c)
  <2>1. lc' = AcceptCall(lc, c, FALSE) /\ lc.state[c] \in Alerting
    <3>1. Hangup = {FALSE}
      BY QuietWorld
    <3> QED BY <1>4, <3>1 DEF Accept
  <2>2. Tidy(lc') /\ ~ lc'.ring
    BY <1>1, <2>1, AcceptCallTidy
  <2> QED BY <2>2 DEF Reason
<1>5. ASSUME lc' = TerminateCall(lc, c), lc.state[c] \notin {"Idle", "End", "Released"}
      PROVE  Tidy(lc') /\ Reason(lc')
  <2>1. lc.op[c] # "none" \/ lc.state[c] \in Ended
    <3>1. lc.state[c] \in CallState /\ OpFits(lc.state[c], lc.op[c])
      BY <1>1 DEF CallFits, CoreType
    <3> QED BY <1>5, <3>1 DEF OpFits, CallState, Ended, AwaitingAnswer, Outgoing, Alerting, Answered
  <2>2. Tidy(TerminateCall(lc, c)) /\ ~ TerminateCall(lc, c).ring
    BY <1>1, <1>5, <2>1, TerminateCallTidy
  <2> QED BY <1>5, <2>2 DEF Reason
<1>6. CASE Decline(c)
  <2>1. lc.state[c] \in Alerting /\ lc' = DeclineCall(lc, c)
    BY <1>6 DEF Decline
  <2>2. lc' = TerminateCall(lc, c) /\ lc.state[c] \notin {"Idle", "End", "Released"}
    BY <2>1, DeclineIsTerminate DEF Alerting
  <2> QED BY <1>5, <2>2
<1>7. CASE Terminate(c)
  BY <1>5, <1>7 DEF Terminate
<1>8. CASE Pause(c)
  <2>1. lc' = PauseCall(lc, c) /\ c \in lc.calls /\ lc.state[c] \in {"StreamsRunning", "PausedByRemote"}
    BY <1>8 DEF Pause
  <2>2. lc.op[c] # "ringing"
    BY <1>1, <2>1 DEF CallFits, OpFits, Answered
  <2>3. /\ Tidy(lc') /\ One(lc, lc', c) /\ lc'.ring = lc.ring /\ lc'.current \in {lc.current, NoCall}
        /\ lc'.op[c] = lc.op[c] /\ (c \in lc'.calls <=> c \in lc.calls)
        /\ lc'.state[c] \in {lc.state[c], "Pausing"}
    BY <1>1, <2>1, PauseCallTidy
  <2>4. lc'.state[c] = "Idle" => lc.state[c] = "Idle"
    BY <2>3
  <2>5. Reason(lc')
    BY <1>1, <2>1, <2>2, <2>3, <2>4, ReasonStays
  <2> QED BY <2>3, <2>5
<1>9. CASE Resume(c)
  <2>1. lc' = ResumeCall(lc, c)
    BY <1>9 DEF Resume
  <2>2. Tidy(lc') /\ (lc' = lc \/ ~ lc'.ring)
    BY <1>1, <2>1, ResumeCallTidy
  <2>3. CASE lc' = lc
    BY <1>1, <2>3
  <2>4. CASE ~ lc'.ring
    BY <2>2, <2>4 DEF Reason
  <2> QED BY <2>2, <2>3, <2>4
<1>10. CASE Update(c)
  <2>1. lc.state[c] = "StreamsRunning"
    BY <1>10 DEF Update, Quiet
  <2>2. PICK regather \in Regather : lc' = UpdateCall(lc, c, regather)
    BY <1>10 DEF Update
  <2>3. regather \in BOOLEAN /\ (regather => UseIce)
    BY <2>2, QuietWorld
  <2> QED BY <1>1, <2>1, <2>2, <2>3, UpdateCallTidy
<1>11. CASE AcceptCallUpdate(c)
  <2>1. PICK regather \in Regather : lc' = AcceptUpdate(lc, c, lc.prev[c], regather)
    BY <1>11 DEF AcceptCallUpdate
  <2>2. regather \in BOOLEAN /\ lc.state[c] = "UpdatedByRemote"
    BY <1>11, <2>1, QuietWorld DEF AcceptCallUpdate
  <2> QED BY <1>1, <2>1, <2>2, AcceptCallUpdateTidy
<1> QED BY <1>2, <1>3, <1>4, <1>6, <1>7, <1>8, <1>9, <1>10, <1>11 DEF UserStep

\* The answers to our requests
LEMMA ResponseOrderly ==
  ASSUME Quiet, Orderly(lc), NEW c \in Call,
         \/ Ringing(c) \/ Answered200(c) \/ InviteFailed(c) \/ CancelledTimeout(c)
         \/ OfferAccepted(c) \/ OfferRejected(c) \/ EarlyUpdateRejected(c)
  PROVE  Tidy(lc') /\ Reason(lc')
<1>1. Consistent(lc) /\ Tidy(lc) /\ Reason(lc) /\ lc \in CoreType /\ CallFits(lc, c)
  BY DEF Orderly, Consistent
<1>2. CASE Ringing(c)
  <2>1. PICK md \in {"none"} \cup (Answers \ Unusable) : lc' = CallRinging(Operation(lc, c, "early"), c, md)
    BY <1>2 DEF Ringing
  <2>2. md \in Dir \cup {"none"} /\ lc.op[c] \in {"inviting", "early"}
    BY <1>2, <2>1, QuietWorld DEF Ringing
  <2> QED BY <1>1, <2>1, <2>2, RingingTidy
<1>3. CASE Answered200(c)
  <2>1. PICK answer \in Answers : lc' = CallAccepted(Operation(lc, c, "active"), c, answer, FALSE)
    <3>1. Hangup = {FALSE}
      BY QuietWorld
    <3>2. PICK answer \in Answers, hangup \in Hangup :
            lc' = CallAccepted(Operation(lc, c, "active"), c, answer, hangup)
      BY <1>3 DEF Answered200
    <3>3. hangup = FALSE
      BY <3>1, <3>2
    <3> QED BY <3>2, <3>3
  <2>2. answer \in Dir \cup Unusable /\ lc.op[c] \in {"inviting", "early"}
    BY <1>3, <2>1, QuietWorld DEF Answered200
  <2>3. Tidy(lc') /\ ~ lc'.ring
    BY <1>1, <2>1, <2>2, Answered200Tidy
  <2> QED BY <2>3 DEF Reason
<1>4. CASE InviteFailed(c)
  <2>1. PICK reason \in {"declined", "redirect", "notacceptable", "other"} :
          LET f == CallFailure(lc, c, reason, TRUE)
          IN lc' = IF f.retries[c] # lc.retries[c] THEN f
                   ELSE IF lc.op[c] = "inviting"
                   THEN SetState(RequestDone(f, c), c, "Released")
                   ELSE Closing(f, c)
    BY <1>4, QuietWorld DEF InviteFailed, Quiet
  <2>2. reason # "pending" /\ lc.op[c] \in {"inviting", "early"}
    BY <1>4, <2>1 DEF InviteFailed
  <2> QED BY <1>1, <2>1, <2>2, InviteFailedTidy
<1>5. CASE CancelledTimeout(c)
  BY <1>1, <1>5, CancelledTimeoutTidy DEF CancelledTimeout
<1>6. CASE OfferAccepted(c)
  <2>1. PICK answer \in IF lc.ct[c] = "update" /\ lc.op[c] = "active"
                        THEN {IF lc.dir[c] = "none" THEN "bad" ELSE lc.dir[c]}
                        ELSE {IF a \in Unusable THEN a
                              ELSE DirOfAnswer(IF lc.ct[c] = "hold" THEN "sendonly" ELSE "sendrecv", a)
                                : a \in Answers} :
          lc' = CallAccepted(RequestDone(lc, c), c, answer, FALSE)
    BY <1>6 DEF OfferAccepted
  <2>2. answer \in Dir \cup Unusable
    <3>1. lc.dir[c] \in Dir \cup {"none"}
      BY <1>1 DEF CoreType
    <3>2. \A a \in Answers, local \in {"sendonly", "sendrecv"} :
            a \notin Unusable => DirOfAnswer(local, a) \in Dir
      BY DirOfAnswerType
    <3> QED BY <2>1, <3>1, <3>2 DEF Unusable
  <2>3. lc.ct[c] # "none"
    BY <1>6 DEF OfferAccepted
  <2> QED BY <1>1, <2>1, <2>2, <2>3, OfferAcceptedTidy
<1>7. CASE OfferRejected(c)
  <2>1. PICK reason \in {"declined", "redirect", "notacceptable", "pending", "other"} :
          lc' = CallFailure(RequestDone(lc, c), c, reason, TRUE)
    BY <1>7, QuietWorld DEF OfferRejected
  <2>2. lc.ct[c] # "none"
    BY <1>7 DEF OfferRejected
  <2> QED BY <1>1, <2>1, <2>2, OfferRejectedTidy
<1>8. CASE EarlyUpdateRejected(c)
  BY <1>1, <1>8 DEF EarlyUpdateRejected, CallFits, RequestFits
<1> QED BY <1>2, <1>3, <1>4, <1>5, <1>6, <1>7, <1>8

\* What the far end does
LEMMA RequestOrderly ==
  ASSUME Quiet, Orderly(lc), NEW c \in Call,
         \/ Receive(c) \/ EarlyOffer(c) \/ PeerOffer(c) \/ Ack(c) \/ Bye(c) \/ Cancel(c) \/ Release(c)
         \/ OtherRequest(c) \/ \E n \in Call : Refer(c, n)
  PROVE  Tidy(lc') /\ Reason(lc')
<1>1. Consistent(lc) /\ Tidy(lc) /\ Reason(lc) /\ lc \in CoreType /\ CallFits(lc, c)
  BY DEF Orderly, Consistent
<1>2. CASE Receive(c)
  <2>1. PICK offer \in Offers, replaced \in {NoCall} \cup {r \in lc.calls : lc.op[r] = "active"} :
          lc' = CallReceived(lc, c, offer, replaced, FALSE)
    <3>1. Hangup = {FALSE}
      BY QuietWorld
    <3>2. PICK offer \in Offers, reject \in Hangup,
               replaced \in {NoCall} \cup {r \in lc.calls : lc.op[r] = "active"} :
            lc' = CallReceived(lc, c, offer, replaced, reject)
      BY <1>2 DEF Receive
    <3>3. reject = FALSE
      BY <3>1, <3>2
    <3> QED BY <3>2, <3>3
  <2>2. offer \in Offer \ {"nosdp"} /\ offer \in Offers /\ lc.state[c] = "Idle" /\ lc.op[c] = "none"
    BY <1>2, <2>1, QuietWorld DEF Receive, Fresh
  <2>3. replaced \in (Call \ {c}) \cup {NoCall}
    BY <1>1, <2>1, <2>2 DEF CoreType
  <2> QED BY <1>1, <2>1, <2>2, <2>3, CallReceivedTidy
<1>3. CASE EarlyOffer(c)
  <2>1. PICK offer \in Offers, compatible \in BOOLEAN, regather \in Regather :
          /\ lc.op[c] = "ringing" => compatible
          /\ lc' = CallUpdating(OfferMade(lc, c, "update", offer), c, TRUE, compatible, FALSE, regather)
    BY <1>3 DEF EarlyOffer, Quiet
  <2>2. /\ offer \in Offer \ {"nosdp"} /\ offer \in Offers /\ regather \in BOOLEAN
        /\ lc.op[c] \in {"early", "ringing"} /\ c \in lc.calls
    BY <1>3, <2>1, QuietWorld DEF EarlyOffer
  <2> QED BY <1>1, <2>1, <2>2, EarlyOfferTidy
<1>4. CASE PeerOffer(c)
  <2>1. PICK offer \in Offers, isUpdate, compatible, deferred \in BOOLEAN, regather \in Regather :
          /\ isUpdate => "update" \notin lc.pend[c]
          /\ isUpdate => lc.state[c] # "Paused"
          /\ LET request == IF isUpdate THEN "update" ELSE "invite"
             IN lc' = CallUpdating(OfferMade(lc, c, request, offer), c,
                                   isUpdate, compatible, deferred, regather)
    BY <1>4 DEF PeerOffer, Quiet
  <2>2. /\ offer \in Offer \ {"nosdp"} /\ offer \in Offers /\ regather \in BOOLEAN
        /\ lc.op[c] = "active" /\ c \in lc.calls /\ "invite" \notin lc.pend[c]
    BY <1>4, <2>1, QuietWorld DEF PeerOffer
  <2>3. isUpdate => "update" \notin lc.pend[c] /\ lc.state[c] # "Paused"
    BY <2>1
  <2> QED BY <1>1, <2>1, <2>2, <2>3, PeerOfferTidy
<1>5. CASE Ack(c)
  <2>1. lc.ackMedia[c] /\ Row(lc, c).ack = "off"
    BY <1>1, <1>5 DEF Ack, Tidy, TidyRow, TidyPlain
  <2> QED BY <2>1 DEF Row, RowOf, On
<1>6. CASE Bye(c) \/ Cancel(c)
  <2>1. lc' = Closing(CallTerminated(lc, c), c) /\ lc.op[c] \in {"active", "ringing"}
    BY <1>6 DEF Bye, Cancel
  <2> QED BY <1>1, <2>1, DialogEndTidy
<1>7. CASE Release(c)
  BY <1>1, <1>7, ReleaseTidy DEF Release
<1>8. CASE OtherRequest(c)
  BY <1>8 DEF OtherRequest, Quiet
<1>9. ASSUME NEW n \in Call, Refer(c, n) PROVE Tidy(lc') /\ Reason(lc')
  <2>1. /\ lc.op[c] = "active" /\ c \in lc.calls /\ lc.ct[c] = "none" /\ lc.pend[c] = {}
        /\ n \in Call \ {c} /\ lc.state[n] = "Idle" /\ lc.op[n] = "none"
    BY <1>9 DEF Refer, Fresh, Quiet
  <2>2. lc' = StartReferedCall(SetState(lc, c, "Refered"), c, n, TRUE)
    BY <1>9, QuietWorld DEF Refer
  <2>3. Tidy(lc') /\ ~ lc'.ring
    BY <1>1, <2>1, <2>2, ReferTidy
  <2> QED BY <2>3 DEF Reason
<1> QED BY <1>2, <1>3, <1>4, <1>5, <1>6, <1>7, <1>8, <1>9

\* linphone_core_iterate()
LEMMA TimerOrderly ==
  ASSUME Quiet, Orderly(lc), NEW c \in Call, TimerStep(c)
  PROVE  Tidy(lc') /\ Reason(lc')
<1>1. Consistent(lc) /\ Tidy(lc) /\ Reason(lc) /\ lc \in CoreType
  BY DEF Orderly, Consistent
<1>2. CASE IncomingTimeout(c)
  BY <1>1, <1>2, IncomingTimeoutTidy DEF IncomingTimeout
<1>3. CASE DelayedInvite(c)
  <2>1. Sent = {TRUE}
    BY QuietWorld
  <2>2. lc' = StartInvite(Gathering(lc, c, FALSE), c, TRUE) /\ c \in lc.calls /\ lc.state[c] = "OutgoingInit"
    BY <1>3, <2>1 DEF DelayedInvite
  <2> QED BY <1>1, <2>2, DelayedInviteTidy
<1>4. CASE Gathered(c)
  <2>1. lc' = IceGathered(lc, c, TRUE) /\ lc.gathering[c]
    BY <1>4, QuietWorld DEF Gathered
  <2>2. Row(lc, c).listed = "off" => Row(lc, c).gathering = "off"
    BY <1>1 DEF Tidy, TidyRow, TidyEnd
  <2>3. c \in lc.calls
    BY <2>1, <2>2 DEF Row, RowOf, On
  <2> QED BY <1>1, <2>1, <2>3, IceGatheredTidy
<1>5. CASE RunTask(c)
  BY <1>1, <1>5, ResumeTaskTidy DEF RunTask
<1> QED BY <1>2, <1>3, <1>4, <1>5 DEF TimerStep

\* Every step keeps the invariant.
LEMMA NextOrderly ==
  ASSUME Quiet, Orderly(lc), [Next]_lc
  PROVE  Orderly(lc')
<1>1. Consistent(lc')
  BY QuietWorld, NextLeads DEF Leads, Orderly
<1>2. CASE UNCHANGED lc
  BY <1>2 DEF Orderly
<1>3. ASSUME NEW c \in Call, UserStep(c) \/ SalStep(c) \/ TimerStep(c)
      PROVE  Tidy(lc') /\ Reason(lc')
  BY <1>3, UserOrderly, ResponseOrderly, RequestOrderly, TimerOrderly DEF SalStep
<1> QED BY <1>1, <1>2, <1>3 DEF Next, Orderly

-----------------------------------------------------------------------------
(* The current call, from step to step                                     *)

\* call_accepted() makes no call current but its own.
LEMMA CallAcceptedTakes ==
  ASSUME NEW s \in CoreType, NEW c \in Call, NEW answer \in Dir \cup Unusable
  PROVE  CallAccepted(s, c, answer, FALSE).current \in {s.current, NoCall, c}
<1> DEFINE k == Answer(s, c, FALSE)
           md == UsableAnswer(k, c, answer)
           early == s.state[c] = "EarlyUpdating"
           u == UpdateStreams(k, c, md)
           v == IF md = "sendrecv" THEN MakeCurrent(u, c) ELSE u
           next == CASE md \in {"sendonly", "inactive"} -> "Paused"
                     [] md = "recvonly" -> "PausedByRemote"
                     [] OTHER -> "StreamsRunning"
<1>1. Keeps(s, k) /\ k \in CoreType
  BY AnswerKeeps DEF Keeps
<1>2. CallAccepted(s, c, answer, FALSE) =
        CASE md = "bad" /\ k.prev[c] \in Outgoing -> AbortCall(k, c)
          [] md = "bad" /\ k.prev[c] \notin Outgoing -> SetState(k, c, k.prev[c])
          [] OTHER -> Settled(k, c, md, early)
  BY DEF CallAccepted
<1> HIDE DEF k, early
<1>3. md \in Dir \cup {"bad"}
  BY <1>1, UsableAnswerType
<1> HIDE DEF md
<1>4. Keeps(k, AbortCall(k, c)) /\ Keeps(k, SetState(k, c, k.prev[c]))
  BY <1>1, AbortCallKeeps, SetStateBack
<1>5. Settled(k, c, md, early) = IF early THEN v ELSE SetState(v, c, next)
  BY DEF Settled
<1>6. ASSUME md # "bad" PROVE Settled(k, c, md, early).current \in {k.current, NoCall, c}
  <2>1. Keeps(k, u) /\ u \in CoreType
    BY <1>1, <1>3, <1>6, UpdateStreamsKeeps DEF Keeps
  <2> HIDE DEF u
  <2>2. v \in CoreType /\ v.current \in {u.current, c}
    BY <2>1, CurrentAside DEF Aside
  <2>3. next \in CallState
    BY DEF CallState
  <2> HIDE DEF v, next
  <2>4. Keeps(v, SetState(v, c, next))
    BY <2>2, <2>3, SetStateKeeps
  <2> QED BY <1>5, <2>1, <2>2, <2>4 DEF Keeps
<1> HIDE DEF u, v, next
<1> QED BY <1>1, <1>2, <1>4, <1>6 DEF Keeps

\* Candidates that come without ICE announce no call.
LEMMA GatheredKeeps ==
  ASSUME NEW c \in Call, ~ UseIce, Orderly(lc), Gathered(c)
  PROVE  Keeps(lc, lc')
<1> DEFINE g == Gathering(lc, c, FALSE)
<1>1. lc \in CoreType /\ CallFits(lc, c) /\ TidyRow(Row(lc, c)) /\ c \in lc.calls
  BY DEF Orderly, Consistent, Tidy, Gathered
<1>2. lc.state[c] # "Idle"
  <2>1. lc.state[c] = "Idle" => lc.op[c] = "none"
    BY <1>1, RowFields DEF TidyRow, TidyPlain
  <2> QED BY <1>1, <2>1 DEF CallFits, ListFits, Live
<1>3. PICK sent \in Sent : lc' = IceGathered(lc, c, sent)
  BY DEF Gathered
<1>4. Keeps(lc, g) /\ g \in CoreType
  BY <1>1, GatheringKeeps DEF Keeps
<1>5. lc' \in {g, SalUpdate(g, c, "reinvite"), StartAcceptUpdate(g, c, lc.prev[c]), StartInvite(g, c, sent)}
  BY <1>2, <1>3 DEF IceGathered
<1>6. lc.prev[c] \in CallState /\ "reinvite" \in Request /\ sent \in BOOLEAN
  BY <1>1, <1>3, InputTypes DEF CoreType, Request
<1> HIDE DEF g
<1>7. /\ Keeps(g, SalUpdate(g, c, "reinvite")) /\ Keeps(g, StartAcceptUpdate(g, c, lc.prev[c]))
      /\ Keeps(g, StartInvite(g, c, sent)) /\ Keeps(g, g)
  BY <1>4, <1>6, SalUpdateKeeps, StartAcceptUpdateKeeps, StartInviteKeeps, KeepsSelf
<1>8. Keeps(g, lc')
  BY <1>5, <1>7
<1> QED BY <1>4, <1>8, KeepsTrans

\* The steps in which another call may become current: either the one that was does not
\* run any more, or a call is placed for the transfer of another, or the call was
\* current before and has the answer to a request of ours.
NextTurns ==
  \/ Turns(lc, lc')
  \/ lc'.referer[lc'.current] \notin {NoCall, lc.current}
  \/ lc.state[lc'.current] \in Outgoing \cup Transient

\* The public API
LEMMA UserTurns ==
  ASSUME Quiet, "recvonly" \notin Offers, Orderly(lc), NEW c \in Call, UserStep(c)
  PROVE  NextTurns
<1>1. Consistent(lc) /\ Tidy(lc) /\ Reason(lc) /\ TypeOK
  BY DEF Orderly, Consistent, TypeOK
<1>2. CASE Invite(c)
  <2>1. lc' = InviteCall(lc, c, NoCall, TRUE) /\ lc.state[c] = "Idle" /\ lc.op[c] = "none"
    BY <1>2, QuietWorld DEF Invite, Fresh
  <2>2. NoCall \in Call \cup {NoCall}
    OBVIOUS
  <2>3. Turns(lc, lc')
    BY <1>1, <2>1, <2>2, InviteCallTidy
  <2> QED BY <2>3 DEF NextTurns
<1>3. CASE Accept(c)
  <2>1. lc' = AcceptCall(lc, c, FALSE) /\ lc.state[c] \in Alerting
    <3>1. Hangup = {FALSE}
      BY QuietWorld
    <3> QED BY <1>3, <3>1 DEF Accept
  <2>2. Turns(lc, lc')
    BY <1>1, <2>1, AcceptCallTidy
  <2> QED BY <2>2 DEF NextTurns
<1>4. CASE Resume(c)
  <2>1. lc' = ResumeCall(lc, c)
    BY <1>4 DEF Resume
  <2>2. Turns(lc, lc')
    BY <1>1, <2>1, ResumeCallTidy
  <2> QED BY <2>2 DEF NextTurns
<1>5. CASE \/ AcceptEarlyMedia(c) \/ Decline(c) \/ Terminate(c) \/ Pause(c) \/ Update(c)
           \/ AcceptCallUpdate(c)
  BY <1>1, <1>5, UserStepKeeps DEF Keeps, Turns, NextTurns
<1> QED BY <1>2, <1>3, <1>4, <1>5 DEF UserStep

\* Callbacks of the SAL
LEMMA SalTurns ==
  ASSUME Quiet, ~ UseIce, "recvonly" \notin Offers, Orderly(lc), NEW c \in Call, SalStep(c)
  PROVE  NextTurns
<1>1. Consistent(lc) /\ Tidy(lc) /\ Reason(lc) /\ TypeOK /\ lc \in CoreType
  BY DEF Orderly, Consistent, TypeOK
<1>2. CASE Receive(c)
  <2>1. PICK offer \in Offers, replaced \in {NoCall} \cup {r \in lc.calls : lc.op[r] = "active"} :
          lc' = CallReceived(lc, c, offer, replaced, FALSE)
    <3>1. Hangup = {FALSE}
      BY QuietWorld
    <3>2. PICK offer \in Offers, reject \in Hangup,
               replaced \in {NoCall} \cup {r \in lc.calls : lc.op[r] = "active"} :
            lc' = CallReceived(lc, c, offer, replaced, reject)
      BY <1>2 DEF Receive
    <3>3. reject = FALSE
      BY <3>1, <3>2
    <3> QED BY <3>2, <3>3
  <2>2. offer \in Offer \ {"nosdp"} /\ offer \in Offers /\ lc.state[c] = "Idle" /\ lc.op[c] = "none"
    BY <1>2, <2>1, QuietWorld DEF Receive, Fresh
  <2>3. replaced \in (Call \ {c}) \cup {NoCall}
    BY <1>1, <2>1, <2>2 DEF CoreType
  <2>4. lc.current \in lc.calls \cup {NoCall}
    BY <1>1 DEF Consistent, CurrentFits, Quiet
  <2>5. Turns(lc, lc')
    BY <1>1, <2>1, <2>2, <2>3, <2>4, CallReceivedTidy
  <2> QED BY <2>5 DEF NextTurns
<1>3. CASE Answered200(c)
  <2>1. PICK answer \in Answers : lc' = CallAccepted(Operation(lc, c, "active"), c, answer, FALSE)
    <3>1. Hangup = {FALSE}
      BY QuietWorld
    <3>2. PICK answer \in Answers, hangup \in Hangup :
            lc' = CallAccepted(Operation(lc, c, "active"), c, answer, hangup)
      BY <1>3 DEF Answered200
    <3>3. hangup = FALSE
      BY <3>1, <3>2
    <3> QED BY <3>2, <3>3
  <2> DEFINE q == Operation(lc, c, "active")
  <2>2. answer \in Dir \cup Unusable /\ lc.op[c] \in {"inviting", "early"}
    BY <1>3, <2>1, QuietWorld DEF Answered200
  <2>3. q \in CoreType /\ q.current = lc.current
    BY <1>1, OperationOnly DEF Only, OpPhase
  <2> HIDE DEF q
  <2>4. lc'.current \in {lc.current, NoCall, c}
    BY <2>1, <2>2, <2>3, CallAcceptedTakes DEF q
  <2>5. lc.state[c] \in Outgoing
    BY <1>1, <2>2, PhaseStates DEF AwaitingAnswer
  <2> QED BY <2>4, <2>5 DEF NextTurns, Turns
<1>4. CASE OfferAccepted(c)
  <2>1. PICK answer \in IF lc.ct[c] = "update" /\ lc.op[c] = "active"
                        THEN {IF lc.dir[c] = "none" THEN "bad" ELSE lc.dir[c]}
                        ELSE {IF a \in Unusable THEN a
                              ELSE DirOfAnswer(IF lc.ct[c] = "hold" THEN "sendonly" ELSE "sendrecv", a)
                                : a \in Answers} :
          lc' = CallAccepted(RequestDone(lc, c), c, answer, FALSE)
    BY <1>4 DEF OfferAccepted
  <2> DEFINE q == RequestDone(lc, c)
  <2>2. answer \in Dir \cup Unusable
    <3>1. lc.dir[c] \in Dir \cup {"none"}
      BY <1>1 DEF CoreType
    <3>2. \A a \in Answers, local \in {"sendonly", "sendrecv"} :
            a \notin Unusable => DirOfAnswer(local, a) \in Dir
      BY DirOfAnswerType
    <3> QED BY <2>1, <3>1, <3>2 DEF Unusable
  <2>3. q \in CoreType /\ q.current = lc.current
    BY <1>1, DoneMakes DEF Makes, SameTone
  <2> HIDE DEF q
  <2>4. lc'.current \in {lc.current, NoCall, c}
    BY <2>1, <2>2, <2>3, CallAcceptedTakes DEF q
  <2>5. lc.state[c] \in Transient
    <3>1. lc.ct[c] # "none" /\ TidyRow(Row(lc, c))
      BY <1>1, <1>4 DEF OfferAccepted, Tidy
    <3> QED BY <3>1, RowFields DEF TidyRow, TidyRequest
  <2> QED BY <2>4, <2>5 DEF NextTurns, Turns
<1>5. ASSUME NEW n \in Call, Refer(c, n) PROVE NextTurns
  <2>1. /\ lc.op[c] = "active" /\ c \in lc.calls /\ lc.ct[c] = "none" /\ lc.pend[c] = {}
        /\ n \in Call \ {c} /\ lc.state[n] = "Idle" /\ lc.op[n] = "none"
    BY <1>5 DEF Refer, Fresh, Quiet
  <2>2. lc' = StartReferedCall(SetState(lc, c, "Refered"), c, n, TRUE)
    BY <1>5, QuietWorld DEF Refer
  <2>3. Turns(lc, lc') \/ lc'.referer[lc'.current] \notin {NoCall, lc.current}
    BY <1>1, <2>1, <2>2, ReferTidy
  <2> QED BY <2>3 DEF NextTurns
<1>6. CASE \/ Ringing(c) \/ InviteFailed(c) \/ CancelledTimeout(c) \/ OfferRejected(c)
           \/ EarlyUpdateRejected(c) \/ EarlyOffer(c) \/ PeerOffer(c) \/ Ack(c) \/ Bye(c)
           \/ Cancel(c) \/ Release(c) \/ OtherRequest(c)
  BY <1>1, <1>6, SalStepKeeps DEF Keeps, Turns, NextTurns
<1> QED BY <1>2, <1>3, <1>4, <1>5, <1>6 DEF SalStep

\* linphone_core_iterate()
LEMMA TimerTurns ==
  ASSUME ~ UseIce, "recvonly" \notin Offers, Orderly(lc), NEW c \in Call, TimerStep(c)
  PROVE  NextTurns
<1>1. Consistent(lc) /\ Tidy(lc) /\ Reason(lc) /\ TypeOK
  BY DEF Orderly, Consistent, TypeOK
<1>2. CASE IncomingTimeout(c) \/ DelayedInvite(c)
  BY <1>1, <1>2, TimerStepKeeps DEF Keeps, Turns, NextTurns
<1>3. CASE Gathered(c)
  BY <1>3, GatheredKeeps DEF Keeps, Turns, NextTurns
<1>4. CASE RunTask(c)
  <2>1. Turns(lc, lc')
    BY <1>1, <1>4, ResumeTaskTidy DEF RunTask
  <2> QED BY <2>1 DEF NextTurns
<1> QED BY <1>2, <1>3, <1>4 DEF TimerStep

-----------------------------------------------------------------------------
(* The theorems                                                            *)

\* Every handler of the core, callback and timer included, leaves every call and the
\* tone in order, as long as the far end's offers carry SDP and nothing out of
\* the ordinary happens (Quiet).
THEOREM MediaAreOrderly ==
  ASSUME Quiet
  PROVE  Spec => []Orderly(lc)
<1>1. Init => Orderly(lc)
  BY InitOrderly, InitConsistent DEF Orderly
<1>2. Orderly(lc) /\ [Next]_lc => Orderly(lc)'
  BY NextOrderly DEF Orderly
<1> QED BY <1>1, <1>2, PTL DEF Spec

\* A call that has left lc->calls has no stream and no gathering under way, whatever
\* late response, offer or timer still reached it.
THEOREM EndedLetsGo ==
  ASSUME Quiet
  PROVE  Spec => []EndedHoldsNothing
<1>1. ASSUME Orderly(lc), NEW c \in Call \ lc.calls
      PROVE  ~ lc.streams[c] /\ ~ lc.gathering[c]
  <2>1. Row(lc, c).listed = "off" => Row(lc, c).streams = "off" /\ Row(lc, c).gathering = "off"
    BY <1>1 DEF Orderly, Tidy, TidyRow, TidyEnd
  <2> QED BY <1>1, <2>1 DEF Row, RowOf, On
<1>2. Orderly(lc) => EndedHoldsNothing
  BY <1>1 DEF EndedHoldsNothing
<1> QED BY MediaAreOrderly, <1>2, PTL

\* No dialog outlives its call, and call_released() finds the call of every closing
\* operation.  With ICE a call that is hung up while it gathers candidates never had
\* an operation that could close.
THEOREM EndClosesDialog ==
  ASSUME Quiet, ~ UseIce
  PROVE  Spec => []EndedIsClosing
<1>1. ASSUME Orderly(lc), NEW c \in Call
      PROVE  lc.state[c] \in Ended <=> lc.op[c] \in {"cancelling", "terminating"}
  <2>1. lc.op[c] \in {"cancelling", "terminating"} => lc.state[c] \in Ended
    BY <1>1, PhaseStates DEF Orderly
  <2>2. Row(lc, c).state \in Ended => Row(lc, c).op \in {"cancelling", "terminating"}
    BY <1>1 DEF Orderly, Tidy, TidyRow, TidyEnd
  <2> QED BY <2>1, <2>2, RowFields
<1>2. Orderly(lc) => EndedIsClosing
  BY <1>1 DEF EndedIsClosing
<1> QED BY MediaAreOrderly, <1>2, PTL

\* A call is shown on hold only with the media of a hold, also after a re-INVITE that
\* crossed ours, or a request that was refused: call->prevstate then brings back a
\* hold whose description is still in use.
THEOREM HoldHasMedia ==
  ASSUME Quiet
  PROVE  Spec => []HoldMatchesMedia
<1>1. ASSUME Orderly(lc), NEW c \in Call
      PROVE  /\ lc.state[c] = "Paused" => lc.dir[c] \in {"sendonly", "inactive"}
             /\ lc.state[c] = "PausedByRemote" => lc.dir[c] \in {"recvonly", "inactive"}
  <2>1. /\ Row(lc, c).state = "Paused" => Row(lc, c).dir \in HoldDir
        /\ Row(lc, c).state = "PausedByRemote" => Row(lc, c).dir \in HeldDir
    BY <1>1 DEF Orderly, Tidy, TidyRow, TidyHold, Rests
  <2> QED BY <2>1, RowFields DEF HoldDir, HeldDir
<1>2. Orderly(lc) => HoldMatchesMedia
  BY <1>1 DEF HoldMatchesMedia
<1> QED BY MediaAreOrderly, <1>2, PTL

\* Pausing, Resuming and Updating are entered, and stayed in, only with a request the
\* far end will answer.  With ICE a REFER may come while the request waits for its
\* candidates; it overwrites call->prevstate, and the answer then restores Updating.
THEOREM WaitHasRequest ==
  ASSUME Quiet, ~ UseIce
  PROVE  Spec => []WaitsForSomething
<1>1. ASSUME Orderly(lc), NEW c \in Call, lc.state[c] \in Transient \cup {"EarlyUpdating"}
      PROVE  lc.ct[c] # "none" \/ lc.gathering[c]
  <2>1. lc.state[c] \in Transient
    BY <1>1 DEF Orderly, Consistent, CallFits, OpFits
  <2>2. Row(lc, c).state \in Transient => Row(lc, c).ct # "none"
    BY <1>1 DEF Orderly, Tidy, TidyRow, TidyRequest
  <2> QED BY <2>1, <2>2, RowFields
<1>2. Orderly(lc) => WaitsForSomething
  BY <1>1 DEF WaitsForSomething
<1> QED BY MediaAreOrderly, <1>2, PTL

\* call_failure() and the answer to an offer restore call->prevstate, which is a state
\* that waits for nothing, however requests and offers of both sides cross (without
\* ICE, for the same reason).
THEOREM RestoreSettles ==
  ASSUME Quiet, ~ UseIce
  PROVE  Spec => []RestoresSettled
<1>1. ASSUME Orderly(lc), NEW c \in Call,
             lc.state[c] \in Transient \cup {"EarlyUpdating", "UpdatedByRemote"}
      PROVE  lc.prev[c] \in Live \ (Transient \cup {"EarlyUpdating", "UpdatedByRemote"})
  <2>1. lc.state[c] \in Transient \cup {"UpdatedByRemote"}
    BY <1>1 DEF Orderly, Consistent, CallFits, OpFits
  <2>2. /\ Row(lc, c).state \in Transient => Row(lc, c).prev \in Resting
        /\ Row(lc, c).state = "UpdatedByRemote" => Row(lc, c).prev = "StreamsRunning"
    BY <1>1 DEF Orderly, Tidy, TidyRow, TidyRequest
  <2>3. lc.prev[c] \in Resting
    BY <2>1, <2>2, RowFields DEF Resting
  <2> QED BY <2>3 DEF Resting, Live, CallState, Ended, Transient
<1>2. Orderly(lc) => RestoresSettled
  BY <1>1 DEF RestoresSettled
<1> QED BY MediaAreOrderly, <1>2, PTL

\* linphone_core_accept_call_update() always finds the offer that the application was
\* asked about: nothing answers or drops it while the call is in UpdatedByRemote.
THEOREM UpdateIsPending ==
  ASSUME Quiet
  PROVE  Spec => []UpdateCanBeAnswered
<1>1. ASSUME Orderly(lc), NEW c \in Call, lc.state[c] = "UpdatedByRemote"
      PROVE  lc.pend[c] # {}
  <2>1. Row(lc, c).state = "UpdatedByRemote" => Row(lc, c).pend # {}
    BY <1>1 DEF Orderly, Tidy, TidyRow, TidyRequest
  <2> QED BY <1>1, <2>1, RowFields
<1>2. Orderly(lc) => UpdateCanBeAnswered
  BY <1>1 DEF UpdateCanBeAnswered
<1> QED BY MediaAreOrderly, <1>2, PTL

\* lc->ringstream plays only while a call is being placed, or while the current call
\* is announced and no other has been answered: every handler that answers or ends
\* the last such call goes through linphone_core_stop_ringing().
THEOREM RingIsForACall ==
  ASSUME Quiet
  PROVE  Spec => []RingHasReason
<1> DEFINE Waiting == Alerting \cup Outgoing \cup {"EarlyUpdating", "EarlyUpdatedByRemote"}
<1>1. ASSUME Orderly(lc), NEW d \in lc.calls, lc.op[d] \in {"init", "inviting", "early"}
      PROVE  lc.state[d] \in Waiting
  <2>1. d \in Call /\ CallFits(lc, d) /\ lc.state[d] \in CallState
    BY <1>1 DEF Orderly, Consistent, CoreType
  <2> QED BY <1>1, <2>1 DEF CallFits, OpFits, ListFits, CallState, Live, Ended, Answered, Alerting,
                            Outgoing, AwaitingAnswer
<1>2. ASSUME Orderly(lc), Called(lc)
      PROVE  lc.current \in lc.calls /\ lc.state[lc.current] \in Waiting
  <2>1. /\ lc.current \in lc.calls /\ lc.op[lc.current] = "ringing" /\ lc.state[lc.current] # "Idle"
        /\ lc.current \in Call /\ lc.state[lc.current] \in CallState /\ CallFits(lc, lc.current)
    BY <1>2 DEF Called, Orderly, Consistent, CoreType
  <2> QED BY <2>1 DEF CallFits, OpFits, CallState, Ended, Answered, Alerting, Outgoing, AwaitingAnswer
<1>3. Orderly(lc) => RingHasReason
  <2> HIDE DEF Waiting
  <2>1. ASSUME Orderly(lc), lc.ring PROVE \E c \in lc.calls : lc.state[c] \in Waiting
    BY <1>1, <1>2, <2>1 DEF Orderly, Reason, Placing
  <2> QED BY <2>1 DEF RingHasReason, Waiting
<1> QED BY MediaAreOrderly, <1>3, PTL

\* Answering, resuming and placing a call, and answering the call that replaces another,
\* all stop the call that was running before they make another one current: it is then
\* Pausing, or over.  The far end is taken never to offer not to speak, because
\* _linphone_core_pause_call() finds "no reason to pause" a call it does not hear.
THEOREM TurningPausesTheOther ==
  ASSUME Quiet, ~ UseIce, "recvonly" \notin Offers
  PROVE  Spec => SwitchPausesCurrent
<1> DEFINE A == \A c, d \in Call :
                  /\ c # d /\ lc.current = c /\ lc'.current = d
                  /\ lc.state[c] = "StreamsRunning"
                  /\ lc.state[d] \notin Outgoing \cup Transient
                  /\ lc'.referer[d] \in {NoCall, c}
                  => lc'.state[c] # "StreamsRunning"
<1>1. ASSUME Orderly(lc), [Next]_lc PROVE A \/ UNCHANGED lc
  <2>1. CASE UNCHANGED lc
    BY <2>1
  <2>2. CASE Next
    <3>1. PICK c \in Call : UserStep(c) \/ SalStep(c) \/ TimerStep(c)
      BY <2>2 DEF Next
    <3>2. NextTurns
      BY <1>1, <3>1, UserTurns, SalTurns, TimerTurns
    <3> QED BY <3>2, NoCallAssumption DEF NextTurns, Turns, Quits
  <2> QED BY <1>1, <2>1, <2>2
<1>2. Orderly(lc) /\ [Next]_lc => [A]_lc
  BY <1>1
<1> QED BY <1>2, MediaAreOrderly, PTL DEF Spec, SwitchPausesCurrent
=============================================================================
