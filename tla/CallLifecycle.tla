--------------------------- MODULE CallLifecycle ----------------------------
(***************************************************************************)
(* What an application may rely on, whatever happens inside a call: each   *)
(* call goes forward through five phases, and the list of                  *)
(* linphone_core_get_calls() holds exactly the calls that may still be     *)
(* talked in.  CallCore implements it (CallProperties!Lifecycle).          *)
(***************************************************************************)
CONSTANT Call

VARIABLES
  phase,    \* the phase of each call
  listed    \* linphone_core_get_calls()

\* "pending": announced or about to be, not answered.  "talking": answered, and
\* running, held, or being changed.  "over": End or Error was notified.
Phase == {"unused", "pending", "talking", "over", "released"}

Init ==
  /\ phase = [c \in Call |-> "unused"]
  /\ listed = {}

\* The calls of gone end, the call c moves to phase new.
Moved(c, new, gone) ==
  /\ phase' = [d \in Call |-> IF d = c THEN new
                              ELSE IF d \in gone THEN "over" ELSE phase[d]]
  /\ listed' = IF new \in {"pending", "talking"} THEN (listed \ gone) \cup {c}
               ELSE listed \ (gone \cup {c})

\* A call is placed or received; it may fail or be refused at once.
Start(c) ==
  /\ phase[c] = "unused"
  /\ \E new \in {"pending", "over"} : Moved(c, new, {})

\* A call received in replacement of another is answered in the same breath.
Replace(c) ==
  /\ phase[c] = "unused"
  /\ \E gone \in SUBSET (listed \ {c}) : gone # {} /\ Moved(c, "talking", gone)

\* Answering one call may end others: those still being placed, the one replaced.
Answer(c) ==
  /\ phase[c] = "pending"
  /\ \E gone \in SUBSET (listed \ {c}) : Moved(c, "talking", gone)

Finish(c) ==
  /\ phase[c] \in {"pending", "talking"}
  /\ \E gone \in SUBSET (listed \ {c}) : Moved(c, "over", gone)

\* An INVITE that failed without a dialog ends and is released at once.
Abandon(c) ==
  /\ phase[c] = "pending"
  /\ Moved(c, "released", {})

Release(c) ==
  /\ phase[c] = "over"
  /\ Moved(c, "released", {})

Next == \E c \in Call :
  Start(c) \/ Replace(c) \/ Answer(c) \/ Finish(c) \/ Abandon(c) \/ Release(c)

Spec == Init /\ [][Next]_<<phase, listed>>
=============================================================================
