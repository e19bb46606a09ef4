--------------------------- MODULE CallProperties ---------------------------
(***************************************************************************)
(* What the call control promises: the invariants, action properties,      *)
(* liveness properties and the abstract specification of CallCore.         *)
(***************************************************************************)
EXTENDS CallCore

-----------------------------------------------------------------------------
(* Invariants                                                              *)

\* lc->calls holds exactly the calls that are not over: linphone_call_set_state()
\* removes a call when it enters End or Error, never sooner and never later.
CallListExact ==
  \A c \in Call :
    c \in lc.calls <=> \/ lc.state[c] \in Live
                       \/ lc.state[c] = "Idle" /\ lc.op[c] = "ringing"

\* lc->current_call never points to a call that has left the list.
CurrentInList == lc.current \in lc.calls \cup {NoCall}

\* The ring tone, or the ringback tone, plays only while a call is unanswered.
RingHasReason ==
  lc.ring => \E c \in lc.calls : lc.state[c] \in Alerting \cup Outgoing
                                   \cup {"EarlyUpdating", "EarlyUpdatedByRemote"}

\* A call outside the list holds no sound card, socket or ICE session
\* (linphone_call_free_media_resources()), whatever callback comes late.
EndedHoldsNothing ==
  \A c \in Call \ lc.calls : ~ lc.streams[c] /\ ~ lc.gathering[c]

\* The state shown to the application and the SIP dialog agree: a state past the
\* answer needs a confirmed dialog, and a confirmed dialog such a state or an end.
AnsweredHasDialog ==
  \A c \in Call :
    /\ lc.state[c] \in Answered => lc.op[c] = "active"
    /\ lc.op[c] = "active" => lc.state[c] \in Answered \cup Ended

\* A call is over for the application exactly while its operation is closing, so
\* that no dialog outlives its call and call_released() always finds the call.
EndedIsClosing ==
  \A c \in Call :
    lc.state[c] \in Ended <=> lc.op[c] \in {"cancelling", "terminating"}

\* On hold the negotiated media are those of a hold: who pauses sends only.
HoldMatchesMedia ==
  \A c \in Call :
    /\ lc.state[c] = "Paused" => lc.dir[c] \in {"sendonly", "inactive"}
    /\ lc.state[c] = "PausedByRemote" => lc.dir[c] \in {"recvonly", "inactive"}

\* A state that waits for the far end has a request the far end will answer, or
\* candidates that will arrive: otherwise nothing would ever leave it.
WaitsForSomething ==
  \A c \in Call :
    lc.state[c] \in Transient \cup {"EarlyUpdating"} => lc.ct[c] # "none" \/ lc.gathering[c]

\* While the application is asked about an update, the offer can still be answered.
UpdateCanBeAnswered ==
  \A c \in Call : lc.state[c] = "UpdatedByRemote" => lc.pend[c] # {}

\* call->prevstate, to which a refused request or an answered offer returns, is a
\* state of the call that waits for nothing.
RestoresSettled ==
  \A c \in Call :
    lc.state[c] \in Transient \cup {"EarlyUpdating", "UpdatedByRemote"} =>
      lc.prev[c] \in Live \ (Transient \cup {"EarlyUpdating", "UpdatedByRemote"})

\* The call log of an answered call says so.
AnsweredIsLogged ==
  \A c \in Call : lc.state[c] \in Answered => lc.log[c] = "success"

\* linphone_core_set_max_calls() is never exceeded, transfers included.
WithinLimit == Cardinality(lc.calls) <= MaxCalls

-----------------------------------------------------------------------------
(* Action properties                                                       *)

\* When the user turns to another call, the one that was running stops: accept,
\* invite and resume all preempt the sound resources first.  Not when d is placed
\* for a transfer of a third call: _linphone_core_pause_call() then forgets which
\* call is current, although it is another one that it pauses.
SwitchPausesCurrent ==
  [][\A c, d \in Call :
       /\ c # d /\ lc.current = c /\ lc'.current = d
       /\ lc.state[c] = "StreamsRunning"
       /\ lc.state[d] \notin Outgoing \cup Transient
       /\ lc'.referer[d] \in {NoCall, c}
       => lc'.state[c] # "StreamsRunning"]_lc

\* linphone_core_accept_call() leaves no other call being placed, even when the
\* answered call replaces one or was itself the reason others were cancelled.
AcceptCancelsOutgoing ==
  [][\A c \in Call :
       /\ lc.state[c] \in Alerting
       /\ lc'.state[c] \in {"Connected", "StreamsRunning"}
       => \A d \in Call : lc'.state[d] \notin Outgoing]_lc

\* A call logged as successful is never logged as missed or declined later, by
\* whatever error its end is reported with.
AnsweredLogKept ==
  [][\A c \in Call : lc.log[c] = "success" => lc'.log[c] = "success"]_lc

-----------------------------------------------------------------------------
(* Liveness                                                                *)

\* linphone_core_iterate() runs the timers and the SIP stack for ever, and the
\* far end's stack answers a request sent in the dialog, or it times out.  The
\* user, and the far end's user, are not assumed to do anything.  A queued task is
\* polled at every turn of the main loop, so it is strongly fair: it is not
\* missed for ever because the user pauses the call again between two turns.
Fairness == \A c \in Call :
  /\ WF_lc(Release(c))
  /\ WF_lc(Gathered(c))
  /\ SF_lc(RunTask(c))
  /\ WF_lc(OfferAccepted(c) \/ OfferRejected(c))

FairSpec == Spec /\ Fairness

\* A call that is over is released, with everything it retained.
EndedIsReleased ==
  \A c \in Call : lc.state[c] \in Ended ~> lc.state[c] = "Released"

\* Pausing, Resuming and Updating are passed through, never stayed in.
RequestSettles ==
  \A c \in Call : lc.state[c] \in Transient ~> lc.state[c] \notin Transient

\* The queued resume of a transferred call does not retry for ever.
ResumeTaskEnds ==
  \A c \in Call : c \in lc.tasks ~> c \notin lc.tasks

-----------------------------------------------------------------------------
(* The abstract specification                                              *)

PhaseOf(c) ==
  CASE lc.state[c] \in Answered -> "talking"
    [] lc.state[c] \in Ended -> "over"
    [] lc.state[c] = "Released" -> "released"
    [] lc.state[c] = "Idle" /\ lc.op[c] # "ringing" -> "unused"
    [] OTHER -> "pending"

Lifecycle == INSTANCE CallLifecycle WITH
  phase <- [c \in Call |-> PhaseOf(c)],
  listed <- lc.calls

\* Every handler, with all it calls, is one step of the life of the calls.
ImplementsLifecycle == Lifecycle!Spec

-----------------------------------------------------------------------------
(* What the documentation says and the code does not do                    *)

\* linphonecore.h:630: "The media streams are established and running".
RunningHasMedia ==
  \A c \in Call : lc.state[c] = "StreamsRunning" => lc.streams[c]

\* linphonecore.c:3595: by default "the LinphoneCore automatically answers the
\* reINIVTE"; only an offer deferred in UpdatedByRemote may wait.
OfferIsAnswered ==
  \A c \in Call : lc.pend[c] # {} /\ lc.op[c] = "active" => lc.state[c] = "UpdatedByRemote"

\* linphonecore.h:641: "The call object is no more retained by the core".
ReleasedIsNotRetained ==
  \A c \in Call : lc.state[c] = "Released" => c \notin lc.calls
=============================================================================
