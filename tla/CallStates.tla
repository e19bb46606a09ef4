----------------------------- MODULE CallStates -----------------------------
(***************************************************************************)
(* The vocabulary shared by the call modules: the call states of           *)
(* linphonecore.h, and the groups of states the C code distinguishes in    *)
(* its switch statements.                                                  *)
(***************************************************************************)

\* LinphoneCallState.  LinphoneCallRefered is in the enumeration but is only
\* ever an event: linphone_call_set_state() never stores it.
CallState ==
  { "Idle", "IncomingReceived", "OutgoingInit", "OutgoingProgress",
    "OutgoingRinging", "OutgoingEarlyMedia", "Connected", "StreamsRunning",
    "Pausing", "Paused", "Resuming", "Error", "End", "PausedByRemote",
    "UpdatedByRemote", "IncomingEarlyMedia", "Updating", "Released",
    "EarlyUpdatedByRemote", "EarlyUpdating" }

\* The call is over: linphone_call_set_state() accepts only Released next.
Ended == {"End", "Error"}

\* The application may still answer or decline.
Alerting == {"IncomingReceived", "IncomingEarlyMedia"}

\* The states in which call_failure() may send the INVITE again, and the ones
\* linphone_core_accept_call_with_params() cancels in the other calls.
Outgoing == {"OutgoingInit", "OutgoingProgress", "OutgoingRinging", "OutgoingEarlyMedia"}

\* Mutant: a state forgotten in the switch of call_accepted().
AwaitingAnswerForgetsRinging == Outgoing \ {"OutgoingInit", "OutgoingRinging"}

\* The states call_accepted() turns into Connected.
AwaitingAnswer == Outgoing \ {"OutgoingInit"}

\* A request of ours is outstanding; call_failure() restores the state before.
Transient == {"Updating", "Pausing", "Resuming"}

\* linphone_core_sound_resources_locked().
LocksSound == Outgoing \cup {"Connected", "IncomingEarlyMedia", "Updating"}

\* The call has been announced to the application and is not over.
Live == CallState \ ({"Idle", "Released"} \cup Ended)

\* States only reached once the far end, or we, have answered the call.
Answered == {"Connected", "StreamsRunning", "Pausing", "Paused", "Resuming",
             "PausedByRemote", "UpdatedByRemote", "Updating"}

\* SalStreamDir, seen from here: "recvonly" means the far end holds us.
Dir == {"sendrecv", "sendonly", "recvonly", "inactive"}

\* What a re-INVITE or UPDATE of the far end carries: no SDP, or the direction
\* of its audio stream.
Offer == Dir \cup {"nosdp"}

\* sal_media_description_has_dir() of a description with one active stream: an
\* inactive stream counts as sendonly and as recvonly.
HasDir(dir, wanted) ==
  \/ dir = wanted
  \/ dir = "inactive" /\ wanted \in {"sendonly", "recvonly"}

\* compute_dir_outgoing(): our offer had direction local.
DirOfAnswer(local, answered) ==
  CASE answered = "inactive" -> "inactive"
    [] local = "sendrecv" /\ answered = "recvonly" -> "sendonly"
    [] local = "sendrecv" /\ answered = "sendonly" -> "recvonly"
    [] OTHER -> local

\* Mutant: the offered direction is not seen from our side.
DirOfOfferNotMirrored(offered) == offered

\* compute_dir_incoming() when our description is sendrecv.
DirOfOffer(offered) ==
  CASE offered = "sendonly" -> "recvonly"
    [] offered = "recvonly" -> "sendonly"
    [] OTHER -> offered
=============================================================================
