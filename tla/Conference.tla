----------------------------- MODULE Conference -----------------------------
(***************************************************************************)
(* The conference a LinphoneCore can host: conference.c, and what the call *)
(* control does for it.  The streams of the members are plugged into a     *)
(* mixer; the user may be one of them, with a local participant that takes *)
(* the microphone.  A call joins and leaves through a re-INVITE, so what   *)
(* is wished (params->in_conference) and what is (current_params) differ   *)
(* until it is answered.                                                   *)
(*                                                                         *)
(* The calls are those of CallOps, reduced to what the conference depends  *)
(* on.  Operators take a core and return a core, as there.                 *)
(***************************************************************************)
EXTENDS Naturals, Sequences, FiniteSets, SequencesExt

CONSTANTS Party,       \* identities of the LinphoneCall objects
          NoParty,      \* the NULL pointer
          MaxLost       \* bound: local participants that were forgotten

ASSUME ConferenceAssumption == NoParty \notin Party /\ MaxLost \in Nat

VARIABLE conf

\* What the environment may do besides.
\* refused    a re-INVITE is refused, or answered with unusable media
\* held       the far end holds a call
\* hurry      the user goes on before a request or an INVITE of ours is answered
\* crossing   a call ends before another is in the mixer, or as it is updated
\* forgotten  a call is paused although another is the current one, see Forgets
ConfFaults == {"refused", "held", "hurry", "crossing", "forgotten"}

PartyState == {"none", "incoming", "outgoing", "running", "updating", "pausing",
              "paused", "resuming", "held", "ended"}

\* States in which a request of ours is outstanding.
Asking == {"updating", "pausing", "resuming"}

\* linphone_core_sound_resources_locked()
Locking == {"outgoing", "updating"}

\* want: params->in_conference; cur: current_params->in_conference.  media: the
\* streams are not started, use the sound card, are started without it, or are
\* plugged into the mixer.  dir: the direction in call->resultdesc.
NewParty == [ state |-> "none", prev |-> "none", want |-> FALSE, cur |-> FALSE,
             media |-> "off", dir |-> "sendrecv" ]

\* list: lc->calls; mixer: conf != NULL; local: local_participant != NULL; lost:
\* local participants in the mixer whose pointer was overwritten.
ConfInit(faults, parties) ==
  conf = [ faults |-> faults,
           party |-> [c \in Party |-> IF c \in parties THEN NewParty
                                      ELSE [NewParty EXCEPT !.state = "ended"]],
           list |-> <<>>, current |-> NoParty, mixer |-> FALSE, local |-> FALSE,
           lost |-> 0, terminated |-> FALSE ]

-----------------------------------------------------------------------------
(* Calls and their streams                                                 *)

Enters(s, c, new) == [s EXCEPT !.party[c].prev = s.party[c].state, !.party[c].state = new]

Silenced(s, c) == [s EXCEPT !.party[c].media = "off"]

\* linphone_call_start_audio_stream(): a member is plugged into the mixer, another
\* call takes the microphone if nobody uses it and the direction needs it.
StartAudio(s, c, dir) ==
  LET x == s.party[c]
      free == ~ s.local /\ s.current \in {NoParty, c}
      media == CASE x.want -> "mixed"
                 [] ~ x.want /\ free /\ dir = "sendrecv" -> "sound"
                 [] OTHER -> "dry"
  IN  [s EXCEPT !.party[c].media = media, !.party[c].cur = x.want, !.party[c].dir = dir]

\* linphone_core_update_streams(): streams that run are restarted if the direction
\* or the place in the conference changes.
RestartAudio(s, c, dir) ==
  LET x == s.party[c]
  IN  IF x.media # "off" /\ x.dir = dir /\ x.want = x.cur THEN s ELSE StartAudio(s, c, dir)

-----------------------------------------------------------------------------
(* The mixer and the local participant                                     *)

Mixed(s) == {c \in Party : s.party[c].media = "mixed"}

\* linphone_conference_get_size() and remote_participants_count()
ConfSize(s) == IF ~ s.mixer THEN 0
               ELSE Cardinality(Mixed(s)) + s.lost + (IF s.local THEN 1 ELSE 0)
RemoteCount(s) ==
  CASE ConfSize(s) = 0 -> 0
    [] ConfSize(s) > 0 /\ s.local -> ConfSize(s) - 1
    [] OTHER -> ConfSize(s)

\* add_local_endpoint()
AddLocal(s) == [s EXCEPT !.local = TRUE, !.lost = IF s.local THEN @ + 1 ELSE @]

\* linphone_core_leave_conference()
LeaveConference(s) == [s EXCEPT !.local = FALSE]

\* conference_check_init()
ConfInitialized(s) == [s EXCEPT !.mixer = TRUE, !.terminated = @ /\ s.mixer]

\* _linphone_core_pause_call(), in the states that allow it: whichever call it is,
\* no call is the current one any more.
PauseParty(s, c) ==
  IF s.party[c].state \notin {"running", "held"} THEN s
  ELSE Enters(Silenced([s EXCEPT !.current = NoParty], c), c, "pausing")

\* Mutant: the local participant keeps the sound card.
PreemptKeepsLocal(s) ==
  IF s.local THEN s ELSE IF s.current # NoParty THEN PauseParty(s, s.current) ELSE s

\* linphone_core_preempt_sound_resources()
PreemptSound(s) ==
  IF s.local THEN LeaveConference(s)
  ELSE IF s.current # NoParty THEN PauseParty(s, s.current) ELSE s

SoundLocked(s) == \E c \in Party : s.party[c].state \in Locking

\* linphone_core_update_call() with the wish to be in the conference.
UpdateParty(s, c, wish) ==
  IF s.party[c].state # "running" THEN s
  ELSE [Enters(s, c, "updating") EXCEPT !.party[c].want = wish]

\* linphone_core_resume_call(): a call that goes into the conference neither needs
\* the sound card nor becomes the current call.
ResumeParty(s, c) ==
  CASE s.party[c].state # "paused" \/ (~ s.party[c].want /\ SoundLocked(s)) -> s
    [] s.party[c].state = "paused" /\ s.party[c].want -> Enters(s, c, "resuming")
    [] OTHER -> [Enters(PreemptSound(s), c, "resuming") EXCEPT !.current = c]

\* The static remove_from_conference(), of a member.
RemoveMember(s, c, active) ==
  LET t == [s EXCEPT !.party[c].want = FALSE]
  IN  CASE ~ s.party[c].cur -> s
        [] s.party[c].cur /\ active -> UpdateParty(LeaveConference(t), c, FALSE)
        [] OTHER -> PauseParty(t, c)

\* convert_conference_to_call(): the first call of the list that wants to be in the
\* conference is taken out of it.
Convert(s) ==
  LET i == SelectInSeq(s.list, LAMBDA c : s.party[c].want)
  IN  IF RemoteCount(s) # 1 \/ i = 0 THEN s ELSE RemoveMember(s, s.list[i], s.local)

\* Mutant: the local participant stays.
CheckUninitKeepsLocal(s) ==
  LET remote == RemoteCount(s)
      t == IF remote = 1 /\ ~ s.terminated THEN Convert(s) ELSE s
  IN  IF ~ s.mixer THEN s ELSE [t EXCEPT !.mixer = ConfSize(t) # 0]

\* linphone_core_conference_check_uninit()
CheckUninit(s) ==
  LET remote == RemoteCount(s)
      t == IF remote = 1 /\ ~ s.terminated THEN Convert(s) ELSE s
      u == IF remote = 0 THEN LeaveConference(t) ELSE t
  IN  IF ~ s.mixer THEN s ELSE [u EXCEPT !.mixer = ConfSize(u) # 0]

\* A call ends, by whichever side: linphone_call_set_terminated().
EndParty(s, c) ==
  CheckUninit([s EXCEPT !.party[c] = [NewParty EXCEPT !.state = "ended"],
                        !.list = RemoveFirst(@, c),
                        !.current = IF @ = c THEN NoParty ELSE @])

-----------------------------------------------------------------------------
(* The API of the conference                                               *)

\* linphone_core_add_to_conference()
AddParty(s, c) ==
  LET t == ConfInitialized(s)
      notCurrent == [Silenced(t, c) EXCEPT !.current = IF @ = c THEN NoParty ELSE @]
  IN  CASE s.party[c].cur -> s
        [] ~ s.party[c].cur /\ s.party[c].state = "paused" ->
             ResumeParty([t EXCEPT !.party[c].want = TRUE], c)
        [] ~ s.party[c].cur /\ s.party[c].state = "running" ->
             AddLocal(UpdateParty(notCurrent, c, TRUE))
        [] OTHER -> t

\* linphone_core_remove_from_conference(): when one member remains the conference
\* becomes a call.
RemoveParty(s, c) ==
  LET t == RemoveMember(s, c, FALSE)
      removed == s.party[c].cur /\ s.party[c].state \in {"running", "held"}
  IN  IF removed THEN Convert(t) ELSE t

\* linphone_core_enter_conference()
EnterConference(s) ==
  LET t == IF s.current # NoParty THEN PauseParty(s, s.current) ELSE s
  IN  IF SoundLocked(s) THEN s ELSE IF s.local THEN t ELSE AddLocal(t)

\* linphone_core_add_all_to_conference()
AddAllParties(s) == EnterConference(FoldLeft(AddParty, s, s.list))

\* linphone_core_terminate_conference()
TerminateConference(s) ==
  LET Drop(t, c) == IF t.party[c].cur THEN EndParty(t, c) ELSE t
  IN  FoldLeft(Drop, [s EXCEPT !.terminated = TRUE], s.list)

-----------------------------------------------------------------------------
(* Actions                                                                 *)

Fault(f) == f \in conf.faults

\* What the user waits for, unless in a hurry: the answers to re-INVITEs; the
\* answer of the current call and to our INVITEs.
Calm == (\A c \in Party : conf.party[c].state \notin Asking) \/ Fault("hurry")
InState(c, states) == conf.party[c].state \in states
Established ==
  \/ Fault("hurry")
  \/ /\ conf.current # NoParty => ~ InState(conf.current, {"incoming"})
     /\ \A c \in Party : ~ InState(c, {"outgoing"})

\* A call that is or goes into the conference waits for an answer, or is not in the
\* mixer.
Joining(c) ==
  conf.party[c].want /\ (InState(c, Asking) \/ conf.party[c].media # "mixed")

NobodyJoins(c) == (\A d \in Party \ {c} : ~ Joining(d)) \/ Fault("crossing")

\* call_received(): the only call becomes the current one.
PartyCalls(c) ==
  /\ InState(c, {"none"})
  /\ conf' = [Enters(conf, c, "incoming") EXCEPT
                !.list = Append(@, c), !.current = IF conf.list = <<>> THEN c ELSE @]

\* linphone_core_invite_address_with_params()
CallParty(c) ==
  /\ InState(c, {"none"}) /\ Calm /\ Established
  /\ conf' = [Enters(PreemptSound(conf), c, "outgoing") EXCEPT
                !.list = Append(@, c), !.current = c]

\* linphone_core_accept_call_with_params(): the calls being placed are given up.
AcceptParty(c) ==
  LET End(t, d) == IF t.party[d].state = "outgoing" THEN EndParty(t, d) ELSE t
      s == FoldLeft(End, conf, conf.list)
      t == IF s.current # c THEN PreemptSound(s) ELSE s
  IN  /\ InState(c, {"incoming"}) /\ Calm
      /\ \A d \in Party : InState(d, {"outgoing"}) => NobodyJoins(d)
      /\ conf' = Enters(RestartAudio([t EXCEPT !.current = c], c, "sendrecv"), c, "running")

\* call_accepted(), for the INVITE or a re-INVITE of ours.
PartyAnswers(c, dir) ==
  LET s == RestartAudio(conf, c, dir)
  IN  \/ /\ dir = "sendonly" /\ InState(c, {"pausing"})
         /\ conf' = Enters(s, c, "paused")
      \/ /\ dir = "recvonly" /\ InState(c, {"outgoing", "resuming", "updating"})
         /\ Fault("held") /\ conf' = Enters(s, c, "held")
      \/ /\ dir = "sendrecv" /\ InState(c, {"outgoing", "resuming", "updating"})
         /\ conf' = [Enters(s, c, "running") EXCEPT
                       !.current = IF s.party[c].cur THEN @ ELSE c]

\* call_failure() of a re-INVITE.
PartyRefuses(c) ==
  /\ InState(c, Asking) /\ Fault("refused")
  /\ conf' = Enters(conf, c, conf.party[c].prev)

\* call_paused_by_remote() and call_resumed()
PartyHolds(c) ==
  /\ InState(c, {"running"}) /\ Fault("held")
  /\ conf' = Enters(RestartAudio(conf, c, "recvonly"), c, "held")
PartyUnholds(c) ==
  /\ InState(c, {"held"})
  /\ conf' = Enters(RestartAudio(conf, c, "sendrecv"), c, "running")

\* linphone_core_terminate_call() and call_terminated()
PartyEnds(c) ==
  ~ InState(c, {"none", "ended"}) /\ NobodyJoins(c) /\ conf' = EndParty(conf, c)

\* linphone_core_pause_call() and linphone_core_resume_call()
Pause(c) ==
  InState(c, {"running", "held"}) /\ conf' = PauseParty(conf, c)
Resume(c) == InState(c, {"paused"}) /\ Calm /\ Established /\ conf' = ResumeParty(conf, c)

\* The functions of conference.c.  To enter, there must be a mixer.
AddToConference(c) ==
  ~ InState(c, {"none", "ended"}) /\ Calm /\ conf' = AddParty(conf, c)
RemoveFromConference(c) ==
  conf.party[c].cur /\ Calm /\ conf' = RemoveParty(conf, c)
Enter == conf.mixer /\ Calm /\ Established /\ conf' = EnterConference(conf)
Leave == conf.local /\ conf' = LeaveConference(conf)
AddAll ==
  /\ Calm /\ Established
  /\ conf' = AddAllParties(conf) /\ conf'.mixer
Terminate == NobodyJoins(NoParty) /\ conf' = TerminateConference(conf)

\* The current call goes on, but is not the current one any more: PauseParty
\* resets the pointer whichever call it pauses.
Forgets ==
  /\ conf.current # NoParty /\ conf'.current = NoParty
  /\ conf'.party[conf.current] = conf.party[conf.current]

ConfStep ==
  \/ \E c \in Party :
       \/ PartyCalls(c) \/ CallParty(c) \/ AcceptParty(c)
       \/ \E dir \in {"sendrecv", "sendonly", "recvonly"} : PartyAnswers(c, dir)
       \/ PartyRefuses(c) \/ PartyHolds(c) \/ PartyUnholds(c) \/ PartyEnds(c)
       \/ Pause(c) \/ Resume(c) \/ AddToConference(c) \/ RemoveFromConference(c)
  \/ Enter \/ Leave \/ AddAll \/ Terminate

ConfNext == ConfStep /\ (Forgets => Fault("forgotten")) /\ conf'.lost <= MaxLost

-----------------------------------------------------------------------------
(* Properties                                                              *)

\* The mixer lives as long as somebody needs it: the streams plugged into it are
\* those of calls that go on and are in the conference, and after the last call
\* neither the mixer nor a local participant is left, whatever order the members
\* came and went in.
MixerIsThere ==
  /\ conf.faults \subseteq {"held", "refused", "forgotten"} =>
       \A c \in Mixed(conf) :
         conf.mixer /\ conf.party[c].cur /\ ~ InState(c, {"none", "ended"})
  /\ conf.faults = {} /\ conf.list = <<>> => ~ conf.mixer /\ ~ conf.local

\* The sound card has one user, a call or the local participant of the conference,
\* and it is the call shown as the current one if that is running: joining, leaving,
\* pausing and the conversion of the conference to a call hand it over.
SoundHasOneUser ==
  LET users == {c \in Party : conf.party[c].media = "sound"}
  IN  conf.faults = {} =>
        /\ Cardinality(users) + conf.lost + (IF conf.local THEN 1 ELSE 0) <= 1
        /\ conf.current # NoParty /\ InState(conf.current, {"running"})
             => conf.current \in users
=============================================================================
