--------------------------- MODULE ConferenceProofs ---------------------------
(***************************************************************************)
(* Theorems about the conference, for any number of calls: the mixer is    *)
(* there as long as a stream is plugged into it, and the sound card has    *)
(* one user.                                                               *)
(*                                                                         *)
(* Neither is inductive.  The mixer is there because of Plugged, which     *)
(* also speaks of the calls that only wish to be in the conference and of  *)
(* the state a refused re-INVITE leads back to.  The sound card has one    *)
(* user because of Owned: the one call that has the card, or gets it when  *)
(* its request is answered, is the current call, and then no local         *)
(* participant is in the conference.  Each handler is shown to lead from a *)
(* core that satisfies them to one that does, call after call where the    *)
(* code walks the list.                                                    *)
(***************************************************************************)
EXTENDS Conference, FiniteSetTheorems, SequenceTheorems, WellFoundedInduction, TLAPS

-----------------------------------------------------------------------------
(* The core, its parts and what a handler leaves alone                     *)

Media == {"off", "sound", "dry", "mixed"}
Direction == {"sendrecv", "sendonly", "recvonly"}

PartyType == [ state: PartyState, prev: PartyState, want: BOOLEAN, cur: BOOLEAN,
               media: Media, dir: Direction ]

ConfType == [ faults: SUBSET ConfFaults, party: [Party -> PartyType], list: Seq(Party),
              current: Party \cup {NoParty}, mixer: BOOLEAN, local: BOOLEAN, lost: Nat,
              terminated: BOOLEAN ]

Others(s, t, c) == \A d \in Party \ {c} : t.party[d] = s.party[d]

SameConf(s, t) ==
  /\ t.faults = s.faults /\ t.list = s.list /\ t.mixer = s.mixer /\ t.local = s.local
  /\ t.lost = s.lost /\ t.terminated = s.terminated

\* A call whose state changes, and nothing else.
Moves(x, y, new) ==
  /\ y.state = new /\ y.prev = x.state
  /\ y.want = x.want /\ y.cur = x.cur /\ y.media = x.media /\ y.dir = x.dir

\* A call whose stream is started.
Starts(x, y, media, dir) ==
  /\ y.state = x.state /\ y.prev = x.prev /\ y.want = x.want
  /\ y.cur = x.want /\ y.media = media /\ y.dir = dir

\* A call that is paused, or updated.
Pauses(x, y) ==
  /\ y.state = "pausing" /\ y.prev = x.state /\ y.media = "off"
  /\ y.want = x.want /\ y.cur = x.cur /\ y.dir = x.dir

Updates(x, y, wish) ==
  /\ y.state = "updating" /\ y.prev = "running" /\ y.want = wish
  /\ y.media = x.media /\ y.cur = x.cur /\ y.dir = x.dir

-----------------------------------------------------------------------------
(* Calls and their streams                                                 *)

LEMMA EntersIs ==
  ASSUME NEW s \in ConfType, NEW c \in Party, NEW new \in PartyState, NEW t, t = Enters(s, c, new)
  PROVE  /\ t \in ConfType /\ SameConf(s, t) /\ Others(s, t, c) /\ t.current = s.current
         /\ Moves(s.party[c], t.party[c], new)
<1>1. t = [s EXCEPT !.party[c].prev = s.party[c].state, !.party[c].state = new]
  BY DEF Enters
<1>2. PICK x \in PartyType : x = s.party[c]
  BY DEF ConfType
<1>3. PICK y \in PartyType : y = [x EXCEPT !.state = new, !.prev = x.state]
  BY DEF PartyType
<1>4. t = [s EXCEPT !.party = [s.party EXCEPT ![c] = y]]
  <2>1. PICK z \in PartyType : z = [x EXCEPT !.prev = x.state]
    BY DEF PartyType
  <2>2. PICK u : u = [s EXCEPT !.party[c].prev = x.state]
    OBVIOUS
  <2>3. u = [s EXCEPT !.party = [s.party EXCEPT ![c] = z]]
    BY <1>2, <2>1, <2>2 DEF ConfType
  <2>4. t = [u EXCEPT !.party[c].state = new]
    BY <1>1, <1>2, <2>2
  <2>5. y = [z EXCEPT !.state = new]
    BY <1>3, <2>1 DEF PartyType
  <2>6. u.party[c] = z /\ u.party = [s.party EXCEPT ![c] = z]
    BY <2>3 DEF ConfType
  <2>7. t = [u EXCEPT !.party = [u.party EXCEPT ![c] = y]]
    BY <2>4, <2>5, <2>6
  <2> QED BY <2>3, <2>6, <2>7 DEF ConfType
<1>5. [s.party EXCEPT ![c] = y] \in [Party -> PartyType]
  BY <1>3 DEF ConfType
<1>6. Moves(x, y, new)
  BY <1>3 DEF Moves, PartyType
<1> QED BY ZenonT(60), <1>2, <1>3, <1>4, <1>5, <1>6 DEF ConfType, SameConf, Others

LEMMA SilencedIs ==
  ASSUME NEW s \in ConfType, NEW c \in Party, NEW t, t = Silenced(s, c)
  PROVE  /\ t \in ConfType /\ SameConf(s, t) /\ Others(s, t, c) /\ t.current = s.current
         /\ t.party[c] = [s.party[c] EXCEPT !.media = "off"]
<1>1. PICK x \in PartyType : x = s.party[c]
  BY DEF ConfType
<1>2. PICK y \in PartyType : y = [x EXCEPT !.media = "off"]
  BY DEF PartyType, Media
<1>3. t = [s EXCEPT !.party = [s.party EXCEPT ![c] = y]]
  BY <1>1, <1>2 DEF ConfType, PartyType, Silenced
<1>4. [s.party EXCEPT ![c] = y] \in [Party -> PartyType]
  BY <1>2 DEF ConfType
<1> QED BY <1>1, <1>2, <1>3, <1>4 DEF ConfType, SameConf, Others

\* The stream the call gets.
NewMedia(s, c, dir) ==
  CASE s.party[c].want -> "mixed"
    [] ~s.party[c].want /\ ~s.local /\ s.current \in {NoParty, c} /\ dir = "sendrecv" -> "sound"
    [] OTHER -> "dry"

LEMMA NewMediaIs ==
  ASSUME NEW s \in ConfType, NEW c \in Party, NEW dir \in Direction
  PROVE  /\ NewMedia(s, c, dir) \in Media
         /\ s.party[c].want => NewMedia(s, c, dir) = "mixed"
         /\ ~s.party[c].want => NewMedia(s, c, dir) \in {"sound", "dry"}
         /\ ~s.party[c].want /\ dir # "sendrecv" => NewMedia(s, c, dir) = "dry"
         /\ ~s.party[c].want /\ dir = "sendrecv" /\ ~s.local /\ s.current \in {NoParty, c}
              => NewMedia(s, c, dir) = "sound"
<1>1. CASE s.party[c].want
  BY <1>1 DEF NewMedia, Media
<1>2. CASE ~s.party[c].want /\ ~s.local /\ s.current \in {NoParty, c} /\ dir = "sendrecv"
  BY <1>2 DEF NewMedia, Media
<1>3. CASE ~s.party[c].want /\ ~(~s.local /\ s.current \in {NoParty, c} /\ dir = "sendrecv")
  BY <1>3 DEF NewMedia, Media
<1> QED BY <1>1, <1>2, <1>3

LEMMA AudioStarted ==
  ASSUME NEW s \in ConfType, NEW c \in Party, NEW dir \in Direction, NEW t, t = StartAudio(s, c, dir)
  PROVE  /\ t \in ConfType /\ SameConf(s, t) /\ Others(s, t, c) /\ t.current = s.current
         /\ Starts(s.party[c], t.party[c], NewMedia(s, c, dir), dir)
<1>1. PICK x \in PartyType : x = s.party[c]
  BY DEF ConfType
<1>2. PICK media \in Media : media = NewMedia(s, c, dir)
  BY NewMediaIs
<1>3. PICK y \in PartyType : y = [x EXCEPT !.media = media, !.cur = x.want, !.dir = dir]
  BY DEF PartyType
<1>4. t = [s EXCEPT !.party[c].media = media, !.party[c].cur = x.want, !.party[c].dir = dir]
  BY <1>1, <1>2 DEF StartAudio, NewMedia
<1>5. t = [s EXCEPT !.party = [s.party EXCEPT ![c] = y]]
  <2>1. PICK z \in PartyType : z = [x EXCEPT !.media = media]
    BY DEF PartyType
  <2>2. PICK w \in PartyType : w = [z EXCEPT !.cur = x.want]
    BY DEF PartyType
  <2>3. PICK u : u = [s EXCEPT !.party[c].media = media]
    OBVIOUS
  <2>4. u = [s EXCEPT !.party = [s.party EXCEPT ![c] = z]]
    BY <1>1, <2>1, <2>3 DEF ConfType
  <2>5. PICK v : v = [u EXCEPT !.party[c].cur = x.want]
    OBVIOUS
  <2>6. u.party[c] = z /\ u.party = [s.party EXCEPT ![c] = z]
    BY <2>4 DEF ConfType
  <2>7. v = [u EXCEPT !.party = [u.party EXCEPT ![c] = w]]
    BY <2>2, <2>5, <2>6
  <2>8. v = [s EXCEPT !.party = [s.party EXCEPT ![c] = w]]
    BY <2>4, <2>6, <2>7 DEF ConfType
  <2>9. t = [v EXCEPT !.party[c].dir = dir]
    BY <1>4, <2>3, <2>5
  <2>10. v.party[c] = w /\ v.party = [s.party EXCEPT ![c] = w]
    BY <2>8 DEF ConfType
  <2>11. y = [w EXCEPT !.dir = dir]
    BY <1>3, <2>1, <2>2 DEF PartyType
  <2>12. t = [v EXCEPT !.party = [v.party EXCEPT ![c] = y]]
    BY <2>9, <2>10, <2>11
  <2> QED BY <2>8, <2>10, <2>12 DEF ConfType
<1>6. [s.party EXCEPT ![c] = y] \in [Party -> PartyType]
  BY <1>3 DEF ConfType
<1>7. Starts(x, y, media, dir)
  BY <1>3 DEF Starts, PartyType
<1> QED BY ZenonT(60), <1>1, <1>2, <1>3, <1>5, <1>6, <1>7 DEF ConfType, SameConf, Others

\* Streams that go on as they are, or are started.
LEMMA AudioRestarted ==
  ASSUME NEW s \in ConfType, NEW c \in Party, NEW dir \in Direction, NEW t, t = RestartAudio(s, c, dir)
  PROVE  /\ t \in ConfType /\ SameConf(s, t) /\ Others(s, t, c) /\ t.current = s.current
         /\ \/ /\ t = s /\ s.party[c].media # "off" /\ s.party[c].dir = dir
               /\ s.party[c].want = s.party[c].cur
            \/ Starts(s.party[c], t.party[c], NewMedia(s, c, dir), dir)
<1> DEFINE Goes == s.party[c].media # "off" /\ s.party[c].dir = dir /\ s.party[c].want = s.party[c].cur
<1>1. CASE Goes
  <2>1. t = s
    BY <1>1 DEF RestartAudio
  <2> QED BY <1>1, <2>1 DEF SameConf, Others
<1>2. CASE ~Goes
  <2>1. t = StartAudio(s, c, dir)
    BY <1>2 DEF RestartAudio
  <2> QED BY <2>1, AudioStarted
<1> QED BY <1>1, <1>2

-----------------------------------------------------------------------------
(* The mixer and the local participant                                     *)

LEMMA LocalAdded ==
  ASSUME NEW s \in ConfType, NEW t, t = AddLocal(s)
  PROVE  /\ t \in ConfType /\ t.party = s.party /\ t.current = s.current /\ t.faults = s.faults
         /\ t.list = s.list /\ t.mixer = s.mixer /\ t.local /\ t.terminated = s.terminated
         /\ ~s.local => t.lost = s.lost
<1>1. PICK n \in Nat : n = (IF s.local THEN s.lost + 1 ELSE s.lost)
  BY DEF ConfType
<1>2. t = [s EXCEPT !.local = TRUE, !.lost = n]
  BY <1>1 DEF AddLocal
<1>3. t.lost = n /\ (~s.local => n = s.lost)
  BY <1>1, <1>2 DEF ConfType
<1> QED BY <1>1, <1>2, <1>3 DEF ConfType

LEMMA LocalLeft ==
  ASSUME NEW s \in ConfType, NEW t, t = LeaveConference(s)
  PROVE  /\ t \in ConfType /\ t.party = s.party /\ t.current = s.current /\ t.faults = s.faults
         /\ t.list = s.list /\ t.mixer = s.mixer /\ ~t.local /\ t.terminated = s.terminated
         /\ t.lost = s.lost
BY DEF LeaveConference, ConfType

LEMMA MixerMade ==
  ASSUME NEW s \in ConfType, NEW t, t = ConfInitialized(s)
  PROVE  /\ t \in ConfType /\ t.party = s.party /\ t.current = s.current /\ t.faults = s.faults
         /\ t.list = s.list /\ t.mixer /\ t.local = s.local /\ t.lost = s.lost
<1>1. PICK b \in BOOLEAN : b = (s.terminated /\ s.mixer)
  OBVIOUS
<1>2. t = [s EXCEPT !.mixer = TRUE, !.terminated = b]
  BY <1>1 DEF ConfInitialized
<1> QED BY <1>1, <1>2 DEF ConfType

LEMMA PartyPaused ==
  ASSUME NEW s \in ConfType, NEW c \in Party, NEW t, t = PauseParty(s, c)
  PROVE  /\ t \in ConfType /\ SameConf(s, t) /\ Others(s, t, c)
         /\ s.party[c].state \notin {"running", "held"} => t = s
         /\ s.party[c].state \in {"running", "held"} =>
              /\ t.current = NoParty
              /\ Pauses(s.party[c], t.party[c])
<1>1. CASE s.party[c].state \notin {"running", "held"}
  BY <1>1 DEF PauseParty, SameConf, Others
<1>2. CASE s.party[c].state \in {"running", "held"}
  <2>1. PICK u : u = [s EXCEPT !.current = NoParty]
    OBVIOUS
  <2>2. u \in ConfType /\ SameConf(s, u) /\ u.party = s.party /\ u.current = NoParty
    BY <2>1 DEF ConfType, SameConf
  <2>3. PICK v : v = Silenced(u, c)
    OBVIOUS
  <2>4. /\ v \in ConfType /\ SameConf(u, v) /\ Others(u, v, c) /\ v.current = u.current
        /\ v.party[c] = [u.party[c] EXCEPT !.media = "off"]
    BY <2>2, <2>3, SilencedIs
  <2>5. PICK new \in PartyState : new = "pausing"
    BY DEF PartyState
  <2>10. t = Enters(v, c, new)
    BY <1>2, <2>1, <2>3, <2>5 DEF PauseParty
  <2>6. /\ t \in ConfType /\ SameConf(v, t) /\ Others(v, t, c) /\ t.current = v.current
        /\ Moves(v.party[c], t.party[c], new)
    BY <2>4, <2>10, EntersIs
  <2>7. PICK x \in PartyType : x = s.party[c]
    BY DEF ConfType
  <2>8. Pauses(x, t.party[c])
    BY <2>2, <2>4, <2>5, <2>6, <2>7 DEF PartyType, Moves, Pauses
  <2>9. SameConf(s, t) /\ Others(s, t, c)
    BY <2>2, <2>4, <2>6 DEF SameConf, Others
  <2> QED BY <1>2, <2>2, <2>4, <2>6, <2>7, <2>8, <2>9
<1> QED BY <1>1, <1>2

\* The call is updated, or is in no state to be.
LEMMA PartyUpdated ==
  ASSUME NEW s \in ConfType, NEW c \in Party, NEW wish \in BOOLEAN, NEW t, t = UpdateParty(s, c, wish)
  PROVE  /\ t \in ConfType /\ SameConf(s, t) /\ Others(s, t, c) /\ t.current = s.current
         /\ s.party[c].state # "running" => t = s
         /\ s.party[c].state = "running" =>
              Updates(s.party[c], t.party[c], wish)
<1>1. CASE s.party[c].state # "running"
  BY <1>1 DEF UpdateParty, SameConf, Others
<1>2. CASE s.party[c].state = "running"
  <2>1. PICK new \in PartyState : new = "updating"
    BY DEF PartyState
  <2>2. PICK u : u = Enters(s, c, new)
    OBVIOUS
  <2>3. /\ u \in ConfType /\ SameConf(s, u) /\ Others(s, u, c) /\ u.current = s.current
        /\ Moves(s.party[c], u.party[c], new)
    BY <2>2, EntersIs
  <2>4. t = [u EXCEPT !.party[c].want = wish]
    BY <1>2, <2>1, <2>2 DEF UpdateParty
  <2>5. PICK x \in PartyType : x = s.party[c]
    BY DEF ConfType
  <2>6. PICK y \in PartyType : y = [x EXCEPT !.want = wish, !.state = "updating", !.prev = "running"]
    BY DEF PartyType, PartyState
  <2>9. PICK z \in PartyType : z = u.party[c]
    BY <2>3 DEF ConfType
  <2>10. y = [z EXCEPT !.want = wish]
    BY <1>2, <2>1, <2>3, <2>5, <2>6, <2>9 DEF PartyType, Moves
  <2>7. t = [u EXCEPT !.party = [u.party EXCEPT ![c] = y]]
    BY <2>4, <2>9, <2>10
  <2>8. [u.party EXCEPT ![c] = y] \in [Party -> PartyType]
    BY <2>3, <2>6 DEF ConfType
  <2>11. Updates(x, y, wish)
    BY <1>2, <2>5, <2>6 DEF Updates, PartyType
  <2> QED BY SMTT(60), <1>2, <2>3, <2>5, <2>6, <2>7, <2>8, <2>11 DEF ConfType, SameConf, Others
<1> QED BY <1>1, <1>2

-----------------------------------------------------------------------------
(* Sequences, and what is folded over them                                 *)

\* A set of natural numbers that is not empty has a least element.
LEMMA LeastNat ==
  ASSUME NEW T, T \subseteq Nat, T # {}
  PROVE  \E m \in T : \A k \in T : m <= k
<1>1. PICK m \in T : \A k \in T : ~ (<<k, m>> \in OpToRel(<, Nat))
  BY NatLessThanWellFounded, WFMin
<1>2. \A k \in T : ~ (k < m)
  BY <1>1 DEF OpToRel
<1> QED BY <1>2

\* What holds at the start and is kept by each step of f holds all along.
LEMMA Reaches ==
  ASSUME NEW n \in Nat, NEW A, NEW f, f[0] \in A, \A i \in 1..n : f[i - 1] \in A => f[i] \in A
  PROVE  \A i \in 0..n : f[i] \in A
<1> DEFINE T == {i \in 0..n : f[i] \notin A}
<1> SUFFICES ASSUME T # {} PROVE FALSE
  OBVIOUS
<1>1. PICK m \in T : \A k \in T : m <= k
  <2>1. T \subseteq Nat /\ T # {}
    OBVIOUS
  <2> HIDE DEF T
  <2> QED BY <2>1, LeastNat
<1>2. m # 0 /\ m \in 1..n
  BY <1>1
<1>3. m - 1 \notin T /\ m - 1 \in 0..n
  BY <1>1, <1>2
<1> QED BY <1>1, <1>2, <1>3

\* The same of a set of numbers.
LEMMA Counting ==
  ASSUME NEW n \in Nat, NEW B, 0 \in B, \A i \in 1..n : i - 1 \in B => i \in B
  PROVE  \A i \in 0..n : i \in B
<1> DEFINE f == [i \in 0..n |-> i]
<1>1. f[0] = 0 /\ \A i \in 1..n : f[i - 1] = i - 1 /\ f[i] = i
  OBVIOUS
<1>2. \A i \in 0..n : f[i] = i
  OBVIOUS
<1> HIDE DEF f
<1>3. f[0] \in B /\ \A i \in 1..n : f[i - 1] \in B => f[i] \in B
  BY <1>1
<1>4. \A i \in 0..n : f[i] \in B
  BY <1>3, Reaches
<1> QED BY <1>2, <1>4

\* A function defined step by step, by one function per step.
Steps(n, A) == [1..n -> [A -> A]]

Stepwise(n, A, s, h, g) ==
  g \in [0..n -> A] /\ g[0] = s /\ \A i \in 1..n : g[i] = h[i][g[i - 1]]

\* There is a function of every list of steps.
LEMMA StepByStep ==
  ASSUME NEW n \in Nat, NEW A, NEW s \in A, NEW h \in Steps(n, A)
  PROVE  \E g : Stepwise(n, A, s, h, g)
<1> USE DEF Steps, Stepwise
<1> DEFINE Exists(k) == \E g \in [0..k -> A] : g[0] = s /\ \A i \in 1..k : g[i] = h[i][g[i - 1]]
           T == {k \in 0..n : ~Exists(k)}
<1> SUFFICES ASSUME T # {} PROVE FALSE
  <2>1. T = {} => Exists(n)
    <3> HIDE DEF Exists
    <3> QED OBVIOUS
  <2> QED BY <2>1
<1>1. PICK m \in T : \A k \in T : m <= k
  <2>1. T \subseteq Nat /\ T # {}
    OBVIOUS
  <2> HIDE DEF T
  <2> QED BY <2>1, LeastNat
<1>2. m # 0
  <2>1. Exists(0)
    <3> DEFINE g == [i \in 0..0 |-> s]
    <3>1. g \in [0..0 -> A] /\ g[0] = s /\ 1..0 = {}
      OBVIOUS
    <3> HIDE DEF g
    <3> QED BY <3>1
  <2> QED BY <2>1, <1>1
<1>3. Exists(m - 1) /\ m - 1 \in Nat /\ m \in 1..n
  <2>1. m \in 1..n /\ m - 1 \in 0..n /\ m - 1 \in Nat
    BY <1>2
  <2> HIDE DEF Exists
  <2>2. m - 1 \notin T
    BY <1>1, <2>1
  <2> QED BY <2>1, <2>2
<1>4. PICK g \in [0..(m - 1) -> A] :
        g[0] = s /\ \A i \in 1..(m - 1) : g[i] = h[i][g[i - 1]]
  BY <1>3
<1> DEFINE e == [i \in 0..m |-> IF i = m THEN h[m][g[m - 1]] ELSE g[i]]
<1>5. g[m - 1] \in A
  BY <1>3
<1>6. h[m][g[m - 1]] \in A
  BY <1>3, <1>5
<1>7. e \in [0..m -> A]
  BY <1>3, <1>6
<1>8. e[0] = s
  BY <1>3, <1>4
<1>9. ASSUME NEW i \in 1..m  PROVE e[i] = h[i][e[i - 1]]
  <2>1. CASE i = m
    <3>1. m - 1 \in 0..m /\ m - 1 # m /\ m \in 0..m
      BY <1>3
    <3> QED BY <2>1, <3>1
  <2>2. CASE i # m
    BY <1>3, <1>4, <2>2
  <2> QED BY <2>1, <2>2
<1>10. Exists(m)
  BY <1>7, <1>8, <1>9
<1> QED BY <1>1, <1>10

\* A fold whose steps are functions.
FoldEquation(J, n, s, h) ==
  J = [T \in SUBSET (1..n) |-> IF T = {} THEN s ELSE h[Max(T)][J[T \ {Max(T)}]]]

LEMMA MaxIs ==
  ASSUME NEW n \in Nat, NEW T, T \subseteq 1..n, T # {}
  PROVE  Max(T) \in T /\ \A k \in T : k <= Max(T)
<1> DEFINE U == {n - k : k \in T}
<1>4. \A k \in T : k \in 1..n /\ n - k \in Nat
  OBVIOUS
<1>1. PICK m \in U : \A k \in U : m <= k
  <2>1. U \subseteq Nat /\ U # {}
    BY <1>4
  <2> HIDE DEF U
  <2> QED BY <2>1, LeastNat
<1>2. PICK x \in T : m = n - x
  BY <1>1
<1>3. \A k \in T : k <= x
  <2> TAKE k \in T
  <2>1. n - k \in U
    OBVIOUS
  <2>2. n - x <= n - k /\ k \in 1..n /\ x \in 1..n
    BY <1>1, <1>2, <1>4, <2>1
  <2> QED BY <2>2
<1> QED BY <1>2, <1>3 DEF Max

\* What the fold over a set makes of s: the steps that are in the set.
LEMMA FoldExists ==
  ASSUME NEW n \in Nat, NEW A, NEW s \in A, NEW h \in Steps(n, A)
  PROVE  \E J \in [SUBSET (1..n) -> A] : FoldEquation(J, n, s, h)
<1> DEFINE Part(T) == [i \in 1..n |-> IF i \in T THEN h[i] ELSE [t \in A |-> t]]
           Run(T) == CHOOSE g : Stepwise(n, A, s, Part(T), g)
           J == [T \in SUBSET (1..n) |-> Run(T)[n]]
<1>1. ASSUME NEW T  PROVE Part(T) \in Steps(n, A)
  BY DEF Steps
<1>2. ASSUME NEW T  PROVE Stepwise(n, A, s, Part(T), Run(T))
  <2>1. \E g : Stepwise(n, A, s, Part(T), g)
    <3> HIDE DEF Part
    <3> QED BY <1>1, StepByStep
  <2> QED BY <2>1
<1> HIDE DEF Run
<1>3. ASSUME NEW T, NEW i \in 1..n
      PROVE  /\ Run(T) \in [0..n -> A] /\ Run(T)[0] = s
             /\ i \in T => Run(T)[i] = h[i][Run(T)[i - 1]]
             /\ i \notin T => Run(T)[i] = Run(T)[i - 1]
  <2>1. Run(T) \in [0..n -> A] /\ Run(T)[0] = s /\ Run(T)[i] = Part(T)[i][Run(T)[i - 1]]
    BY <1>2 DEF Stepwise
  <2>2. Run(T)[i - 1] \in A
    BY <2>1
  <2> QED BY <2>1, <2>2
<1>4. ASSUME NEW T, T = {}  PROVE Run(T)[n] = s
  <2> DEFINE B == {i \in 0..n : Run(T)[i] = s}
  <2>1. 0 \in B
    BY <1>2 DEF Stepwise
  <2>2. \A i \in 1..n : i - 1 \in B => i \in B
    BY <1>3, <1>4
  <2>3. \A i \in 0..n : i \in B
    <3> HIDE DEF B
    <3> QED BY <2>1, <2>2, Counting
  <2> QED BY <2>3
<1>5. ASSUME NEW T, T \subseteq 1..n, T # {}
      PROVE  Run(T)[n] = h[Max(T)][Run(T \ {Max(T)})[n]]
  <2>1. PICK m \in 1..n : m = Max(T) /\ m \in T /\ \A k \in T : k <= m
    BY <1>5, MaxIs
  <2> DEFINE V == T \ {m}
             B == {i \in 0..n : i <= m - 1 => Run(T)[i] = Run(V)[i]}
             C == {i \in 0..n : m <= i => Run(T)[i] = Run(T)[m]}
             D == {i \in 0..n : m - 1 <= i => Run(V)[i] = Run(V)[m - 1]}
  <2>2. ASSUME NEW i \in 1..n, i - 1 \in B PROVE i \in B
    <3>1. CASE i <= m - 1
      <4>1. Run(T)[i - 1] = Run(V)[i - 1] /\ (i \in T <=> i \in V)
        BY <2>2, <3>1
      <4> QED BY <1>3, <4>1
    <3> QED BY <3>1
  <2>3. ASSUME NEW i \in 1..n, i - 1 \in C PROVE i \in C
    <3>1. CASE m <= i - 1
      <4>1. i \notin T /\ Run(T)[i - 1] = Run(T)[m]
        BY <2>1, <2>3, <3>1
      <4> QED BY <1>3, <4>1
    <3>2. CASE i = m \/ i < m
      BY <3>2
    <3> QED BY <3>1, <3>2
  <2>4. ASSUME NEW i \in 1..n, i - 1 \in D PROVE i \in D
    <3>1. CASE m - 1 <= i - 1
      <4>1. i \notin V /\ Run(V)[i - 1] = Run(V)[m - 1]
        BY <2>1, <2>4, <3>1
      <4> QED BY <1>3, <4>1
    <3>2. CASE i = m - 1 \/ i < m - 1
      BY <3>2
    <3> QED BY <3>1, <3>2
  <2>5. 0 \in B /\ 0 \in C /\ 0 \in D
    BY <1>3, <2>1
  <2>6. \A i \in 0..n : i \in B /\ i \in C /\ i \in D
    <3> HIDE DEF B, C, D
    <3>1. \A i \in 0..n : i \in B
      BY <2>2, <2>5, Counting
    <3>2. \A i \in 0..n : i \in C
      BY <2>3, <2>5, Counting
    <3>3. \A i \in 0..n : i \in D
      BY <2>4, <2>5, Counting
    <3> QED BY <3>1, <3>2, <3>3
  <2>7. m - 1 \in 0..n /\ n \in 0..n /\ m <= n /\ m - 1 <= n
    BY <2>1
  <2>8. Run(T)[n] = Run(T)[m] /\ Run(V)[n] = Run(V)[m - 1] /\ Run(T)[m - 1] = Run(V)[m - 1]
    BY <2>6, <2>7
  <2>9. Run(T)[m] = h[m][Run(T)[m - 1]]
    BY <1>3, <2>1
  <2> QED BY <2>1, <2>8, <2>9
<1>6. ASSUME NEW T \in SUBSET (1..n)
      PROVE  J[T] = IF T = {} THEN s ELSE h[Max(T)][J[T \ {Max(T)}]]
  BY <1>4, <1>5, <1>6
<1>7. J = [T \in SUBSET (1..n) |-> J[T]]
  OBVIOUS
<1>8. FoldEquation(J, n, s, h)
  <2> HIDE DEF J
  <2> QED BY <1>6, <1>7 DEF FoldEquation
<1>9. J \in [SUBSET (1..n) -> A]
  <2>1. \A T : Run(T)[n] \in A
    BY <1>2 DEF Stepwise
  <2> QED BY <2>1
<1> QED BY <1>8, <1>9
\* linphone_core_add_all_to_conference(), call after call.
LEMMA AllAdded ==
  ASSUME NEW A, NEW s \in A, NEW l \in Seq(Party),
         \A t \in A, c \in Party : AddParty(t, c) \in A
  PROVE  FoldLeft(AddParty, s, l) \in A
<1>1. PICK n \in Nat : n = Len(l) /\ DOMAIN l = 1..n /\ \A i \in 1..n : l[i] \in Party
  OBVIOUS
<1> DEFINE Is(f) == f = [T \in SUBSET (DOMAIN l) |-> IF T = {} THEN s
                           ELSE AddParty(f[T \ {Max(T)}], l[Max(T)])]
           h == [i \in 1..n |-> [t \in A |-> AddParty(t, l[i])]]
<1>2. PICK J \in [SUBSET (1..n) -> A] : FoldEquation(J, n, s, h)
  <2>1. h \in Steps(n, A)
    BY <1>1 DEF Steps
  <2> HIDE DEF h
  <2> QED BY <2>1, FoldExists
<1>3. Is(J)
  <2>1. \A T \in SUBSET (1..n) : T # {} =>
          h[Max(T)][J[T \ {Max(T)}]] = AddParty(J[T \ {Max(T)}], l[Max(T)])
    BY MaxIs
  <2> QED BY <1>1, <1>2, <2>1 DEF FoldEquation
<1>4. PICK f : f = (CHOOSE e : Is(e)) /\ Is(f)
  BY <1>3
<1>5. FoldLeft(AddParty, s, l) = f[DOMAIN l]
  BY <1>4 DEF FoldLeft, MapThenFoldSet
<1> DEFINE B == {i \in 0..n : f[1..i] \in A}
<1>6. 0 \in B
  <2>1. 1..0 = {} /\ {} \in SUBSET (DOMAIN l)
    OBVIOUS
  <2>2. f[{}] = s
    BY <1>4, <2>1
  <2> QED BY <2>1, <2>2
<1>7. ASSUME NEW i \in 1..n, i - 1 \in B  PROVE i \in B
  <2>0. i \in Nat /\ i >= 1 /\ i <= n /\ i \in 1..i /\ i - 1 \in 0..n
    BY <1>1
  <2>6. 1..i \subseteq 1..n
    BY <1>1, <2>0
  <2>7. (1..i) \ {i} = 1..(i - 1)
    BY <2>0
  <2>1. 1..i \in SUBSET (DOMAIN l) /\ 1..i # {} /\ (1..i) \ {i} = 1..(i - 1) /\ 1..i \subseteq 1..n
    BY <1>1, <2>0, <2>6, <2>7
  <2>2. Max(1..i) = i
    <3>1. Max(1..i) \in 1..i /\ \A k \in 1..i : k <= Max(1..i)
      BY <2>1, MaxIs
    <3> QED BY <2>0, <3>1
  <2>3. f[1..i] = AddParty(f[(1..i) \ {Max(1..i)}], l[Max(1..i)])
    BY <1>4, <2>1
  <2>4. f[1..i] = AddParty(f[1..(i - 1)], l[i])
    BY <2>1, <2>2, <2>3
  <2> QED BY <1>1, <1>7, <2>0, <2>4
<1>8. \A i \in 0..n : i \in B
  <2> HIDE DEF B
  <2> QED BY <1>6, <1>7, Counting
<1> QED BY <1>1, <1>5, <1>8

\* A set of positions has a first one.
LEMMA MinIs ==
  ASSUME NEW I, I \subseteq Nat, I # {}
  PROVE  Min(I) \in I
<1>1. PICK m \in I : \A k \in I : m <= k
  BY LeastNat
<1> QED BY <1>1 DEF Min

\* The first call of the list that is to be in the conference.
FirstWanting(s) == SelectInSeq(s.list, LAMBDA c : s.party[c].want)

LEMMA WantingIs ==
  ASSUME NEW s \in ConfType, NEW i, i = FirstWanting(s)
  PROVE  \/ i = 0
         \/ i \in 1..Len(s.list) /\ s.list[i] \in Party /\ s.party[s.list[i]].want
<1> DEFINE I == {j \in 1..Len(s.list) : s.party[s.list[j]].want}
<1>1. i = IF I # {} THEN Min(I) ELSE 0
  BY DEF FirstWanting, SelectInSeq
<1>2. CASE I # {}
  <2>1. I \subseteq Nat
    OBVIOUS
  <2>2. i \in I
    <3> HIDE DEF I
    <3> QED BY <1>1, <1>2, <2>1, MinIs
  <2>3. s.list \in Seq(Party) /\ i \in 1..Len(s.list)
    BY <2>2 DEF ConfType
  <2>4. s.list[i] \in Party
    BY <2>3
  <2> QED BY <2>2, <2>4
<1>3. CASE I = {}
  BY <1>1, <1>3
<1> QED BY <1>2, <1>3

\* Removing one call from a list leaves the others there.
LEMMA RemovedIs ==
  ASSUME NEW l \in Seq(Party), NEW c \in Party, NEW r, r = RemoveFirst(l, c)
  PROVE  /\ r \in Seq(Party)
         /\ \A i \in DOMAIN l : l[i] # c => \E j \in DOMAIN r : r[j] = l[i]
<1>1. CASE \E i \in 1..Len(l) : l[i] = c
  <2> DEFINE I == {i \in 1..Len(l) : l[i] = c}
  <2>1. PICK k \in 1..Len(l) : k = SelectInSeq(l, LAMBDA v : v = c) /\ l[k] = c
    <3>1. I \subseteq Nat /\ I # {}
      BY <1>1
    <3>2. Min(I) \in I
      <4> HIDE DEF I
      <4> QED BY <3>1, MinIs
    <3>3. SelectInSeq(l, LAMBDA v : v = c) = Min(I)
      BY <3>1 DEF SelectInSeq
    <3> QED BY <3>2, <3>3
  <2>2. r = SubSeq(l, 1, k - 1) \o SubSeq(l, k + 1, Len(l))
    BY <1>1, <2>1 DEF RemoveFirst, RemoveAt
  <2>0. /\ 1 \in Int /\ k - 1 \in Int /\ k + 1 \in Int /\ Len(l) \in Nat /\ k \in 1..Len(l)
        /\ \A i \in 1..(k - 1) : l[i] \in Party
        /\ \A i \in (k + 1)..Len(l) : l[i] \in Party
    <3>1. \A i \in 1..Len(l) : l[i] \in Party
      OBVIOUS
    <3>4. PICK n \in Nat : n = Len(l)
      OBVIOUS
    <3>5. k \in 1..n
      BY <2>1, <3>4
    <3>6. 1..(k - 1) \subseteq 1..n
      BY <3>5
    <3>7. (k + 1)..n \subseteq 1..n
      BY <3>5
    <3>2. 1..(k - 1) \subseteq 1..Len(l) /\ (k + 1)..Len(l) \subseteq 1..Len(l)
      BY <3>4, <3>6, <3>7
    <3>3. 1 \in Int /\ k - 1 \in Int /\ k + 1 \in Int /\ Len(l) \in Nat /\ k \in 1..Len(l)
      BY <2>1
    <3> QED BY <3>1, <3>2, <3>3
  <2>3. /\ SubSeq(l, 1, k - 1) \in Seq(Party)
        /\ Len(SubSeq(l, 1, k - 1)) = (IF 1 <= k - 1 THEN k - 1 - 1 + 1 ELSE 0)
        /\ \A i \in 1..(k - 1 - 1 + 1) : SubSeq(l, 1, k - 1)[i] = l[1 + i - 1]
    BY <2>0, SubSeqProperties
  <2>4. /\ SubSeq(l, k + 1, Len(l)) \in Seq(Party)
        /\ Len(SubSeq(l, k + 1, Len(l))) = (IF k + 1 <= Len(l) THEN Len(l) - (k + 1) + 1 ELSE 0)
        /\ \A i \in 1..(Len(l) - (k + 1) + 1) : SubSeq(l, k + 1, Len(l))[i] = l[(k + 1) + i - 1]
    BY <2>0, SubSeqProperties
  <2> DEFINE a == SubSeq(l, 1, k - 1)
             b == SubSeq(l, k + 1, Len(l))
  <2>6. /\ a \in Seq(Party) /\ b \in Seq(Party) /\ r = a \o b /\ Len(a) = k - 1 /\ Len(b) = Len(l) - k
        /\ \A i \in 1..(k - 1) : a[i] = l[i]
        /\ \A i \in 1..(Len(l) - k) : b[i] = l[k + i]
    BY <2>0, <2>2, <2>3, <2>4
  <2> HIDE DEF a, b
  <2>9. /\ r \in Seq(Party) /\ Len(r) = Len(a) + Len(b)
        /\ \A i \in 1..(Len(a) + Len(b)) : r[i] = IF i <= Len(a) THEN a[i] ELSE b[i - Len(a)]
    <3>1. a \in Seq(Party) /\ b \in Seq(Party) /\ r = a \o b
      BY <2>6
    <3> QED BY <3>1, ConcatProperties
  <2>7. r \in Seq(Party) /\ Len(r) = Len(l) - 1 /\ DOMAIN r = 1..(Len(l) - 1)
    BY <2>0, <2>6, <2>9
  <2>8. ASSUME NEW i \in DOMAIN l, l[i] # c  PROVE \E j \in DOMAIN r : r[j] = l[i]
    <3>1. CASE i < k
      <4>1. i \in 1..(k - 1) /\ i \in DOMAIN r
        BY <2>1, <2>7, <3>1
      <4>2. r[i] = l[i]
        BY <2>0, <2>6, <2>9, <4>1
      <4> QED BY <4>1, <4>2
    <3>2. CASE i > k
      <4>0. i \in 1..Len(l)
        OBVIOUS
      <4>1. i - 1 \in 1..(Len(l) - 1) /\ i - k \in 1..(Len(l) - k) /\ ~(i - 1 <= Len(a))
            /\ (i - 1) - Len(a) = i - k /\ i - 1 \in 1..(Len(a) + Len(b)) /\ k + (i - k) = i
        BY <2>0, <2>6, <3>2, <4>0
      <4>2. r[i - 1] = b[i - k]
        BY <2>9, <4>1
      <4>3. b[i - k] = l[i]
        BY <2>6, <4>1
      <4> QED BY <2>7, <4>1, <4>2, <4>3
    <3>3. i # k
      BY <2>1, <2>8
    <3> QED BY <2>1, <3>1, <3>2, <3>3
  <2> QED BY <2>7, <2>8
<1>2. CASE ~ \E i \in 1..Len(l) : l[i] = c
  <2>1. r = l
    BY <1>2 DEF RemoveFirst
  <2> QED BY <2>1
<1> QED BY <1>1, <1>2

-----------------------------------------------------------------------------
(* The invariant of the mixer                                              *)

Rested == {"running", "paused", "held"}

\* Every call that goes on is in the list.
IsListed(s, c) == \E i \in DOMAIN s.list : s.list[i] = c
Listed(s) == \A c \in Party : s.party[c].state \notin {"none", "ended"} => IsListed(s, c)

\* A call that is to be in the conference, or is plugged into its mixer, has been
\* answered, and the mixer is there; a request of ours that is refused leads back to
\* such a call.
PluggedAt(s, c) ==
  LET x == s.party[c]
  IN  /\ x.want \/ x.media = "mixed" => s.mixer /\ x.state \in Asking \cup Rested
      /\ x.media = "mixed" => x.cur
      /\ x.state \in Asking => x.prev \in Rested
Plugged(s) == \A c \in Party : PluggedAt(s, c)

\* Every other call that is to be in the conference is plugged in.
Seated(s, c) == \A d \in Party \ {c} : s.party[d].want => s.party[d].media = "mixed"

\* What a handler leads to: a core whose list is in order and, if it was before, whose
\* mixer is there.
Leads(s, t) ==
  /\ t \in ConfType /\ t.faults = s.faults
  /\ Listed(s) => Listed(t)
  /\ Plugged(s) => Plugged(t)

LEMMA LeadsOn ==
  ASSUME NEW s, NEW t, NEW u, Leads(s, t), Leads(t, u)
  PROVE  Leads(s, u)
BY DEF Leads

LEMMA LeadsSelf ==
  ASSUME NEW s \in ConfType
  PROVE  Leads(s, s)
BY DEF Leads

\* A handler of one call.
LEMMA OneLeads ==
  ASSUME NEW s \in ConfType, NEW t \in ConfType, NEW c \in Party, Others(s, t, c),
         t.faults = s.faults, t.list = s.list, s.mixer => t.mixer,
         t.party[c].state \notin {"none", "ended"} => s.party[c].state \notin {"none", "ended"},
         Plugged(s) => PluggedAt(t, c)
  PROVE  Leads(s, t)
<1>1. ASSUME Listed(s)  PROVE Listed(t)
  <2> SUFFICES ASSUME NEW d \in Party, t.party[d].state \notin {"none", "ended"}
               PROVE  IsListed(t, d)
    BY DEF Listed
  <2>1. s.party[d].state \notin {"none", "ended"}
    BY DEF Others
  <2>2. IsListed(s, d)
    BY <1>1, <2>1 DEF Listed
  <2> QED BY <2>2 DEF IsListed
<1>2. ASSUME Plugged(s)  PROVE Plugged(t)
  <2> SUFFICES ASSUME NEW d \in Party  PROVE PluggedAt(t, d)
    BY DEF Plugged
  <2>1. CASE d = c
    BY <1>2, <2>1
  <2>2. CASE d # c
    <3>1. PluggedAt(s, d) /\ t.party[d] = s.party[d]
      BY <1>2, <2>2 DEF Plugged, Others
    <3> QED BY <3>1 DEF PluggedAt
  <2> QED BY <2>1, <2>2
<1> QED BY <1>1, <1>2 DEF Leads

\* A handler of none.
LEMMA NoneLeads ==
  ASSUME NEW s \in ConfType, NEW t \in ConfType, t.party = s.party, t.faults = s.faults,
         t.list = s.list, s.mixer => t.mixer
  PROVE  Leads(s, t)
<1>1. ASSUME Plugged(s)  PROVE Plugged(t)
  BY <1>1 DEF Plugged, PluggedAt
<1>2. ASSUME Listed(s)  PROVE Listed(t)
  BY <1>2 DEF Listed, IsListed
<1> QED BY <1>1, <1>2 DEF Leads

LEMMA PauseLeads ==
  ASSUME NEW s \in ConfType, NEW c \in Party
  PROVE  Leads(s, PauseParty(s, c))
<1>1. PICK t : t = PauseParty(s, c)
  OBVIOUS
<1>2. /\ t \in ConfType /\ SameConf(s, t) /\ Others(s, t, c)
      /\ s.party[c].state \notin {"running", "held"} => t = s
      /\ s.party[c].state \in {"running", "held"} => Pauses(s.party[c], t.party[c])
  BY <1>1, PartyPaused
<1>3. CASE s.party[c].state \in {"running", "held"}
  <2>1. Pauses(s.party[c], t.party[c])
    BY <1>2, <1>3
  <2>2. ASSUME Plugged(s)  PROVE PluggedAt(t, c)
    <3>1. PluggedAt(s, c)
      BY <2>2 DEF Plugged
    <3> QED BY <1>2, <1>3, <2>1, <3>1 DEF PluggedAt, Pauses, SameConf, Asking, Rested
  <2> QED BY <1>1, <1>2, <1>3, <2>1, <2>2, OneLeads DEF SameConf
<1>4. CASE s.party[c].state \notin {"running", "held"}
  BY <1>1, <1>2, <1>4, LeadsSelf
<1> QED BY <1>3, <1>4

LEMMA UpdateLeads ==
  ASSUME NEW s \in ConfType, NEW c \in Party, NEW wish \in BOOLEAN, wish => s.mixer
  PROVE  Leads(s, UpdateParty(s, c, wish))
<1>1. PICK t : t = UpdateParty(s, c, wish)
  OBVIOUS
<1>2. /\ t \in ConfType /\ SameConf(s, t) /\ Others(s, t, c)
      /\ s.party[c].state # "running" => t = s
      /\ s.party[c].state = "running" => Updates(s.party[c], t.party[c], wish)
  BY <1>1, PartyUpdated
<1>3. CASE s.party[c].state = "running"
  <2>1. Updates(s.party[c], t.party[c], wish)
    BY <1>2, <1>3
  <2>2. ASSUME Plugged(s)  PROVE PluggedAt(t, c)
    <3>1. PluggedAt(s, c)
      BY <2>2 DEF Plugged
    <3> QED BY <1>2, <1>3, <2>1, <3>1 DEF PluggedAt, Updates, SameConf, Asking, Rested
  <2> QED BY <1>1, <1>2, <1>3, <2>1, <2>2, OneLeads DEF SameConf
<1>4. CASE s.party[c].state # "running"
  BY <1>1, <1>2, <1>4, LeadsSelf
<1> QED BY <1>3, <1>4

\* A member that is taken out: what becomes of its wish, and of what it is.
Drops(x, y) ==
  /\ ~y.want /\ y.state = x.state /\ y.prev = x.prev
  /\ y.cur = x.cur /\ y.media = x.media /\ y.dir = x.dir
PausesOut(x, y) ==
  /\ ~y.want /\ y.state = "pausing" /\ y.prev = x.state /\ y.media = "off"
  /\ y.cur = x.cur /\ y.dir = x.dir

\* A call whose wish changes.
Wishes(x, y, wish) ==
  /\ y.want = wish /\ y.state = x.state /\ y.prev = x.prev
  /\ y.cur = x.cur /\ y.media = x.media /\ y.dir = x.dir
WithWish(s, c, wish) == [s EXCEPT !.party[c].want = wish]

LEMMA WishSet ==
  ASSUME NEW s \in ConfType, NEW c \in Party, NEW wish \in BOOLEAN,
         NEW t, t = WithWish(s, c, wish)
  PROVE  /\ t \in ConfType /\ SameConf(s, t) /\ Others(s, t, c) /\ t.current = s.current
         /\ Wishes(s.party[c], t.party[c], wish)
<1>1. PICK x \in PartyType : x = s.party[c]
  BY DEF ConfType
<1>2. PICK y \in PartyType : y = [x EXCEPT !.want = wish]
  BY DEF PartyType
<1>3. t = [s EXCEPT !.party = [s.party EXCEPT ![c] = y]]
  BY <1>1, <1>2 DEF ConfType, PartyType, WithWish
<1>4. [s.party EXCEPT ![c] = y] \in [Party -> PartyType]
  BY <1>2 DEF ConfType
<1>5. Wishes(x, y, wish)
  BY <1>2 DEF Wishes, PartyType
<1> QED BY <1>1, <1>2, <1>3, <1>4, <1>5 DEF ConfType, SameConf, Others

LEMMA WishDropped ==
  ASSUME NEW s \in ConfType, NEW c \in Party, NEW t, t = [s EXCEPT !.party[c].want = FALSE]
  PROVE  /\ t \in ConfType /\ SameConf(s, t) /\ Others(s, t, c) /\ t.current = s.current
         /\ Drops(s.party[c], t.party[c])
<1>1. PICK no \in BOOLEAN : no = FALSE
  OBVIOUS
<1>2. t = WithWish(s, c, no)
  BY <1>1 DEF WithWish
<1>3. /\ t \in ConfType /\ SameConf(s, t) /\ Others(s, t, c) /\ t.current = s.current
      /\ Wishes(s.party[c], t.party[c], no)
  BY <1>2, WishSet
<1> QED BY <1>1, <1>3 DEF Drops, Wishes

\* What remove_from_conference() leaves alone, and what it makes of the member.
OutOf(s, t, c) ==
  /\ t \in ConfType /\ Others(s, t, c) /\ t.faults = s.faults /\ t.list = s.list
  /\ t.mixer = s.mixer /\ t.lost = s.lost /\ t.terminated = s.terminated

LEMMA MemberUpdated ==
  ASSUME NEW s \in ConfType, NEW c \in Party, s.party[c].cur, NEW t, t = RemoveMember(s, c, TRUE)
  PROVE  /\ OutOf(s, t, c) /\ ~t.local /\ t.current = s.current
         /\ s.party[c].state = "running" => Updates(s.party[c], t.party[c], FALSE)
         /\ s.party[c].state # "running" => Drops(s.party[c], t.party[c])
<1>1. PICK u : u = [s EXCEPT !.party[c].want = FALSE]
  OBVIOUS
<1>2. PICK v : v = LeaveConference(u)
  OBVIOUS
<1>3. PICK no \in BOOLEAN : no = FALSE
  OBVIOUS
<1>4. t = UpdateParty(v, c, no)
  BY <1>1, <1>2, <1>3 DEF RemoveMember
<1>5. /\ u \in ConfType /\ SameConf(s, u) /\ Others(s, u, c) /\ u.current = s.current
      /\ Drops(s.party[c], u.party[c])
  BY <1>1, WishDropped
<1>6. /\ v \in ConfType /\ v.party = u.party /\ v.current = u.current /\ v.faults = u.faults
      /\ v.list = u.list /\ v.mixer = u.mixer /\ ~v.local /\ v.terminated = u.terminated
      /\ v.lost = u.lost
  BY <1>2, <1>5, LocalLeft
<1>7. /\ t \in ConfType /\ SameConf(v, t) /\ Others(v, t, c) /\ t.current = v.current
      /\ v.party[c].state # "running" => t = v
      /\ v.party[c].state = "running" => Updates(v.party[c], t.party[c], no)
  BY <1>4, <1>6, PartyUpdated
<1>8. OutOf(s, t, c) /\ ~t.local /\ t.current = s.current
  BY ZenonT(60), <1>5, <1>6, <1>7 DEF OutOf, SameConf, Others
<1>9. s.party[c].state = "running" => Updates(s.party[c], t.party[c], FALSE)
  BY <1>3, <1>5, <1>6, <1>7 DEF Drops, Updates
<1>10. s.party[c].state # "running" => Drops(s.party[c], t.party[c])
  BY <1>5, <1>6, <1>7 DEF Drops
<1> QED BY <1>8, <1>9, <1>10

LEMMA MemberPaused ==
  ASSUME NEW s \in ConfType, NEW c \in Party, s.party[c].cur, NEW t, t = RemoveMember(s, c, FALSE)
  PROVE  /\ OutOf(s, t, c) /\ t.local = s.local
         /\ s.party[c].state \in {"running", "held"} =>
              t.current = NoParty /\ PausesOut(s.party[c], t.party[c])
         /\ s.party[c].state \notin {"running", "held"} =>
              t.current = s.current /\ Drops(s.party[c], t.party[c])
<1>1. PICK u : u = [s EXCEPT !.party[c].want = FALSE]
  OBVIOUS
<1>2. t = PauseParty(u, c)
  BY <1>1 DEF RemoveMember
<1>3. /\ u \in ConfType /\ SameConf(s, u) /\ Others(s, u, c) /\ u.current = s.current
      /\ Drops(s.party[c], u.party[c])
  BY <1>1, WishDropped
<1>4. /\ t \in ConfType /\ SameConf(u, t) /\ Others(u, t, c)
      /\ u.party[c].state \notin {"running", "held"} => t = u
      /\ u.party[c].state \in {"running", "held"} =>
           t.current = NoParty /\ Pauses(u.party[c], t.party[c])
  BY <1>2, <1>3, PartyPaused
<1>5. OutOf(s, t, c) /\ t.local = s.local
  BY <1>3, <1>4 DEF OutOf, SameConf, Others
<1>6. s.party[c].state \in {"running", "held"} =>
        t.current = NoParty /\ PausesOut(s.party[c], t.party[c])
  BY <1>3, <1>4 DEF Drops, Pauses, PausesOut
<1>7. s.party[c].state \notin {"running", "held"} =>
        t.current = s.current /\ Drops(s.party[c], t.party[c])
  BY <1>3, <1>4 DEF Drops
<1> QED BY <1>5, <1>6, <1>7

\* In all cases.
LEMMA MemberOut ==
  ASSUME NEW s \in ConfType, NEW c \in Party, NEW active \in BOOLEAN,
         NEW t, t = RemoveMember(s, c, active)
  PROVE  /\ OutOf(s, t, c) /\ Leads(s, t)
         /\ s.party[c].cur => ~t.party[c].want
         /\ ~s.party[c].cur => t = s
         /\ t.party[c].state \in {s.party[c].state, "updating", "pausing"}
<1>1. CASE ~s.party[c].cur
  <2>1. t = s
    BY <1>1 DEF RemoveMember
  <2> QED BY <1>1, <2>1, LeadsSelf DEF OutOf, Others
<1>2. CASE s.party[c].cur
  <2>1. OutOf(s, t, c) /\ (\/ Updates(s.party[c], t.party[c], FALSE) /\ s.party[c].state = "running"
                           \/ PausesOut(s.party[c], t.party[c]) /\ s.party[c].state \in {"running", "held"}
                           \/ Drops(s.party[c], t.party[c]))
    <3>1. CASE active
      <4>1. t = RemoveMember(s, c, TRUE)
        BY <3>1
      <4> QED BY <1>2, <4>1, MemberUpdated
    <3>2. CASE ~active
      <4>1. t = RemoveMember(s, c, FALSE)
        BY <3>2
      <4> QED BY <1>2, <4>1, MemberPaused
    <3> QED BY <3>1, <3>2
  <2>2. ~t.party[c].want
    BY <2>1 DEF Updates, PausesOut, Drops
  <2>3. ASSUME Plugged(s)  PROVE PluggedAt(t, c)
    <3>1. PluggedAt(s, c)
      BY <2>3 DEF Plugged
    <3>2. CASE Updates(s.party[c], t.party[c], FALSE) /\ s.party[c].state = "running"
      BY <2>1, <3>1, <3>2 DEF PluggedAt, Updates, OutOf, Asking, Rested
    <3>3. CASE PausesOut(s.party[c], t.party[c]) /\ s.party[c].state \in {"running", "held"}
      BY <2>1, <3>1, <3>3 DEF PluggedAt, PausesOut, OutOf, Asking, Rested
    <3>4. CASE Drops(s.party[c], t.party[c])
      BY <2>1, <3>1, <3>4 DEF PluggedAt, Drops, OutOf, Asking, Rested
    <3> QED BY <2>1, <3>2, <3>3, <3>4
  <2>4. t.party[c].state \notin {"none", "ended"} => s.party[c].state \notin {"none", "ended"}
    BY <2>1 DEF Updates, PausesOut, Drops
  <2>5. Leads(s, t)
    BY <2>1, <2>3, <2>4, OneLeads DEF OutOf
  <2>6. t.party[c].state \in {s.party[c].state, "updating", "pausing"}
    BY <2>1 DEF Updates, PausesOut, Drops
  <2> QED BY <1>2, <2>1, <2>2, <2>5, <2>6
<1> QED BY <1>1, <1>2

\* The conversion of the conference to a call is that of one call that wants to be in it.
LEMMA Converted ==
  ASSUME NEW s \in ConfType, NEW t, t = Convert(s)
  PROVE  \/ t = s
         \/ RemoteCount(s) = 1
            /\ \E c \in Party : s.party[c].want /\ t = RemoveMember(s, c, s.local)
<1>1. PICK i : i = FirstWanting(s)
  OBVIOUS
<1>2. t = IF RemoteCount(s) # 1 \/ i = 0 THEN s ELSE RemoveMember(s, s.list[i], s.local)
  BY <1>1 DEF Convert, FirstWanting
<1>3. CASE RemoteCount(s) # 1 \/ i = 0
  BY <1>2, <1>3
<1>4. CASE ~(RemoteCount(s) # 1 \/ i = 0)
  <2>1. i \in 1..Len(s.list) /\ s.list[i] \in Party /\ s.party[s.list[i]].want
    BY <1>1, <1>4, WantingIs
  <2> QED BY <1>2, <1>4, <2>1
<1> QED BY <1>3, <1>4

\* No call is begun.
NoNew(s, t) ==
  \A c \in Party : t.party[c].state \in {s.party[c].state, "updating", "pausing"}

AllSeated(s) == \A c \in Party : s.party[c].want => s.party[c].media = "mixed"

LEMMA ConvertLeads ==
  ASSUME NEW s \in ConfType, NEW t, t = Convert(s)
  PROVE  /\ Leads(s, t) /\ t.list = s.list /\ t.mixer = s.mixer /\ t.terminated = s.terminated
         /\ t.lost = s.lost /\ NoNew(s, t)
         /\ AllSeated(s) => AllSeated(t)
<1>1. CASE t = s
  BY <1>1, LeadsSelf DEF NoNew
<1>2. ASSUME NEW c \in Party, s.party[c].want, t = RemoveMember(s, c, s.local)
      PROVE  /\ Leads(s, t) /\ t.list = s.list /\ t.mixer = s.mixer /\ t.terminated = s.terminated
             /\ t.lost = s.lost /\ NoNew(s, t)
             /\ AllSeated(s) => AllSeated(t)
  <2>1. s.local \in BOOLEAN
    BY DEF ConfType
  <2>2. /\ OutOf(s, t, c) /\ Leads(s, t)
        /\ s.party[c].cur => ~t.party[c].want
        /\ ~s.party[c].cur => t = s
        /\ t.party[c].state \in {s.party[c].state, "updating", "pausing"}
    BY <1>2, <2>1, MemberOut
  <2>3. ASSUME AllSeated(s)  PROVE AllSeated(t)
    <3>1. CASE t = s
      BY <2>3, <3>1
    <3>2. CASE ~t.party[c].want
      BY <2>2, <2>3, <3>2 DEF AllSeated, OutOf, Others
    <3> QED BY <2>2, <3>1, <3>2
  <2>4. NoNew(s, t)
    BY <2>2 DEF NoNew, OutOf, Others
  <2> QED BY <2>2, <2>3, <2>4 DEF OutOf
<1> QED BY <1>1, <1>2, Converted

-----------------------------------------------------------------------------
(* The size of the conference                                              *)

\* The calls of the list are finitely many.
LEMMA MixedFinite ==
  ASSUME NEW s \in ConfType, Listed(s), \A c \in Mixed(s) : s.party[c].state \notin {"none", "ended"}
  PROVE  IsFiniteSet(Mixed(s)) /\ Cardinality(Mixed(s)) \in Nat
         /\ (Cardinality(Mixed(s)) = 0 <=> Mixed(s) = {})
<1> DEFINE n == Len(s.list)
           R == {s.list[i] : i \in 1..n}
<1>1. n \in Nat /\ DOMAIN s.list = 1..n
  BY DEF ConfType
<1>2. IsFiniteSet(1..n)
  BY <1>1, FS_Interval
<1>3. IsFiniteSet(R)
  <2> DEFINE f == [i \in 1..n |-> s.list[i]]
  <2>1. f \in Surjection(1..n, R)
    BY DEF Surjection
  <2> QED BY <1>2, <2>1, FS_Surjection
<1>4. Mixed(s) \subseteq R
  BY <1>1 DEF Mixed, Listed, IsListed
<1> QED BY <1>3, <1>4, FS_Subset, FS_CardinalityType, FS_EmptySet

\* The steps of linphone_core_conference_check_uninit().
UninitSteps(s, t, v, u) ==
  /\ v \in ConfType /\ u \in ConfType
  /\ v = s \/ (v = Convert(s) /\ RemoteCount(s) = 1 /\ ~s.terminated)
  /\ u = IF RemoteCount(s) = 0 THEN LeaveConference(v) ELSE v
  /\ t = [u EXCEPT !.mixer = (ConfSize(u) # 0)]

LEMMA UninitIs ==
  ASSUME NEW s \in ConfType, NEW t, t = CheckUninit(s)
  PROVE  \/ ~s.mixer /\ t = s
         \/ s.mixer /\ \E v, u : UninitSteps(s, t, v, u)
<1>1. CASE ~s.mixer
  BY <1>1 DEF CheckUninit
<1>2. CASE s.mixer
  <2>1. PICK v : v = IF RemoteCount(s) = 1 /\ ~s.terminated THEN Convert(s) ELSE s
    OBVIOUS
  <2>2. PICK u : u = IF RemoteCount(s) = 0 THEN LeaveConference(v) ELSE v
    OBVIOUS
  <2>3. t = [u EXCEPT !.mixer = (ConfSize(u) # 0)]
    BY <1>2, <2>1, <2>2 DEF CheckUninit
  <2>4. v \in ConfType
    BY <2>1, ConvertLeads DEF Leads
  <2>5. u \in ConfType
    BY <2>2, <2>4, LocalLeft
  <2> QED BY <1>2, <2>1, <2>2, <2>3, <2>4, <2>5 DEF UninitSteps
<1> QED BY <1>1, <1>2

\* Nothing is plugged into a conference without a size.
LEMMA SizeIs ==
  ASSUME NEW s \in ConfType, Listed(s), Plugged(s), s.mixer
  PROVE  /\ ConfSize(s) = 0 => Mixed(s) = {} /\ ~s.local /\ s.lost = 0
         /\ Mixed(s) = {} /\ s.lost = 0 => ConfSize(s) = IF s.local THEN 1 ELSE 0
<1>1. \A c \in Mixed(s) : s.party[c].state \notin {"none", "ended"}
  BY DEF Mixed, Plugged, PluggedAt, Asking, Rested
<1>2. PICK n \in Nat : n = Cardinality(Mixed(s)) /\ (n = 0 <=> Mixed(s) = {})
  BY <1>1, MixedFinite
<1>3. ConfSize(s) = n + s.lost + (IF s.local THEN 1 ELSE 0) /\ s.lost \in Nat
  BY <1>2 DEF ConfSize, ConfType
<1> QED BY <1>2, <1>3

LEMMA UninitLeads ==
  ASSUME NEW s \in ConfType, Listed(s), NEW t, t = CheckUninit(s)
  PROVE  /\ t \in ConfType /\ t.faults = s.faults /\ Listed(t) /\ NoNew(s, t)
         /\ Plugged(s) /\ AllSeated(s) => Plugged(t) /\ AllSeated(t)
<1>1. CASE t = s
  BY <1>1 DEF NoNew
<1>2. ASSUME s.mixer, NEW v, NEW u, UninitSteps(s, t, v, u)
      PROVE  /\ t \in ConfType /\ t.faults = s.faults /\ Listed(t) /\ NoNew(s, t)
             /\ Plugged(s) /\ AllSeated(s) => Plugged(t) /\ AllSeated(t)
  <2>1. /\ Leads(s, v) /\ v.mixer = s.mixer /\ NoNew(s, v)
        /\ AllSeated(s) => AllSeated(v)
    <3>1. CASE v = s
      BY <3>1, LeadsSelf DEF NoNew
    <3>2. CASE v = Convert(s)
      BY <3>2, ConvertLeads
    <3> QED BY <1>2, <3>1, <3>2 DEF UninitSteps
  <2>2. /\ u \in ConfType /\ u.party = v.party /\ u.list = v.list /\ u.mixer = v.mixer
        /\ u.faults = v.faults /\ Leads(v, u)
    <3>1. CASE u = v
      BY <1>2, <3>1, LeadsSelf DEF UninitSteps
    <3>2. CASE u = LeaveConference(v)
      <4>1. v \in ConfType
        BY <1>2 DEF UninitSteps
      <4>2. /\ u \in ConfType /\ u.party = v.party /\ u.list = v.list /\ u.mixer = v.mixer
            /\ u.faults = v.faults
        BY <3>2, <4>1, LocalLeft
      <4> QED BY <4>1, <4>2, NoneLeads
    <3> QED BY <1>2, <3>1, <3>2 DEF UninitSteps
  <2>3. PICK b \in BOOLEAN : b = (ConfSize(u) # 0)
    OBVIOUS
  <2>4. t = [u EXCEPT !.mixer = b]
    BY <1>2, <2>3 DEF UninitSteps
  <2>5. t \in ConfType /\ t.party = u.party /\ t.list = u.list /\ t.faults = u.faults /\ t.mixer = b
    BY <2>2, <2>4 DEF ConfType
  <2>6. Leads(s, u)
    BY <2>1, <2>2, LeadsOn
  <2>7. Listed(t) /\ t.faults = s.faults
    BY <2>5, <2>6 DEF Leads, Listed, IsListed
  <2>8. NoNew(s, t)
    BY <2>1, <2>2, <2>5 DEF NoNew
  <2>9. ASSUME Plugged(s), AllSeated(s)  PROVE Plugged(t) /\ AllSeated(t)
    <3>1. Plugged(u) /\ Listed(u) /\ u.mixer
      BY <1>2, <2>1, <2>2, <2>6, <2>9 DEF Leads
    <3>2. AllSeated(u) /\ AllSeated(t)
      BY <2>1, <2>2, <2>5, <2>9 DEF AllSeated
    <3>3. CASE b
      BY <2>5, <3>1, <3>2, <3>3 DEF Plugged, PluggedAt
    <3>4. CASE ~b
      <4>1. Mixed(u) = {}
        BY <2>2, <2>3, <3>1, <3>4, SizeIs
      <4>2. \A c \in Party : u.party[c].media # "mixed" /\ ~u.party[c].want
        BY <3>2, <4>1 DEF Mixed, AllSeated
      <4> QED BY <2>5, <3>1, <3>2, <4>2 DEF Plugged, PluggedAt
    <3> QED BY <3>3, <3>4
  <2> QED BY <2>5, <2>7, <2>8, <2>9
<1> QED BY <1>1, <1>2, UninitIs

-----------------------------------------------------------------------------
(* The end of a call                                                       *)

EndedParty == [NewParty EXCEPT !.state = "ended"]

\* Before the mixer is looked at.
Gone(s, c) ==
  [s EXCEPT !.party[c] = EndedParty, !.list = RemoveFirst(@, c),
            !.current = IF @ = c THEN NoParty ELSE @]

LEMMA EndedIs ==
  /\ EndedParty \in PartyType /\ EndedParty.state = "ended" /\ ~EndedParty.want /\ ~EndedParty.cur
  /\ EndedParty.media = "off" /\ EndedParty.dir = "sendrecv"
BY DEF EndedParty, NewParty, PartyType, PartyState, Media, Direction

LEMMA GoneIs ==
  ASSUME NEW s \in ConfType, NEW c \in Party, NEW t, t = Gone(s, c)
  PROVE  /\ t \in ConfType /\ Others(s, t, c) /\ t.party[c] = EndedParty
         /\ t.faults = s.faults /\ t.mixer = s.mixer /\ t.local = s.local /\ t.lost = s.lost
         /\ t.terminated = s.terminated
         /\ t.current = IF s.current = c THEN NoParty ELSE s.current
         /\ Listed(s) => Listed(t)
         /\ Plugged(s) => Plugged(t)
         /\ Seated(s, c) => AllSeated(t)
<1>1. PICK l : l = RemoveFirst(s.list, c)
  OBVIOUS
<1>2. l \in Seq(Party) /\ \A i \in DOMAIN s.list : s.list[i] # c => \E j \in DOMAIN l : l[j] = s.list[i]
  BY <1>1, RemovedIs DEF ConfType
<1>3. PICK k \in Party \cup {NoParty} : k = IF s.current = c THEN NoParty ELSE s.current
  BY DEF ConfType
<1>4. PICK x \in PartyType : x = EndedParty
  BY EndedIs
<1>10. PICK p \in [Party -> PartyType] : p = [s.party EXCEPT ![c] = x]
  BY DEF ConfType
<1>5. t = [s EXCEPT !.party = p, !.list = l, !.current = k]
  BY <1>1, <1>3, <1>4, <1>10 DEF Gone
<1>6. /\ t \in ConfType /\ Others(s, t, c) /\ t.party[c] = x /\ t.list = l /\ t.current = k
      /\ t.faults = s.faults /\ t.mixer = s.mixer /\ t.local = s.local /\ t.lost = s.lost
      /\ t.terminated = s.terminated
  <2>1. /\ t.party = p /\ t.list = l /\ t.current = k
        /\ t.faults = s.faults /\ t.mixer = s.mixer /\ t.local = s.local /\ t.lost = s.lost
        /\ t.terminated = s.terminated
    BY <1>5 DEF ConfType
  <2>2. t \in ConfType
    BY <1>2, <1>3, <1>5, <1>10 DEF ConfType
  <2>3. p[c] = x /\ \A d \in Party \ {c} : p[d] = s.party[d]
    BY <1>10 DEF ConfType
  <2> QED BY <2>1, <2>2, <2>3 DEF Others
<1>7. ASSUME Listed(s)  PROVE Listed(t)
  <2> SUFFICES ASSUME NEW d \in Party, t.party[d].state \notin {"none", "ended"}
               PROVE  IsListed(t, d)
    BY DEF Listed
  <2>1. d # c /\ s.party[d].state \notin {"none", "ended"}
    BY <1>4, <1>6, EndedIs DEF Others
  <2>2. PICK i \in DOMAIN s.list : s.list[i] = d
    BY <1>7, <2>1 DEF Listed, IsListed
  <2> QED BY <1>2, <1>6, <2>1, <2>2 DEF IsListed
<1>8. ASSUME Plugged(s)  PROVE Plugged(t)
  <2> SUFFICES ASSUME NEW d \in Party  PROVE PluggedAt(t, d)
    BY DEF Plugged
  <2>1. CASE d = c
    BY <1>4, <1>6, <2>1, EndedIs DEF PluggedAt, Asking
  <2>2. CASE d # c
    <3>1. PluggedAt(s, d) /\ t.party[d] = s.party[d]
      BY <1>6, <1>8, <2>2 DEF Plugged, Others
    <3> QED BY <1>6, <3>1 DEF PluggedAt
  <2> QED BY <2>1, <2>2
<1>9. ASSUME Seated(s, c)  PROVE AllSeated(t)
  BY <1>4, <1>6, <1>9, EndedIs DEF Seated, AllSeated, Others
<1> QED BY <1>3, <1>4, <1>6, <1>7, <1>8, <1>9

LEMMA EndIs ==
  ASSUME NEW s, NEW c
  PROVE  EndParty(s, c) = CheckUninit(Gone(s, c))
BY DEF EndParty, Gone, EndedParty

LEMMA EndLeads ==
  ASSUME NEW s \in ConfType, Listed(s), NEW c \in Party, NEW t, t = EndParty(s, c)
  PROVE  /\ t \in ConfType /\ t.faults = s.faults /\ Listed(t)
         /\ \A d \in Party : t.party[d].state \in {s.party[d].state, "ended", "updating", "pausing"}
         /\ \A d \in Party \ {c} : t.party[d].state \in {s.party[d].state, "updating", "pausing"}
         /\ Plugged(s) /\ Seated(s, c) => Plugged(t) /\ AllSeated(t)
<1>1. PICK u : u = Gone(s, c)
  OBVIOUS
<1>2. /\ u \in ConfType /\ Others(s, u, c) /\ u.party[c] = EndedParty /\ u.faults = s.faults
      /\ Listed(u)
      /\ Plugged(s) => Plugged(u)
      /\ Seated(s, c) => AllSeated(u)
  BY <1>1, GoneIs
<1>3. t = CheckUninit(u)
  BY <1>1, EndIs
<1>4. /\ t \in ConfType /\ t.faults = u.faults /\ Listed(t) /\ NoNew(u, t)
      /\ Plugged(u) /\ AllSeated(u) => Plugged(t) /\ AllSeated(t)
  BY <1>2, <1>3, UninitLeads
<1>5. \A d \in Party : t.party[d].state \in {s.party[d].state, "ended", "updating", "pausing"}
  BY <1>2, <1>4, EndedIs DEF NoNew, Others
<1>6. \A d \in Party \ {c} : t.party[d].state \in {s.party[d].state, "updating", "pausing"}
  BY <1>2, <1>4 DEF NoNew, Others
<1> QED BY <1>2, <1>4, <1>5, <1>6

-----------------------------------------------------------------------------
(* The handlers keep the list in order and the mixer where it is needed    *)

LEMMA CurrentSet ==
  ASSUME NEW s \in ConfType, NEW k \in Party \cup {NoParty}, NEW t, t = [s EXCEPT !.current = k]
  PROVE  t \in ConfType /\ SameConf(s, t) /\ t.party = s.party /\ t.current = k /\ Leads(s, t)
<1>1. t \in ConfType /\ SameConf(s, t) /\ t.party = s.party /\ t.current = k
  BY DEF ConfType, SameConf
<1> QED BY <1>1, NoneLeads DEF SameConf

LEMMA LeaveLeads ==
  ASSUME NEW s \in ConfType
  PROVE  Leads(s, LeaveConference(s))
<1>1. PICK t : t = LeaveConference(s)
  OBVIOUS
<1>2. t \in ConfType /\ t.party = s.party /\ t.faults = s.faults /\ t.list = s.list /\ t.mixer = s.mixer
  BY <1>1, LocalLeft
<1> QED BY <1>1, <1>2, NoneLeads

LEMMA AddLocalLeads ==
  ASSUME NEW s \in ConfType
  PROVE  Leads(s, AddLocal(s))
<1>1. PICK t : t = AddLocal(s)
  OBVIOUS
<1>2. t \in ConfType /\ t.party = s.party /\ t.faults = s.faults /\ t.list = s.list /\ t.mixer = s.mixer
  BY <1>1, LocalAdded
<1> QED BY <1>1, <1>2, NoneLeads

\* linphone_core_preempt_sound_resources() leaves the conference, or pauses the current
\* call, or has nothing to do.
LEMMA PreemptedIs ==
  ASSUME NEW s \in ConfType, NEW t, t = PreemptSound(s)
  PROVE  \/ s.local /\ t = LeaveConference(s)
         \/ ~s.local /\ s.current \in Party /\ t = PauseParty(s, s.current)
         \/ ~s.local /\ s.current = NoParty /\ t = s
<1>1. CASE s.local
  BY <1>1 DEF PreemptSound
<1>2. CASE ~s.local /\ s.current # NoParty
  BY <1>2 DEF PreemptSound, ConfType
<1>3. CASE ~s.local /\ s.current = NoParty
  BY <1>3 DEF PreemptSound
<1> QED BY <1>1, <1>2, <1>3

LEMMA PreemptLeads ==
  ASSUME NEW s \in ConfType
  PROVE  Leads(s, PreemptSound(s))
<1>1. PICK t : t = PreemptSound(s)
  OBVIOUS
<1>2. CASE t = LeaveConference(s)
  BY <1>1, <1>2, LeaveLeads
<1>3. CASE s.current \in Party /\ t = PauseParty(s, s.current)
  BY <1>1, <1>3, PauseLeads
<1>4. CASE t = s
  BY <1>1, <1>4, LeadsSelf
<1> QED BY <1>1, <1>2, <1>3, <1>4, PreemptedIs

LEMMA AudioLeads ==
  ASSUME NEW s \in ConfType, NEW c \in Party, NEW dir \in Direction
  PROVE  Leads(s, RestartAudio(s, c, dir))
<1>1. PICK t : t = RestartAudio(s, c, dir)
  OBVIOUS
<1>2. /\ t \in ConfType /\ SameConf(s, t) /\ Others(s, t, c)
      /\ t = s \/ Starts(s.party[c], t.party[c], NewMedia(s, c, dir), dir)
  BY <1>1, AudioRestarted
<1>3. CASE t = s
  BY <1>1, <1>3, LeadsSelf
<1>4. CASE Starts(s.party[c], t.party[c], NewMedia(s, c, dir), dir)
  <2>1. ASSUME Plugged(s)  PROVE PluggedAt(t, c)
    <3>1. PluggedAt(s, c)
      BY <2>1 DEF Plugged
    <3>2. NewMedia(s, c, dir) = "mixed" <=> s.party[c].want
      <4>1. /\ s.party[c].want => NewMedia(s, c, dir) = "mixed"
            /\ ~s.party[c].want => NewMedia(s, c, dir) \in {"sound", "dry"}
        BY NewMediaIs
      <4> QED BY <4>1
    <3>3. t.mixer = s.mixer
      BY <1>2 DEF SameConf
    <3> QED BY <1>4, <3>1, <3>2, <3>3 DEF PluggedAt, Starts
  <2>2. t.party[c].state = s.party[c].state
    BY <1>4 DEF Starts
  <2> QED BY <1>1, <1>2, <2>1, <2>2, OneLeads DEF SameConf
<1> QED BY <1>2, <1>3, <1>4

\* An answered call rests in a state.
LEMMA RestLeads ==
  ASSUME NEW s \in ConfType, NEW c \in Party, NEW new \in Rested,
         s.party[c].state \notin {"none", "ended"}
  PROVE  Leads(s, Enters(s, c, new))
<1>1. PICK t : t = Enters(s, c, new)
  OBVIOUS
<1>2. new \in PartyState /\ new \notin Asking
  BY DEF Rested, PartyState, Asking
<1>3. /\ t \in ConfType /\ SameConf(s, t) /\ Others(s, t, c)
      /\ Moves(s.party[c], t.party[c], new)
  BY <1>1, <1>2, EntersIs
<1>4. ASSUME Plugged(s)  PROVE PluggedAt(t, c)
  <2>1. PluggedAt(s, c) /\ t.mixer = s.mixer
    BY <1>3, <1>4 DEF Plugged, SameConf
  <2> QED BY <1>2, <1>3, <2>1 DEF PluggedAt, Moves
<1> QED BY <1>1, <1>3, <1>4, OneLeads DEF SameConf

\* linphone_core_resume_call(): the call resumes, after the sound card was taken from
\* its user unless the call goes into the conference.
LEMMA ResumedIs ==
  ASSUME NEW s \in ConfType, NEW c \in Party, NEW t, t = ResumeParty(s, c)
  PROVE  \/ t = s /\ (s.party[c].state # "paused" \/ (~s.party[c].want /\ SoundLocked(s)))
         \/ s.party[c].state = "paused" /\ s.party[c].want /\ t = Enters(s, c, "resuming")
         \/ /\ s.party[c].state = "paused" /\ ~s.party[c].want /\ ~SoundLocked(s)
            /\ t = [Enters(PreemptSound(s), c, "resuming") EXCEPT !.current = c]
<1>1. CASE s.party[c].state # "paused" \/ (~s.party[c].want /\ SoundLocked(s))
  BY <1>1 DEF ResumeParty
<1>2. CASE s.party[c].state = "paused" /\ s.party[c].want
  BY <1>2 DEF ResumeParty
<1>3. CASE s.party[c].state = "paused" /\ ~s.party[c].want /\ ~SoundLocked(s)
  BY <1>3 DEF ResumeParty
<1> QED BY <1>1, <1>2, <1>3

LEMMA ResumingLeads ==
  ASSUME NEW s \in ConfType, NEW c \in Party, s.party[c].state = "paused"
  PROVE  Leads(s, Enters(s, c, "resuming"))
<1>1. PICK new \in PartyState : new = "resuming"
  BY DEF PartyState
<1>2. PICK t : t = Enters(s, c, new)
  OBVIOUS
<1>3. /\ t \in ConfType /\ SameConf(s, t) /\ Others(s, t, c)
      /\ Moves(s.party[c], t.party[c], new)
  BY <1>2, EntersIs
<1>4. ASSUME Plugged(s)  PROVE PluggedAt(t, c)
  <2>1. PluggedAt(s, c) /\ t.mixer = s.mixer
    BY <1>3, <1>4 DEF Plugged, SameConf
  <2> QED BY <1>1, <1>3, <2>1 DEF PluggedAt, Moves, Asking, Rested
<1>5. Leads(s, t)
  BY <1>3, <1>4, OneLeads DEF SameConf
<1> QED BY <1>1, <1>2, <1>5

\* Preempting the sound card pauses nothing that is paused.
LEMMA PreemptKeeps ==
  ASSUME NEW s \in ConfType, NEW c \in Party, s.party[c].state \notin {"running", "held"}
  PROVE  PreemptSound(s) \in ConfType /\ PreemptSound(s).party[c] = s.party[c]
<1>1. PICK t : t = PreemptSound(s)
  OBVIOUS
<1>2. CASE t = LeaveConference(s)
  BY <1>1, <1>2, LocalLeft
<1>3. CASE s.current \in Party /\ t = PauseParty(s, s.current)
  <2>1. /\ t \in ConfType /\ Others(s, t, s.current)
        /\ s.party[s.current].state \notin {"running", "held"} => t = s
    BY <1>3, PartyPaused
  <2> QED BY <1>1, <2>1 DEF Others
<1>4. CASE t = s
  BY <1>1, <1>4
<1> QED BY <1>1, <1>2, <1>3, <1>4, PreemptedIs

LEMMA ResumeLeads ==
  ASSUME NEW s \in ConfType, NEW c \in Party
  PROVE  Leads(s, ResumeParty(s, c))
<1>1. PICK t : t = ResumeParty(s, c)
  OBVIOUS
<1>2. CASE t = s
  BY <1>1, <1>2, LeadsSelf
<1>3. CASE s.party[c].state = "paused" /\ t = Enters(s, c, "resuming")
  BY <1>1, <1>3, ResumingLeads
<1>4. CASE s.party[c].state = "paused"
           /\ t = [Enters(PreemptSound(s), c, "resuming") EXCEPT !.current = c]
  <2>1. PICK u : u = PreemptSound(s)
    OBVIOUS
  <2>2. u \in ConfType /\ u.party[c] = s.party[c] /\ Leads(s, u)
    BY <1>4, <2>1, PreemptKeeps, PreemptLeads
  <2>3. PICK v : v = Enters(u, c, "resuming")
    OBVIOUS
  <2>4. Leads(u, v)
    BY <1>4, <2>2, <2>3, ResumingLeads
  <2>5. v \in ConfType /\ t = [v EXCEPT !.current = c]
    BY <1>4, <2>1, <2>3, <2>4 DEF Leads
  <2>6. Leads(v, t)
    BY <2>5, CurrentSet
  <2>7. Leads(u, t)
    BY <2>4, <2>6, LeadsOn
  <2> QED BY <1>1, <2>2, <2>7, LeadsOn
<1> QED BY <1>1, <1>2, <1>3, <1>4, ResumedIs

\* linphone_core_add_to_conference()
LEMMA AddedIs ==
  ASSUME NEW s \in ConfType, NEW c \in Party, NEW t, t = AddParty(s, c),
         NEW u, u = ConfInitialized(s)
  PROVE  \/ s.party[c].cur /\ t = s
         \/ /\ ~s.party[c].cur /\ s.party[c].state = "paused"
            /\ t = ResumeParty(WithWish(u, c, TRUE), c)
         \/ /\ ~s.party[c].cur /\ s.party[c].state = "running"
            /\ t = AddLocal(UpdateParty([Silenced(u, c) EXCEPT
                              !.current = IF u.current = c THEN NoParty ELSE u.current], c, TRUE))
         \/ ~s.party[c].cur /\ s.party[c].state \notin {"paused", "running"} /\ t = u
<1>1. CASE s.party[c].cur
  BY <1>1 DEF AddParty
<1>2. CASE ~s.party[c].cur /\ s.party[c].state = "paused"
  BY <1>2 DEF AddParty, WithWish
<1>3. CASE ~s.party[c].cur /\ s.party[c].state = "running"
  <2>1. u \in ConfType /\ u.current = s.current
    BY MixerMade
  <2>2. Silenced(u, c).current = u.current
    BY ZenonT(60), <2>1, SilencedIs
  <2> QED BY <1>3, <2>2 DEF AddParty
<1>4. CASE ~s.party[c].cur /\ s.party[c].state \notin {"paused", "running"}
  BY <1>4 DEF AddParty
<1> QED BY <1>1, <1>2, <1>3, <1>4

LEMMA AddLeads ==
  ASSUME NEW s \in ConfType, NEW c \in Party
  PROVE  Leads(s, AddParty(s, c))
<1>1. PICK t : t = AddParty(s, c)
  OBVIOUS
<1>2. PICK u : u = ConfInitialized(s)
  OBVIOUS
<1>3. u \in ConfType /\ u.party = s.party /\ u.mixer /\ u.current = s.current /\ Leads(s, u)
  BY <1>2, MixerMade, NoneLeads
<1>4. CASE t = s
  BY <1>1, <1>4, LeadsSelf
<1>5. CASE s.party[c].state = "paused" /\ t = ResumeParty(WithWish(u, c, TRUE), c)
  <2>1. PICK yes \in BOOLEAN : yes = TRUE
    OBVIOUS
  <2>2. PICK v : v = WithWish(u, c, yes)
    OBVIOUS
  <2>3. v \in ConfType /\ SameConf(u, v) /\ Others(u, v, c) /\ Wishes(u.party[c], v.party[c], yes)
    BY <1>3, <2>2, WishSet
  <2>4. ASSUME Plugged(u)  PROVE PluggedAt(v, c)
    <3>1. PluggedAt(u, c) /\ v.mixer /\ u.party[c].state = "paused"
      BY <1>3, <1>5, <2>3, <2>4 DEF Plugged, SameConf
    <3> QED BY <2>3, <3>1 DEF PluggedAt, Wishes, Rested, Asking
  <2>5. v.party[c].state = u.party[c].state
    BY <2>3 DEF Wishes
  <2>6. Leads(u, v)
    BY <1>3, <2>3, <2>4, <2>5, OneLeads DEF SameConf
  <2>7. Leads(v, t)
    BY <1>5, <2>1, <2>2, <2>3, ResumeLeads
  <2>8. Leads(u, t)
    BY <2>6, <2>7, LeadsOn
  <2> QED BY <1>1, <1>3, <2>8, LeadsOn
<1>6. CASE t = AddLocal(UpdateParty([Silenced(u, c) EXCEPT
                  !.current = IF u.current = c THEN NoParty ELSE u.current], c, TRUE))
  <2>1. PICK v : v = Silenced(u, c)
    OBVIOUS
  <2>2. /\ v \in ConfType /\ SameConf(u, v) /\ Others(u, v, c) /\ v.current = u.current
        /\ v.party[c] = [u.party[c] EXCEPT !.media = "off"]
    BY <1>3, <2>1, SilencedIs
  <2>3. /\ v.party[c].state = u.party[c].state /\ v.party[c].prev = u.party[c].prev
        /\ v.party[c].want = u.party[c].want /\ v.party[c].media = "off"
    <3>1. PICK x \in PartyType : x = u.party[c]
      BY <1>3 DEF ConfType
    <3> QED BY <2>2, <3>1 DEF PartyType
  <2>4. ASSUME Plugged(u)  PROVE PluggedAt(v, c)
    <3>1. PluggedAt(u, c)
      BY <2>4 DEF Plugged
    <3> QED BY <2>2, <2>3, <3>1 DEF PluggedAt, SameConf
  <2>5. Leads(u, v)
    BY <1>3, <2>2, <2>3, <2>4, OneLeads DEF SameConf
  <2>6. PICK k \in Party \cup {NoParty} : k = IF u.current = c THEN NoParty ELSE u.current
    BY <1>3 DEF ConfType
  <2>7. PICK w : w = [v EXCEPT !.current = k]
    OBVIOUS
  <2>8. w \in ConfType /\ w.mixer /\ Leads(v, w)
    BY <1>3, <2>2, <2>7, CurrentSet DEF SameConf
  <2>9. PICK yes \in BOOLEAN : yes = TRUE
    OBVIOUS
  <2>10. PICK x : x = UpdateParty(w, c, yes)
    OBVIOUS
  <2>11. Leads(w, x) /\ x \in ConfType
    BY <2>8, <2>10, UpdateLeads DEF Leads
  <2>12. t = AddLocal(x)
    BY <1>6, <2>1, <2>6, <2>7, <2>9, <2>10
  <2>13. Leads(x, t)
    BY <2>11, <2>12, AddLocalLeads
  <2>14. Leads(u, w)
    BY <2>5, <2>8, LeadsOn
  <2>15. Leads(u, x)
    BY <2>11, <2>14, LeadsOn
  <2>16. Leads(u, t)
    BY <2>13, <2>15, LeadsOn
  <2> QED BY <1>1, <1>3, <2>16, LeadsOn
<1>7. CASE t = u
  BY <1>1, <1>3, <1>7
<1> QED BY <1>1, <1>2, <1>4, <1>5, <1>6, <1>7, AddedIs

\* linphone_core_remove_from_conference()
LEMMA RemoveLeads ==
  ASSUME NEW s \in ConfType, NEW c \in Party
  PROVE  Leads(s, RemoveParty(s, c))
<1>1. PICK no \in BOOLEAN : no = FALSE
  OBVIOUS
<1>2. PICK t : t = RemoveMember(s, c, no)
  OBVIOUS
<1>3. t \in ConfType /\ Leads(s, t)
  BY <1>2, MemberOut DEF Leads
<1>4. RemoveParty(s, c) = t \/ RemoveParty(s, c) = Convert(t)
  BY <1>1, <1>2 DEF RemoveParty
<1>5. CASE RemoveParty(s, c) = t
  BY <1>3, <1>5
<1>6. CASE RemoveParty(s, c) = Convert(t)
  <2>1. Leads(t, Convert(t))
    BY <1>3, ConvertLeads
  <2> QED BY <1>3, <1>6, <2>1, LeadsOn
<1> QED BY <1>4, <1>5, <1>6

\* linphone_core_enter_conference()
LEMMA EnterLeads ==
  ASSUME NEW s \in ConfType
  PROVE  Leads(s, EnterConference(s))
<1>1. PICK t : t = IF s.current # NoParty THEN PauseParty(s, s.current) ELSE s
  OBVIOUS
<1>2. t \in ConfType /\ Leads(s, t)
  BY <1>1, PauseLeads, LeadsSelf DEF ConfType, Leads
<1>3. EnterConference(s) = s \/ EnterConference(s) = t \/ EnterConference(s) = AddLocal(t)
  BY <1>1 DEF EnterConference
<1>4. Leads(t, AddLocal(t)) /\ Leads(s, s)
  BY <1>2, AddLocalLeads, LeadsSelf
<1> QED BY <1>2, <1>3, <1>4, LeadsOn

\* linphone_core_terminate_conference() and linphone_core_accept_call(), call after call.
DropMember(t, c) == IF t.party[c].cur THEN EndParty(t, c) ELSE t
EndPlaced(t, c) == IF t.party[c].state = "outgoing" THEN EndParty(t, c) ELSE t

LEMMA AllDropped ==
  ASSUME NEW A, NEW s \in A, NEW l \in Seq(Party),
         \A t \in A, c \in Party : DropMember(t, c) \in A
  PROVE  FoldLeft(DropMember, s, l) \in A
<1>1. PICK n \in Nat : n = Len(l) /\ DOMAIN l = 1..n /\ \A i \in 1..n : l[i] \in Party
  OBVIOUS
<1> DEFINE Is(f) == f = [T \in SUBSET (DOMAIN l) |-> IF T = {} THEN s
                           ELSE DropMember(f[T \ {Max(T)}], l[Max(T)])]
           h == [i \in 1..n |-> [t \in A |-> DropMember(t, l[i])]]
<1>2. PICK J \in [SUBSET (1..n) -> A] : FoldEquation(J, n, s, h)
  <2>1. h \in Steps(n, A)
    BY <1>1 DEF Steps
  <2> HIDE DEF h
  <2> QED BY <2>1, FoldExists
<1>3. Is(J)
  <2>1. \A T \in SUBSET (1..n) : T # {} =>
          h[Max(T)][J[T \ {Max(T)}]] = DropMember(J[T \ {Max(T)}], l[Max(T)])
    BY MaxIs
  <2> QED BY <1>1, <1>2, <2>1 DEF FoldEquation
<1>4. PICK f : f = (CHOOSE e : Is(e)) /\ Is(f)
  BY <1>3
<1>5. FoldLeft(DropMember, s, l) = f[DOMAIN l]
  BY <1>4 DEF FoldLeft, MapThenFoldSet
<1> DEFINE B == {i \in 0..n : f[1..i] \in A}
<1>6. 0 \in B
  <2>1. 1..0 = {} /\ {} \in SUBSET (DOMAIN l)
    OBVIOUS
  <2>2. f[{}] = s
    BY <1>4, <2>1
  <2> QED BY <2>1, <2>2
<1>7. ASSUME NEW i \in 1..n, i - 1 \in B  PROVE i \in B
  <2>0. i \in Nat /\ i >= 1 /\ i <= n /\ i \in 1..i /\ i - 1 \in 0..n
    BY <1>1
  <2>6. 1..i \subseteq 1..n
    BY <1>1, <2>0
  <2>7. (1..i) \ {i} = 1..(i - 1)
    BY <2>0
  <2>1. 1..i \in SUBSET (DOMAIN l) /\ 1..i # {} /\ (1..i) \ {i} = 1..(i - 1) /\ 1..i \subseteq 1..n
    BY <1>1, <2>0, <2>6, <2>7
  <2>2. Max(1..i) = i
    <3>1. Max(1..i) \in 1..i /\ \A k \in 1..i : k <= Max(1..i)
      BY <2>1, MaxIs
    <3> QED BY <2>0, <3>1
  <2>3. f[1..i] = DropMember(f[(1..i) \ {Max(1..i)}], l[Max(1..i)])
    BY <1>4, <2>1
  <2>4. f[1..i] = DropMember(f[1..(i - 1)], l[i])
    BY <2>1, <2>2, <2>3
  <2> QED BY <1>1, <1>7, <2>0, <2>4
<1>8. \A i \in 0..n : i \in B
  <2> HIDE DEF B
  <2> QED BY <1>6, <1>7, Counting
<1> QED BY <1>1, <1>5, <1>8

LEMMA AllEnded ==
  ASSUME NEW A, NEW s \in A, NEW l \in Seq(Party),
         \A t \in A, c \in Party : EndPlaced(t, c) \in A
  PROVE  FoldLeft(EndPlaced, s, l) \in A
<1>1. PICK n \in Nat : n = Len(l) /\ DOMAIN l = 1..n /\ \A i \in 1..n : l[i] \in Party
  OBVIOUS
<1> DEFINE Is(f) == f = [T \in SUBSET (DOMAIN l) |-> IF T = {} THEN s
                           ELSE EndPlaced(f[T \ {Max(T)}], l[Max(T)])]
           h == [i \in 1..n |-> [t \in A |-> EndPlaced(t, l[i])]]
<1>2. PICK J \in [SUBSET (1..n) -> A] : FoldEquation(J, n, s, h)
  <2>1. h \in Steps(n, A)
    BY <1>1 DEF Steps
  <2> HIDE DEF h
  <2> QED BY <2>1, FoldExists
<1>3. Is(J)
  <2>1. \A T \in SUBSET (1..n) : T # {} =>
          h[Max(T)][J[T \ {Max(T)}]] = EndPlaced(J[T \ {Max(T)}], l[Max(T)])
    BY MaxIs
  <2> QED BY <1>1, <1>2, <2>1 DEF FoldEquation
<1>4. PICK f : f = (CHOOSE e : Is(e)) /\ Is(f)
  BY <1>3
<1>5. FoldLeft(EndPlaced, s, l) = f[DOMAIN l]
  BY <1>4 DEF FoldLeft, MapThenFoldSet
<1> DEFINE B == {i \in 0..n : f[1..i] \in A}
<1>6. 0 \in B
  <2>1. 1..0 = {} /\ {} \in SUBSET (DOMAIN l)
    OBVIOUS
  <2>2. f[{}] = s
    BY <1>4, <2>1
  <2> QED BY <2>1, <2>2
<1>7. ASSUME NEW i \in 1..n, i - 1 \in B  PROVE i \in B
  <2>0. i \in Nat /\ i >= 1 /\ i <= n /\ i \in 1..i /\ i - 1 \in 0..n
    BY <1>1
  <2>6. 1..i \subseteq 1..n
    BY <1>1, <2>0
  <2>7. (1..i) \ {i} = 1..(i - 1)
    BY <2>0
  <2>1. 1..i \in SUBSET (DOMAIN l) /\ 1..i # {} /\ (1..i) \ {i} = 1..(i - 1) /\ 1..i \subseteq 1..n
    BY <1>1, <2>0, <2>6, <2>7
  <2>2. Max(1..i) = i
    <3>1. Max(1..i) \in 1..i /\ \A k \in 1..i : k <= Max(1..i)
      BY <2>1, MaxIs
    <3> QED BY <2>0, <3>1
  <2>3. f[1..i] = EndPlaced(f[(1..i) \ {Max(1..i)}], l[Max(1..i)])
    BY <1>4, <2>1
  <2>4. f[1..i] = EndPlaced(f[1..(i - 1)], l[i])
    BY <2>1, <2>2, <2>3
  <2> QED BY <1>1, <1>7, <2>0, <2>4
<1>8. \A i \in 0..n : i \in B
  <2> HIDE DEF B
  <2> QED BY <1>6, <1>7, Counting
<1> QED BY <1>1, <1>5, <1>8

LEMMA TerminateIs ==
  ASSUME NEW s
  PROVE  TerminateConference(s) = FoldLeft(DropMember, [s EXCEPT !.terminated = TRUE], s.list)
BY DEF TerminateConference, FoldLeft, MapThenFoldSet, DropMember

LEMMA PlacedIs ==
  ASSUME NEW s
  PROVE  FoldLeft(LAMBDA t, d : IF t.party[d].state = "outgoing" THEN EndParty(t, d) ELSE t, s, s.list)
           = FoldLeft(EndPlaced, s, s.list)
BY DEF FoldLeft, MapThenFoldSet, EndPlaced

-----------------------------------------------------------------------------
(* The steps                                                               *)

ConfPolite == {"held", "refused", "forgotten"}

Wired(s, F) ==
  s \in ConfType /\ s.faults = F /\ Listed(s) /\ (F \subseteq ConfPolite => Plugged(s))

LEMMA LeadsWired ==
  ASSUME NEW F, NEW s, NEW t, Wired(s, F), Leads(s, t)
  PROVE  Wired(t, F)
BY DEF Wired, Leads

\* A call is begun.
Begins(s, c, new, k) == [Enters(s, c, new) EXCEPT !.list = Append(s.list, c), !.current = k]

LEMMA Begun ==
  ASSUME NEW s \in ConfType, NEW c \in Party, s.party[c].state = "none",
         NEW new \in {"incoming", "outgoing"}, NEW k \in Party \cup {NoParty},
         NEW t, t = Begins(s, c, new, k)
  PROVE  /\ t \in ConfType /\ Others(s, t, c) /\ Moves(s.party[c], t.party[c], new)
         /\ t.faults = s.faults /\ t.mixer = s.mixer /\ t.local = s.local /\ t.lost = s.lost
         /\ t.terminated = s.terminated /\ t.current = k /\ t.list # <<>>
         /\ Listed(s) => Listed(t)
         /\ Plugged(s) => Plugged(t)
<1>1. PICK u : u = Enters(s, c, new)
  OBVIOUS
<1>2. new \in PartyState /\ new \notin Asking
  BY DEF PartyState, Asking
<1>3. /\ u \in ConfType /\ SameConf(s, u) /\ Others(s, u, c) /\ u.current = s.current
      /\ Moves(s.party[c], u.party[c], new)
  BY <1>1, <1>2, EntersIs
<1>4. PICK l \in Seq(Party) : l = Append(s.list, c)
  <2>1. s.list \in Seq(Party)
    BY DEF ConfType
  <2> QED BY <2>1, AppendProperties
<1>5. /\ l # <<>> /\ \E i \in DOMAIN l : l[i] = c
      /\ \A i \in DOMAIN s.list : i \in DOMAIN l /\ l[i] = s.list[i]
  <2>1. s.list \in Seq(Party)
    BY DEF ConfType
  <2>2. Len(l) = Len(s.list) + 1 /\ l[Len(s.list) + 1] = c /\ Len(s.list) + 1 \in DOMAIN l
    BY <1>4, <2>1
  <2> QED BY <1>4, <2>1, <2>2
<1>6. t = [u EXCEPT !.list = l, !.current = k]
  BY <1>1, <1>4 DEF Begins
<1>7. /\ t \in ConfType /\ t.list = l /\ t.current = k /\ t.party = u.party /\ t.faults = u.faults
      /\ t.mixer = u.mixer /\ t.local = u.local /\ t.lost = u.lost /\ t.terminated = u.terminated
  BY <1>3, <1>6 DEF ConfType
<1>8. Others(s, t, c) /\ Moves(s.party[c], t.party[c], new)
  BY <1>3, <1>7 DEF Others
<1>9. ASSUME Listed(s)  PROVE Listed(t)
  <2> SUFFICES ASSUME NEW d \in Party, t.party[d].state \notin {"none", "ended"}
               PROVE  IsListed(t, d)
    BY DEF Listed
  <2>1. CASE d = c
    BY <1>5, <1>7, <2>1 DEF IsListed
  <2>2. CASE d # c
    <3>1. s.party[d].state \notin {"none", "ended"}
      BY <1>8, <2>2 DEF Others
    <3>2. PICK i \in DOMAIN s.list : s.list[i] = d
      BY <1>9, <3>1 DEF Listed, IsListed
    <3> QED BY <1>5, <1>7, <3>2 DEF IsListed
  <2> QED BY <2>1, <2>2
<1>10. ASSUME Plugged(s)  PROVE Plugged(t)
  <2> SUFFICES ASSUME NEW d \in Party  PROVE PluggedAt(t, d)
    BY DEF Plugged
  <2>1. PluggedAt(s, d) /\ t.mixer = s.mixer
    BY <1>3, <1>7, <1>10 DEF Plugged, SameConf
  <2>2. CASE d = c
    BY <1>2, <1>8, <2>1, <2>2 DEF PluggedAt, Moves, Asking, Rested
  <2>3. CASE d # c
    BY <1>8, <2>1, <2>3 DEF PluggedAt, Others
  <2> QED BY <2>2, <2>3
<1> QED BY <1>3, <1>5, <1>7, <1>8, <1>9, <1>10 DEF SameConf

LEMMA PartyCallsWired ==
  ASSUME NEW F, Wired(conf, F), NEW c \in Party, PartyCalls(c)
  PROVE  Wired(conf', F)
<1>1. conf \in ConfType /\ conf.party[c].state = "none"
  BY DEF Wired, PartyCalls, InState
<1>2. PICK k \in Party \cup {NoParty} : k = IF conf.list = <<>> THEN c ELSE conf.current
  BY <1>1 DEF ConfType
<1>3. PICK new \in {"incoming", "outgoing"} : new = "incoming"
  OBVIOUS
<1>4. PICK u : u = Enters(conf, c, new)
  OBVIOUS
<1>9. new \in PartyState
  BY DEF PartyState
<1>5. u \in ConfType /\ u.list = conf.list /\ u.current = conf.current
  BY <1>1, <1>4, <1>9, EntersIs DEF SameConf
<1>6. conf' = [u EXCEPT !.list = Append(u.list, c), !.current = IF conf.list = <<>> THEN c ELSE u.current]
  BY <1>3, <1>4 DEF PartyCalls
<1>7. conf' = Begins(conf, c, new, k)
  BY <1>2, <1>4, <1>5, <1>6 DEF Begins
<1>8. /\ conf' \in ConfType /\ conf'.faults = conf.faults
      /\ Listed(conf) => Listed(conf')
      /\ Plugged(conf) => Plugged(conf')
  BY <1>1, <1>7, Begun
<1> QED BY <1>8 DEF Wired

LEMMA CallPartyWired ==
  ASSUME NEW F, Wired(conf, F), NEW c \in Party, CallParty(c)
  PROVE  Wired(conf', F)
<1>1. conf \in ConfType /\ conf.party[c].state = "none"
  BY DEF Wired, CallParty, InState
<1>2. PICK s : s = PreemptSound(conf)
  OBVIOUS
<1>3. s \in ConfType /\ s.party[c].state = "none" /\ Leads(conf, s)
  BY <1>1, <1>2, PreemptKeeps, PreemptLeads
<1>4. PICK new \in {"incoming", "outgoing"} : new = "outgoing"
  OBVIOUS
<1>5. PICK u : u = Enters(s, c, new)
  OBVIOUS
<1>10. new \in PartyState
  BY DEF PartyState
<1>6. u \in ConfType /\ u.list = s.list
  BY <1>3, <1>5, <1>10, EntersIs DEF SameConf
<1>7. conf' = [u EXCEPT !.list = Append(u.list, c), !.current = c]
  BY <1>2, <1>4, <1>5 DEF CallParty
<1>8. conf' = Begins(s, c, new, c)
  BY <1>5, <1>6, <1>7 DEF Begins
<1>9. /\ conf' \in ConfType /\ conf'.faults = s.faults
      /\ Listed(s) => Listed(conf')
      /\ Plugged(s) => Plugged(conf')
  BY <1>3, <1>8, Begun
<1> QED BY <1>3, <1>9 DEF Wired, Leads

\* The calls that were being placed are given up.
PlacedEnded == FoldLeft(EndPlaced, conf, conf.list)

LEMMA EndPlacedWired ==
  ASSUME NEW F, Wired(conf, F), \A d \in Party : InState(d, {"outgoing"}) => NobodyJoins(d),
         NEW k \in Party, conf.party[k].state = "incoming"
  PROVE  Wired(PlacedEnded, F) /\ PlacedEnded.party[k].state \in {"incoming", "updating", "pausing"}
<1> DEFINE A == {t \in ConfType : /\ t.faults = conf.faults /\ Listed(t)
                                  /\ t.party[k].state \in {"incoming", "updating", "pausing"}
                                  /\ \A d \in Party : t.party[d].state = "outgoing"
                                                       => conf.party[d].state = "outgoing"
                                  /\ conf.faults \subseteq ConfPolite =>
                                       /\ Plugged(t)
                                       /\ (\E d \in Party : t.party[d].state = "outgoing") => AllSeated(t)}
<1>1. conf \in A
  <2>1. ASSUME conf.faults \subseteq ConfPolite, NEW d \in Party, conf.party[d].state = "outgoing"
        PROVE  AllSeated(conf)
    <3>1. "crossing" \notin conf.faults
      BY <2>1 DEF ConfPolite
    <3>2. \A e \in Party \ {d} : ~Joining(e)
      BY <2>1, <3>1 DEF InState, NobodyJoins, Fault
    <3>3. ~conf.party[d].want
      BY <2>1 DEF Wired, Plugged, PluggedAt, Asking, Rested
    <3> QED BY <3>2, <3>3 DEF AllSeated, Joining
  <2> QED BY <2>1 DEF Wired
<1>2. ASSUME NEW t \in A, NEW c \in Party
      PROVE  EndPlaced(t, c) \in A
  <2>1. CASE t.party[c].state # "outgoing"
    <3>1. EndPlaced(t, c) = t
      BY <2>1 DEF EndPlaced
    <3> HIDE DEF A
    <3> QED BY <3>1
  <2>2. CASE t.party[c].state = "outgoing"
    <3>1. PICK u : u = EndParty(t, c)
      OBVIOUS
    <3>2. /\ u \in ConfType /\ u.faults = t.faults /\ Listed(u)
          /\ \A d \in Party : u.party[d].state \in {t.party[d].state, "ended", "updating", "pausing"}
          /\ \A d \in Party \ {c} : u.party[d].state \in {t.party[d].state, "updating", "pausing"}
          /\ Plugged(t) /\ Seated(t, c) => Plugged(u) /\ AllSeated(u)
      <4>1. t \in ConfType /\ Listed(t)
        OBVIOUS
      <4> HIDE DEF A
      <4> QED BY <3>1, <4>1, EndLeads
    <3>3. AllSeated(t) => Seated(t, c)
      BY DEF AllSeated, Seated
    <3>4. conf.faults \subseteq ConfPolite => Plugged(u) /\ AllSeated(u)
      BY <2>2, <3>2, <3>3
    <3>5. \A d \in Party : u.party[d].state = "outgoing" => conf.party[d].state = "outgoing"
      BY <3>2
    <3>8. u.party[k].state \in {"incoming", "updating", "pausing"}
      <4>1. k # c
        BY <2>2
      <4> QED BY <3>2, <4>1
    <3>6. u \in A
      BY <3>2, <3>4, <3>5, <3>8
    <3>7. EndPlaced(t, c) = u
      BY <2>2, <3>1 DEF EndPlaced
    <3> QED BY <3>6, <3>7
  <2> QED BY <2>1, <2>2
<1>3. PlacedEnded \in A
  <2>1. conf.list \in Seq(Party)
    BY DEF Wired, ConfType
  <2> HIDE DEF A
  <2> QED BY <1>1, <1>2, <2>1, AllEnded DEF PlacedEnded
<1> QED BY <1>3 DEF Wired

\* linphone_core_accept_call_with_params(), after that.
LEMMA AcceptIs ==
  ASSUME NEW c \in Party, AcceptParty(c)
  PROVE  /\ conf.party[c].state = "incoming" /\ Calm
         /\ \A d \in Party : InState(d, {"outgoing"}) => NobodyJoins(d)
         /\ \E t : /\ t = (IF PlacedEnded.current # c THEN PreemptSound(PlacedEnded) ELSE PlacedEnded)
                   /\ conf' = Enters(RestartAudio([t EXCEPT !.current = c], c, "sendrecv"), c, "running")
BY PlacedIs DEF AcceptParty, PlacedEnded, InState

LEMMA PreemptState ==
  ASSUME NEW s \in ConfType, NEW c \in Party
  PROVE  PreemptSound(s).party[c].state \in {s.party[c].state, "pausing"}
<1>1. PICK t : t = PreemptSound(s)
  OBVIOUS
<1>2. CASE t = LeaveConference(s)
  BY <1>1, <1>2, LocalLeft
<1>3. CASE s.current \in Party /\ t = PauseParty(s, s.current)
  <2>1. /\ t \in ConfType /\ Others(s, t, s.current)
        /\ s.party[s.current].state \notin {"running", "held"} => t = s
        /\ s.party[s.current].state \in {"running", "held"} => Pauses(s.party[s.current], t.party[s.current])
    BY <1>3, PartyPaused
  <2> QED BY <1>1, <2>1 DEF Others, Pauses
<1>4. CASE t = s
  BY <1>1, <1>4
<1> QED BY <1>1, <1>2, <1>3, <1>4, PreemptedIs

\* A stream is started or goes on, and the call rests in a state.
LEMMA AnswerLeads ==
  ASSUME NEW s \in ConfType, NEW c \in Party, NEW dir \in Direction, NEW new \in Rested,
         s.party[c].state \notin {"none", "ended"}, NEW u, u = RestartAudio(s, c, dir),
         NEW t, t = Enters(u, c, new)
  PROVE  Leads(s, t) /\ u \in ConfType /\ t \in ConfType
<1>1. /\ u \in ConfType /\ Leads(s, u)
      /\ u = s \/ Starts(s.party[c], u.party[c], NewMedia(s, c, dir), dir)
  BY AudioRestarted, AudioLeads
<1>2. u.party[c].state = s.party[c].state
  BY <1>1 DEF Starts
<1>3. Leads(u, t)
  BY <1>1, <1>2, RestLeads
<1>4. t \in ConfType
  BY <1>3 DEF Leads
<1> QED BY <1>1, <1>3, <1>4, LeadsOn

LEMMA AcceptPartyWired ==
  ASSUME NEW F, Wired(conf, F), NEW c \in Party, AcceptParty(c)
  PROVE  Wired(conf', F)
<1>1. /\ conf.party[c].state = "incoming"
      /\ \A d \in Party : InState(d, {"outgoing"}) => NobodyJoins(d)
  BY AcceptIs
<1>2. PICK t : /\ t = (IF PlacedEnded.current # c THEN PreemptSound(PlacedEnded) ELSE PlacedEnded)
               /\ conf' = Enters(RestartAudio([t EXCEPT !.current = c], c, "sendrecv"), c, "running")
  BY AcceptIs
<1>3. Wired(PlacedEnded, F) /\ PlacedEnded.party[c].state \in {"incoming", "updating", "pausing"}
  BY <1>1, EndPlacedWired
<1>4. Wired(t, F) /\ t.party[c].state \in {"incoming", "updating", "pausing"}
  <2>1. PlacedEnded \in ConfType
    BY <1>3 DEF Wired
  <2>2. Leads(PlacedEnded, t) /\ t.party[c].state \in {PlacedEnded.party[c].state, "pausing"}
    BY <1>2, <2>1, PreemptLeads, LeadsSelf, PreemptState
  <2> QED BY <1>3, <2>2, LeadsWired
<1>5. PICK u : u = [t EXCEPT !.current = c]
  OBVIOUS
<1>6. Wired(u, F) /\ u.party = t.party
  <2>1. t \in ConfType
    BY <1>4 DEF Wired
  <2>2. Leads(t, u) /\ u.party = t.party
    BY <1>5, <2>1, CurrentSet
  <2> QED BY <1>4, <2>2, LeadsWired
<1>7. PICK dir \in Direction : dir = "sendrecv"
  BY DEF Direction
<1>8. PICK v : v = RestartAudio(u, c, dir)
  OBVIOUS
<1>9. PICK new \in Rested : new = "running"
  BY DEF Rested
<1>10. conf' = Enters(v, c, new)
  BY <1>2, <1>5, <1>7, <1>8, <1>9
<1>11. u \in ConfType /\ u.party[c].state \notin {"none", "ended"}
  BY <1>4, <1>6 DEF Wired
<1>12. Leads(u, conf')
  BY <1>8, <1>10, <1>11, AnswerLeads
<1> QED BY <1>6, <1>12, LeadsWired

LEMMA PartyAnswersWired ==
  ASSUME NEW F, Wired(conf, F), NEW c \in Party, NEW dir \in Direction, PartyAnswers(c, dir)
  PROVE  Wired(conf', F)
<1>1. PICK s : s = RestartAudio(conf, c, dir)
  OBVIOUS
<1>2. conf \in ConfType /\ conf.party[c].state \notin {"none", "ended"}
  BY DEF PartyAnswers, InState, Wired
<1>3. ASSUME NEW new \in Rested, conf' = Enters(s, c, new)
      PROVE  Wired(conf', F)
  <2>1. Leads(conf, conf')
    BY <1>1, <1>2, <1>3, AnswerLeads
  <2> QED BY <2>1, LeadsWired
<1>4. "paused" \in Rested /\ "held" \in Rested /\ "running" \in Rested
  BY DEF Rested
<1>5. CASE conf' = Enters(s, c, "paused") \/ conf' = Enters(s, c, "held")
  BY <1>3, <1>4, <1>5
<1>6. CASE conf' = [Enters(s, c, "running") EXCEPT !.current = IF s.party[c].cur THEN @ ELSE c]
  <2>1. PICK new \in Rested : new = "running"
    BY <1>4
  <2>2. PICK t : t = Enters(s, c, new)
    OBVIOUS
  <2>3. Leads(conf, t) /\ t \in ConfType
    BY <1>1, <1>2, <2>2, AnswerLeads
  <2>4. PICK k \in Party \cup {NoParty} : k = IF s.party[c].cur THEN t.current ELSE c
    BY <2>3 DEF ConfType
  <2>5. conf' = [t EXCEPT !.current = k]
    BY <1>6, <2>1, <2>2, <2>4
  <2>6. Leads(t, conf')
    BY <2>3, <2>5, CurrentSet
  <2>7. Leads(conf, conf')
    BY <2>3, <2>6, LeadsOn
  <2> QED BY <2>7, LeadsWired
<1> QED BY <1>1, <1>5, <1>6 DEF PartyAnswers

LEMMA PartyRefusesWired ==
  ASSUME NEW F, Wired(conf, F), NEW c \in Party, PartyRefuses(c)
  PROVE  Wired(conf', F)
<1>1. conf \in ConfType /\ conf.party[c].state \in Asking /\ conf.party[c].prev \in PartyState
  BY DEF PartyRefuses, InState, Wired, ConfType, PartyType
<1>2. conf' = Enters(conf, c, conf.party[c].prev)
  BY DEF PartyRefuses
<1>3. /\ conf' \in ConfType /\ SameConf(conf, conf') /\ Others(conf, conf', c)
      /\ Moves(conf.party[c], conf'.party[c], conf.party[c].prev)
  BY <1>1, <1>2, EntersIs
<1>4. ASSUME Plugged(conf)  PROVE PluggedAt(conf', c)
  <2>1. PluggedAt(conf, c)
    BY <1>4 DEF Plugged
  <2> QED BY <1>1, <1>3, <2>1 DEF PluggedAt, Moves, SameConf, Asking, Rested
<1>5. conf.party[c].state \notin {"none", "ended"}
  BY <1>1 DEF Asking
<1>6. Leads(conf, conf')
  BY <1>1, <1>3, <1>4, <1>5, OneLeads DEF SameConf
<1> QED BY <1>6, LeadsWired

LEMMA PartyHoldsWired ==
  ASSUME NEW F, Wired(conf, F), NEW c \in Party, PartyHolds(c) \/ PartyUnholds(c)
  PROVE  Wired(conf', F)
<1>1. conf \in ConfType /\ conf.party[c].state \notin {"none", "ended"}
  BY DEF PartyHolds, PartyUnholds, InState, Wired
<1>2. PICK dir \in Direction, new \in Rested : conf' = Enters(RestartAudio(conf, c, dir), c, new)
  BY DEF PartyHolds, PartyUnholds, Direction, Rested
<1>3. Leads(conf, conf')
  BY <1>1, <1>2, AnswerLeads
<1> QED BY <1>3, LeadsWired

LEMMA PartyEndsWired ==
  ASSUME NEW F, Wired(conf, F), NEW c \in Party, PartyEnds(c)
  PROVE  Wired(conf', F)
<1>1. conf \in ConfType /\ Listed(conf) /\ conf' = EndParty(conf, c)
  BY DEF Wired, PartyEnds
<1>2. /\ conf' \in ConfType /\ conf'.faults = conf.faults /\ Listed(conf')
      /\ Plugged(conf) /\ Seated(conf, c) => Plugged(conf') /\ AllSeated(conf')
  BY <1>1, EndLeads
<1>3. conf.faults \subseteq ConfPolite => Seated(conf, c)
  BY DEF PartyEnds, NobodyJoins, Joining, Fault, ConfPolite, Seated
<1> QED BY <1>2, <1>3 DEF Wired

LEMMA TerminateWired ==
  ASSUME NEW F, Wired(conf, F), Terminate
  PROVE  Wired(conf', F)
<1>1. PICK s : s = [conf EXCEPT !.terminated = TRUE]
  OBVIOUS
<1>2. /\ s \in ConfType /\ s.party = conf.party /\ s.faults = conf.faults /\ s.list = conf.list
      /\ s.mixer = conf.mixer
  BY <1>1 DEF Wired, ConfType
<1>3. Wired(s, F)
  <2>1. conf \in ConfType
    BY DEF Wired
  <2>2. Leads(conf, s)
    BY <1>2, <2>1, NoneLeads
  <2> QED BY <2>2, LeadsWired
<1>4. conf.faults \subseteq ConfPolite => AllSeated(s)
  <2> SUFFICES ASSUME conf.faults \subseteq ConfPolite, NEW d \in Party, s.party[d].want
               PROVE  s.party[d].media = "mixed"
    BY DEF AllSeated
  <2>1. d \in Party \ {NoParty}
    BY ConferenceAssumption
  <2> QED BY <1>2, <2>1 DEF Terminate, NobodyJoins, Joining, Fault, ConfPolite
<1> DEFINE A == {t \in ConfType : /\ t.faults = conf.faults /\ Listed(t)
                                  /\ conf.faults \subseteq ConfPolite => Plugged(t) /\ AllSeated(t)}
<1>5. s \in A
  BY <1>2, <1>3, <1>4 DEF Wired
<1>6. ASSUME NEW t \in A, NEW c \in Party
      PROVE  DropMember(t, c) \in A
  <2>1. CASE ~t.party[c].cur
    <3>1. DropMember(t, c) = t
      BY <2>1 DEF DropMember
    <3> HIDE DEF A
    <3> QED BY <3>1
  <2>2. CASE t.party[c].cur
    <3>1. PICK u : u = EndParty(t, c)
      OBVIOUS
    <3>2. /\ u \in ConfType /\ u.faults = t.faults /\ Listed(u)
          /\ Plugged(t) /\ Seated(t, c) => Plugged(u) /\ AllSeated(u)
      <4>1. t \in ConfType /\ Listed(t)
        OBVIOUS
      <4> HIDE DEF A
      <4> QED BY <3>1, <4>1, EndLeads
    <3>3. AllSeated(t) => Seated(t, c)
      BY DEF AllSeated, Seated
    <3>4. u \in A
      BY <3>2, <3>3
    <3>5. DropMember(t, c) = u
      BY <2>2, <3>1 DEF DropMember
    <3> QED BY <3>4, <3>5
  <2> QED BY <2>1, <2>2
<1>7. conf' \in A
  <2>1. s.list \in Seq(Party)
    BY <1>2 DEF ConfType
  <2>2. conf' = FoldLeft(DropMember, s, s.list)
    BY <1>1, <1>2, TerminateIs DEF Terminate
  <2> HIDE DEF A
  <2> QED BY <1>5, <1>6, <2>1, <2>2, AllDropped
<1> QED BY <1>7 DEF Wired

LEMMA AddAllWired ==
  ASSUME NEW F, Wired(conf, F), AddAll
  PROVE  Wired(conf', F)
<1>1. PICK s : s = FoldLeft(AddParty, conf, conf.list)
  OBVIOUS
<1>2. conf' = EnterConference(s)
  BY <1>1 DEF AddAll, AddAllParties
<1> DEFINE A == {t \in ConfType : Leads(conf, t)}
<1>3. conf \in A /\ conf.list \in Seq(Party)
  BY LeadsSelf DEF Wired, ConfType
<1>4. ASSUME NEW t \in A, NEW c \in Party
      PROVE  AddParty(t, c) \in A
  <2>1. Leads(t, AddParty(t, c))
    BY AddLeads
  <2>2. Leads(conf, AddParty(t, c)) /\ AddParty(t, c) \in ConfType
    BY <2>1, LeadsOn DEF Leads
  <2> QED BY <2>2
<1>5. s \in A
  <2> HIDE DEF A
  <2> QED BY <1>1, <1>3, <1>4, AllAdded
<1>6. Leads(s, conf')
  BY <1>2, <1>5, EnterLeads
<1>7. Leads(conf, conf')
  BY <1>5, <1>6, LeadsOn
<1> QED BY <1>7, LeadsWired

LEMMA StepWired ==
  ASSUME NEW F, Wired(conf, F), [ConfNext]_conf
  PROVE  Wired(conf', F)
<1>0. conf \in ConfType
  BY DEF Wired
<1>1. CASE UNCHANGED conf
  BY <1>1
<1>2. ASSUME NEW c \in Party, Pause(c) \/ Resume(c) \/ AddToConference(c) \/ RemoveFromConference(c)
      PROVE  Wired(conf', F)
  <2>1. Leads(conf, conf')
    BY <1>0, <1>2, PauseLeads, ResumeLeads, AddLeads, RemoveLeads
       DEF Pause, Resume, AddToConference, RemoveFromConference
  <2> QED BY <2>1, LeadsWired
<1>3. CASE Enter \/ Leave
  <2>1. Leads(conf, conf')
    BY <1>0, <1>3, EnterLeads, LeaveLeads DEF Enter, Leave
  <2> QED BY <2>1, LeadsWired
<1>4. \A dir \in {"sendrecv", "sendonly", "recvonly"} : dir \in Direction
  BY DEF Direction
<1> QED BY <1>1, <1>2, <1>3, <1>4, PartyCallsWired, CallPartyWired, AcceptPartyWired, PartyAnswersWired,
           PartyRefusesWired, PartyHoldsWired, PartyEndsWired, TerminateWired, AddAllWired
        DEF ConfNext, ConfStep

-----------------------------------------------------------------------------
(* The invariant of the sound card                                         *)

\* A call that has the sound card, or will have it when it is answered.
Claims(x) == ~x.want /\ x.state \in {"outgoing", "resuming", "running", "updating"}

Fits(x) ==
  /\ x.state # "held"
  /\ x.state \in {"none", "ended", "incoming", "outgoing"} => ~x.want /\ ~x.cur
  /\ x.state \in {"none", "ended", "incoming", "outgoing", "pausing"} => x.media = "off"
  /\ x.state \in {"paused", "resuming"} => x.dir = "sendonly"
  /\ x.state = "paused" /\ x.want => x.cur /\ x.media = "mixed"
  /\ x.state = "running" => x.want = x.cur /\ x.media = IF x.want THEN "mixed" ELSE "sound"
  /\ x.state = "updating" => x.want # x.cur
  /\ x.state # "running" => x.media # "sound"

Owned(s) ==
  /\ \A c \in Party : Claims(s.party[c]) =>
       ~s.local /\ s.current = IF s.party[c].state = "updating" THEN NoParty ELSE c
  /\ \A c, d \in Party : Claims(s.party[c]) /\ Claims(s.party[d]) => c = d
  /\ s.current # NoParty /\ ~Claims(s.party[s.current]) =>
       /\ s.party[s.current].state = "incoming" /\ ~s.local
       /\ \A d \in Party : ~Claims(s.party[d])

Orders(s) ==
  /\ \A c \in Party : Fits(s.party[c])
  /\ s.lost = 0 /\ (s.local => s.mixer)
  /\ Owned(s)

Closed(s) == s.list = <<>> => ~s.mixer /\ ~s.local

\* The current call was lost sight of.
ForgetsIn(s, t) ==
  s.current # NoParty /\ t.current = NoParty /\ t.party[s.current] = s.party[s.current]

\* The calls that are or go into the conference are in it, but for one.
Settled(s, c) ==
  \A d \in Party \ {c} : s.party[d].want => s.party[d].state \in {"running", "paused"}

\* Nobody's claim to the sound card changes.
LEMMA OwnedSame ==
  ASSUME NEW s \in ConfType, NEW t \in ConfType, Owned(s), t.current = s.current, t.local => s.local,
         \A d \in Party : \/ t.party[d] = s.party[d]
                          \/ /\ ~Claims(s.party[d]) /\ ~Claims(t.party[d])
                             /\ s.party[d].state # "incoming"
  PROVE  Owned(t)
<1>1. \A d \in Party : Claims(t.party[d]) <=> Claims(s.party[d])
  OBVIOUS
<1>2. \A d \in Party : Claims(t.party[d]) => t.party[d] = s.party[d]
  OBVIOUS
<1>3. t.current # NoParty => t.current \in Party
  BY DEF ConfType
<1>4. ASSUME t.current # NoParty, ~Claims(t.party[t.current])
      PROVE  /\ t.party[t.current].state = "incoming" /\ ~t.local
             /\ \A d \in Party : ~Claims(t.party[d])
  <2>1. /\ s.party[s.current].state = "incoming" /\ ~s.local
        /\ \A d \in Party : ~Claims(s.party[d])
    BY <1>1, <1>3, <1>4 DEF Owned
  <2> QED BY <1>1, <1>3, <1>4, <2>1
<1> HIDE DEF Claims
<1>5. \A c \in Party : Claims(t.party[c]) =>
        ~t.local /\ t.current = IF t.party[c].state = "updating" THEN NoParty ELSE c
  BY <1>1, <1>2 DEF Owned
<1>6. \A c, d \in Party : Claims(t.party[c]) /\ Claims(t.party[d]) => c = d
  BY <1>1 DEF Owned
<1> QED BY <1>4, <1>5, <1>6 DEF Owned

\* The one claim is given up.
LEMMA OwnedNone ==
  ASSUME NEW t, t.current = NoParty, \A d \in Party : ~Claims(t.party[d])
  PROVE  Owned(t)
BY DEF Owned

\* The sound card is taken over when nobody claims it.
LEMMA OwnedBy ==
  ASSUME NEW t, NEW c \in Party, Claims(t.party[c]), ~t.local,
         t.current = IF t.party[c].state = "updating" THEN NoParty ELSE c,
         \A d \in Party \ {c} : ~Claims(t.party[d])
  PROVE  Owned(t)
<1> HIDE DEF Claims
<1>1. c # NoParty
  BY ConferenceAssumption
<1>2. t.current # NoParty => t.current = c
  OBVIOUS
<1>3. \A d \in Party : Claims(t.party[d]) => d = c
  OBVIOUS
<1> QED BY <1>1, <1>2, <1>3 DEF Owned

\* Of a member of the conference.
LEMMA MemberTidy ==
  ASSUME NEW s \in ConfType, Orders(s), NEW c \in Party, s.party[c].want,
         s.party[c].state \in {"running", "paused"},
         NEW active \in BOOLEAN, active => s.local, NEW t, t = RemoveMember(s, c, active)
  PROVE  /\ Orders(t) \/ ForgetsIn(s, t)
         /\ ~t.party[c].want
         /\ ~active => t.party[c].state \in {"pausing", "paused"}
         /\ t.list = s.list /\ t.mixer = s.mixer /\ Others(s, t, c) /\ t \in ConfType
         /\ t.local => s.local
<1>1. Fits(s.party[c]) /\ s.party[c].cur
  BY DEF Orders, Fits
<1>2. s.lost = 0 /\ Owned(s) /\ (s.local => s.mixer) /\ ~Claims(s.party[c])
  BY DEF Orders, Claims
<1>3. CASE active
  <2>1. /\ OutOf(s, t, c) /\ ~t.local /\ t.current = s.current
        /\ s.party[c].state = "running" => Updates(s.party[c], t.party[c], FALSE)
        /\ s.party[c].state # "running" => Drops(s.party[c], t.party[c])
    BY <1>1, <1>3, MemberUpdated
  <2>2. t \in ConfType /\ Others(s, t, c) /\ t.list = s.list /\ t.mixer = s.mixer /\ t.lost = s.lost
    BY <2>1 DEF OutOf
  <2>3. Fits(t.party[c]) /\ ~t.party[c].want
    BY <1>1, <2>1 DEF Fits, Updates, Drops
  <2>4. \A d \in Party : Fits(t.party[d])
    BY <2>2, <2>3 DEF Orders, Others
  <2>5. \A d \in Party : ~Claims(s.party[d])
    BY <1>2, <1>3 DEF Owned
  <2>6. s.current = NoParty
    BY <1>2, <1>3, <2>5 DEF Owned, ConfType
  <2>7. \A d \in Party \ {c} : ~Claims(t.party[d])
    BY <2>2, <2>5 DEF Others
  <2>8. CASE s.party[c].state = "running"
    <3>1. Claims(t.party[c]) /\ t.party[c].state = "updating"
      BY <2>1, <2>8 DEF Claims, Updates
    <3>2. Owned(t)
      BY <2>1, <2>6, <2>7, <3>1, OwnedBy
    <3> QED BY <1>2, <1>3, <2>1, <2>2, <2>3, <2>4, <3>2 DEF Orders
  <2>9. CASE s.party[c].state # "running"
    <3>1. ~Claims(t.party[c])
      BY <2>1, <2>9 DEF Claims, Drops
    <3>2. Owned(t)
      BY <2>1, <2>6, <2>7, <3>1, OwnedNone
    <3> QED BY <1>2, <1>3, <2>1, <2>2, <2>3, <2>4, <3>2 DEF Orders
  <2> QED BY <2>8, <2>9
<1>4. CASE ~active
  <2>1. /\ OutOf(s, t, c) /\ t.local = s.local
        /\ s.party[c].state \in {"running", "held"} =>
             t.current = NoParty /\ PausesOut(s.party[c], t.party[c])
        /\ s.party[c].state \notin {"running", "held"} =>
             t.current = s.current /\ Drops(s.party[c], t.party[c])
    BY <1>1, <1>4, MemberPaused
  <2>2. t \in ConfType /\ Others(s, t, c) /\ t.list = s.list /\ t.mixer = s.mixer /\ t.lost = s.lost
    BY <2>1 DEF OutOf
  <2>3. /\ Fits(t.party[c]) /\ ~t.party[c].want /\ ~Claims(t.party[c])
        /\ t.party[c].state \in {"pausing", "paused"}
    BY <1>1, <2>1 DEF Fits, PausesOut, Drops, Claims
  <2>4. \A d \in Party : Fits(t.party[d])
    BY <2>2, <2>3 DEF Orders, Others
  <2>5. ASSUME t.current = s.current  PROVE Orders(t)
    <3>1. s.party[c].state # "incoming"
      OBVIOUS
    <3>2. Owned(t)
      BY <1>2, <2>1, <2>2, <2>3, <2>5, <3>1, OwnedSame DEF Others
    <3> QED BY <1>2, <2>1, <2>2, <2>4, <3>2 DEF Orders
  <2>6. CASE t.current = s.current
    BY <1>4, <2>1, <2>2, <2>3, <2>5, <2>6
  <2>7. CASE t.current # s.current
    <3>1. s.party[c].state = "running" /\ t.current = NoParty /\ s.current # NoParty
      BY <2>1, <2>7
    <3>2. s.current # c
      BY <1>2, <3>1 DEF Owned
    <3>3. s.current \in Party
      BY <3>1 DEF ConfType
    <3>4. t.party[s.current] = s.party[s.current]
      BY <2>2, <3>2, <3>3 DEF Others
    <3> QED BY <1>4, <2>1, <2>2, <2>3, <3>1, <3>4 DEF ForgetsIn
  <2> QED BY <2>6, <2>7
<1> QED BY <1>3, <1>4

\* What a call that goes on may become when another one ends.
Kept(s, t, d) ==
  \/ t.party[d] = s.party[d]
  \/ /\ s.party[d].want /\ ~t.party[d].want
     /\ ~s.local => t.party[d].state \in {"pausing", "paused"}

LEMMA ConvertTidy ==
  ASSUME NEW s \in ConfType, Orders(s),
         \A d \in Party : s.party[d].want => s.party[d].state \in {"running", "paused"},
         NEW t, t = Convert(s)
  PROVE  /\ Orders(t) \/ ForgetsIn(s, t)
         /\ \A d \in Party : Kept(s, t, d)
         /\ t \in ConfType /\ (t.local => s.local)
<1>1. CASE t = s
  BY <1>1 DEF Kept
<1>2. ASSUME NEW c \in Party, s.party[c].want, t = RemoveMember(s, c, s.local)
      PROVE  /\ Orders(t) \/ ForgetsIn(s, t)
             /\ \A d \in Party : Kept(s, t, d)
             /\ t \in ConfType /\ (t.local => s.local)
  <2>1. PICK active \in BOOLEAN : active = s.local
    BY DEF ConfType
  <2>2. s.party[c].state \in {"running", "paused"}
    BY <1>2
  <2>3. /\ Orders(t) \/ ForgetsIn(s, t)
        /\ ~t.party[c].want
        /\ ~active => t.party[c].state \in {"pausing", "paused"}
        /\ Others(s, t, c) /\ t \in ConfType
        /\ t.local => s.local
    BY <1>2, <2>1, <2>2, MemberTidy
  <2> QED BY <1>2, <2>1, <2>3 DEF Kept, Others
<1> QED BY <1>1, <1>2, Converted

\* linphone_core_conference_check_uninit() leaves neither a mixer nor a local participant
\* behind the last call.
LEMMA UninitTidy ==
  ASSUME NEW s \in ConfType, Listed(s), Plugged(s), Orders(s),
         \A d \in Party : s.party[d].want => s.party[d].state \in {"running", "paused"},
         NEW t, t = CheckUninit(s)
  PROVE  /\ Orders(t) \/ ForgetsIn(s, t)
         /\ \A d \in Party : Kept(s, t, d)
         /\ Closed(t)
         /\ t.local => s.local
         /\ s.terminated => Orders(t) /\ t.terminated
<1>0. s.lost = 0 /\ (s.local => s.mixer) /\ s.local \in BOOLEAN
  BY DEF Orders, ConfType
<1>1. CASE ~s.mixer /\ t = s
  BY <1>0, <1>1 DEF Closed, Kept
<1>2. ASSUME s.mixer, NEW v, NEW u, UninitSteps(s, t, v, u)
      PROVE  /\ Orders(t) \/ ForgetsIn(s, t)
             /\ \A d \in Party : Kept(s, t, d)
             /\ Closed(t)
             /\ t.local => s.local
             /\ s.terminated => Orders(t) /\ t.terminated
  <2>1. /\ Orders(v) \/ ForgetsIn(s, v)
        /\ \A d \in Party : Kept(s, v, d)
        /\ v \in ConfType /\ (v.local => s.local)
        /\ Leads(s, v) /\ v.list = s.list /\ v.mixer = s.mixer /\ v.lost = s.lost
        /\ v.terminated = s.terminated /\ (s.terminated => Orders(v))
    <3>1. CASE v = s
      BY <3>1, LeadsSelf DEF Kept
    <3>2. CASE v = Convert(s) /\ ~s.terminated
      BY <3>2, ConvertTidy, ConvertLeads
    <3> QED BY <1>2, <3>1, <3>2 DEF UninitSteps
  <2>2. /\ u \in ConfType /\ u.party = v.party /\ u.list = v.list /\ u.mixer = v.mixer
        /\ u.current = v.current /\ u.lost = v.lost /\ u.terminated = v.terminated
        /\ u.local = IF RemoteCount(s) = 0 THEN FALSE ELSE v.local
    <3>1. CASE RemoteCount(s) # 0
      <4>1. u = v
        BY <1>2, <3>1 DEF UninitSteps
      <4> QED BY <2>1, <3>1, <4>1
    <3>2. CASE RemoteCount(s) = 0
      <4>1. u = LeaveConference(v)
        BY <1>2, <3>2 DEF UninitSteps
      <4>2. /\ u \in ConfType /\ u.party = v.party /\ u.list = v.list /\ u.mixer = v.mixer
            /\ u.current = v.current /\ u.lost = v.lost /\ ~u.local /\ u.terminated = v.terminated
        BY <2>1, <4>1, LocalLeft
      <4>3. u.local \in BOOLEAN
        BY <4>2 DEF ConfType
      <4> QED BY <3>2, <4>2, <4>3
    <3> QED BY <3>1, <3>2
  <2>3. PICK b \in BOOLEAN : b = (ConfSize(u) # 0)
    OBVIOUS
  <2>4. /\ t \in ConfType /\ t.party = u.party /\ t.list = u.list /\ t.current = u.current
        /\ t.mixer = b /\ t.local = u.local /\ t.lost = u.lost /\ t.terminated = u.terminated
    BY <1>2, <2>2, <2>3 DEF ConfType, UninitSteps
  <2>5. Listed(u) /\ Plugged(u) /\ u.mixer
    <3>1. Listed(v) /\ Plugged(v) /\ v.mixer
      BY <1>2, <2>1 DEF Leads
    <3> QED BY <2>2, <3>1 DEF Listed, IsListed, Plugged, PluggedAt
  <2>6. u.local => b
    <3>1. ConfSize(u) = 0 => ~u.local
      BY <2>2, <2>5, SizeIs
    <3> QED BY <2>3, <3>1
  <2>7. t.local => v.local
    BY <2>2, <2>4
  <2>8. Orders(v) => Orders(t)
    <3> SUFFICES ASSUME Orders(v)  PROVE Orders(t)
      OBVIOUS
    <3>1. t.party = v.party /\ t.current = v.current /\ t.lost = v.lost
      BY <2>2, <2>4
    <3>2. Owned(t)
      BY <2>1, <2>4, <2>7, <3>1, OwnedSame DEF Orders
    <3> QED BY <2>4, <2>6, <3>1, <3>2 DEF Orders
  <2>9. ForgetsIn(s, v) => ForgetsIn(s, t)
    BY <2>2, <2>4 DEF ForgetsIn
  <2>10. \A d \in Party : Kept(s, t, d)
    BY <2>1, <2>2, <2>4 DEF Kept
  <2>11. Closed(t)
    <3> SUFFICES ASSUME t.list = <<>>  PROVE ~t.mixer /\ ~t.local
      BY DEF Closed
    <3>1. s.list = <<>> /\ DOMAIN s.list = {}
      BY <2>1, <2>2, <2>4
    <3>2. \A d \in Party : s.party[d].state \in {"none", "ended"}
      BY <3>1 DEF Listed, IsListed
    <3>3. Mixed(s) = {}
      BY <3>2 DEF Mixed, Plugged, PluggedAt, Asking, Rested
    <3>4. ConfSize(s) = IF s.local THEN 1 ELSE 0
      BY <1>0, <1>2, <3>3, SizeIs
    <3>5. RemoteCount(s) = 0
      BY <1>0, <3>4 DEF RemoteCount
    <3>6. v = s
      BY <1>2, <3>5 DEF UninitSteps
    <3>7. ~u.local /\ u.lost = 0 /\ Mixed(u) = {}
      BY <1>0, <2>2, <3>3, <3>5, <3>6 DEF Mixed
    <3>8. ConfSize(u) = 0
      BY <2>2, <2>5, <3>7, SizeIs
    <3> QED BY <2>3, <2>4, <3>7, <3>8
  <2>12. t.local => s.local
    BY <2>1, <2>7
  <2>13. t.terminated = s.terminated
    BY <2>1, <2>2, <2>4
  <2> QED BY <2>1, <2>8, <2>9, <2>10, <2>11, <2>12, <2>13
<1> QED BY <1>1, <1>2, UninitIs

LEMMA EndTidy ==
  ASSUME NEW s \in ConfType, Listed(s), Plugged(s), Orders(s), NEW c \in Party, Settled(s, c),
         NEW t, t = EndParty(s, c)
  PROVE  /\ Orders(t) \/ ForgetsIn(s, t)
         /\ t.party[c] = EndedParty
         /\ \A d \in Party \ {c} : Kept(s, t, d)
         /\ Closed(t)
         /\ t.local => s.local
         /\ s.terminated => Orders(t) /\ t.terminated
<1>1. PICK g : g = Gone(s, c)
  OBVIOUS
<1>2. /\ g \in ConfType /\ Others(s, g, c) /\ g.party[c] = EndedParty
      /\ g.mixer = s.mixer /\ g.local = s.local /\ g.lost = s.lost /\ g.terminated = s.terminated
      /\ g.current = IF s.current = c THEN NoParty ELSE s.current
      /\ Listed(g) /\ Plugged(g)
  BY <1>1, GoneIs
<1>3. Fits(g.party[c]) /\ ~Claims(g.party[c]) /\ ~g.party[c].want
  BY <1>2, EndedIs DEF Fits, Claims
<1>4. \A d \in Party : Fits(g.party[d])
  BY <1>2, <1>3 DEF Orders, Others
<1>5. Owned(g)
  <2>1. Owned(s) /\ c # NoParty
    BY ConferenceAssumption DEF Orders
  <2>2. \A d \in Party : d # c => g.party[d] = s.party[d]
    BY <1>2 DEF Others
  <2>3. \A d \in Party : Claims(g.party[d]) => d # c /\ Claims(s.party[d])
    BY <1>3, <2>2
  <2>4. \A d \in Party : s.party[d].state = "updating" /\ d # c => g.party[d].state = "updating"
    BY <2>2
  <2>5. s.current # NoParty => s.current \in Party
    BY DEF ConfType
  <2>6. g.current # NoParty
          => g.current = s.current /\ s.current # c /\ g.party[s.current] = s.party[s.current]
    BY <1>2, <2>2, <2>5
  <2>7. \A d \in Party : Claims(g.party[d]) =>
          ~g.local /\ g.current = IF g.party[d].state = "updating" THEN NoParty ELSE d
    <3> SUFFICES ASSUME NEW d \in Party, Claims(g.party[d])
                 PROVE  ~g.local /\ g.current = IF g.party[d].state = "updating" THEN NoParty ELSE d
      OBVIOUS
    <3> HIDE DEF Claims
    <3>1. d # c /\ Claims(s.party[d]) /\ g.party[d] = s.party[d]
      BY <2>2, <2>3
    <3>2. ~s.local /\ s.current = IF s.party[d].state = "updating" THEN NoParty ELSE d
      BY <2>1, <3>1 DEF Owned
    <3> QED BY <1>2, <2>1, <3>1, <3>2
  <2>8. \A d, e \in Party : Claims(g.party[d]) /\ Claims(g.party[e]) => d = e
    BY <2>1, <2>3 DEF Owned
  <2>9. ASSUME g.current # NoParty, ~Claims(g.party[g.current])
        PROVE  /\ g.party[g.current].state = "incoming" /\ ~g.local
               /\ \A d \in Party : ~Claims(g.party[d])
    <3> HIDE DEF Claims
    <3>1. ~Claims(s.party[s.current]) /\ s.current # NoParty
      BY <2>6, <2>9
    <3>2. /\ s.party[s.current].state = "incoming" /\ ~s.local
          /\ \A d \in Party : ~Claims(s.party[d])
      BY <2>1, <3>1 DEF Owned
    <3> QED BY <1>2, <2>3, <2>6, <2>9, <3>2
  <2> HIDE DEF Claims
  <2> QED BY <2>7, <2>8, <2>9 DEF Owned
<1>6. Orders(g)
  BY <1>2, <1>4, <1>5 DEF Orders
<1>7. \A d \in Party : g.party[d].want => g.party[d].state \in {"running", "paused"}
  BY <1>2, <1>3 DEF Settled, Others
<1>8. t = CheckUninit(g)
  BY <1>1, EndIs
<1>9. /\ Orders(t) \/ ForgetsIn(g, t)
      /\ \A d \in Party : Kept(g, t, d)
      /\ Closed(t)
      /\ t.local => g.local
      /\ g.terminated => Orders(t) /\ t.terminated
  BY <1>2, <1>6, <1>7, <1>8, UninitTidy
<1>10. ForgetsIn(g, t) => ForgetsIn(s, t)
  <2> SUFFICES ASSUME ForgetsIn(g, t)  PROVE ForgetsIn(s, t)
    OBVIOUS
  <2>1. g.current # NoParty /\ t.current = NoParty /\ t.party[g.current] = g.party[g.current]
    BY DEF ForgetsIn
  <2>2. g.current = s.current /\ s.current # c /\ s.current \in Party
    BY <1>2, <2>1 DEF ConfType
  <2> QED BY <1>2, <2>1, <2>2 DEF ForgetsIn, Others
<1>11. t.party[c] = EndedParty
  BY <1>2, <1>3, <1>9 DEF Kept
<1>12. \A d \in Party \ {c} : Kept(s, t, d)
  BY <1>2, <1>9 DEF Kept, Others
<1> QED BY <1>2, <1>9, <1>10, <1>11, <1>12

\* Nobody has the sound card, and nobody is to have it.
Vacant(s) ==
  /\ \A d \in Party : Fits(s.party[d]) /\ ~Claims(s.party[d])
  /\ s.lost = 0 /\ ~s.local

\* Only a call that runs claims the sound card.
Quiet(s) == \A d \in Party : Claims(s.party[d]) => s.party[d].state = "running"

\* linphone_core_preempt_sound_resources(): afterwards the sound card is free.
LEMMA PreemptTidy ==
  ASSUME NEW s \in ConfType, Orders(s), Quiet(s), NEW t, t = PreemptSound(s)
  PROVE  /\ t \in ConfType /\ Vacant(t) /\ t.list = s.list /\ t.mixer = s.mixer
         /\ \A d \in Party : t.party[d] = s.party[d] \/ s.party[d].state = "running"
<1>0. s.lost = 0 /\ Owned(s) /\ \A d \in Party : Fits(s.party[d])
  BY DEF Orders
<1>1. CASE s.local /\ t = LeaveConference(s)
  <2>1. /\ t \in ConfType /\ t.party = s.party /\ t.list = s.list /\ t.mixer = s.mixer
        /\ ~t.local /\ t.lost = s.lost
    BY <1>1, LocalLeft
  <2>2. \A d \in Party : ~Claims(s.party[d])
    BY <1>0, <1>1 DEF Owned
  <2> QED BY <1>0, <2>1, <2>2 DEF Vacant
<1>2. CASE ~s.local /\ s.current \in Party /\ t = PauseParty(s, s.current)
  <2>1. /\ t \in ConfType /\ SameConf(s, t) /\ Others(s, t, s.current)
        /\ s.party[s.current].state \notin {"running", "held"} => t = s
        /\ s.party[s.current].state \in {"running", "held"} =>
             Pauses(s.party[s.current], t.party[s.current])
    BY <1>2, PartyPaused
  <2>2. s.current # NoParty
    BY <1>2, ConferenceAssumption
  <2>3. CASE Claims(s.party[s.current])
    <3>1. s.party[s.current].state = "running"
      BY <1>2, <2>3 DEF Quiet
    <3>2. Pauses(s.party[s.current], t.party[s.current])
      BY <2>1, <3>1
    <3>3. Fits(t.party[s.current]) /\ ~Claims(t.party[s.current])
      BY <3>2 DEF Fits, Claims, Pauses
    <3>4. \A d \in Party \ {s.current} : ~Claims(s.party[d])
      BY <1>0, <1>2, <2>3 DEF Owned
    <3>5. \A d \in Party : Fits(t.party[d]) /\ ~Claims(t.party[d])
      <4> HIDE DEF Claims, Fits
      <4> QED BY <1>0, <2>1, <3>3, <3>4 DEF Others
    <3> QED BY <1>0, <1>2, <2>1, <3>1, <3>5 DEF Vacant, SameConf, Others
  <2>4. CASE ~Claims(s.party[s.current])
    <3>1. s.party[s.current].state = "incoming" /\ \A d \in Party : ~Claims(s.party[d])
      BY <1>0, <2>2, <2>4 DEF Owned
    <3>2. t = s
      BY <2>1, <3>1
    <3> QED BY <1>0, <1>2, <3>1, <3>2 DEF Vacant
  <2> QED BY <2>3, <2>4
<1>3. CASE ~s.local /\ s.current = NoParty /\ t = s
  <2>1. ASSUME NEW d \in Party, Claims(s.party[d])  PROVE FALSE
    <3>1. s.party[d].state = "running"
      BY <2>1 DEF Quiet
    <3>2. s.current = d
      BY <1>0, <2>1, <3>1 DEF Owned
    <3> QED BY <1>3, <3>2, ConferenceAssumption
  <2> QED BY <1>0, <1>3, <2>1 DEF Vacant
<1> QED BY <1>1, <1>2, <1>3, PreemptedIs

\* A call takes the sound card that nobody has.
LEMMA TakenOver ==
  ASSUME NEW s \in ConfType, Vacant(s), NEW t \in ConfType, NEW c \in Party, Others(s, t, c),
         Fits(t.party[c]), Claims(t.party[c]), t.party[c].state # "updating",
         t.local = s.local, t.lost = s.lost, t.current = c
  PROVE  Orders(t)
<1>1. \A d \in Party : Fits(t.party[d])
  BY DEF Vacant, Others
<1>2. \A d \in Party \ {c} : ~Claims(t.party[d])
  <2> HIDE DEF Claims
  <2> QED BY DEF Vacant, Others
<1>3. ~t.local /\ t.lost = 0
  BY DEF Vacant
<1>4. Owned(t)
  BY <1>2, <1>3, OwnedBy
<1> QED BY <1>1, <1>3, <1>4 DEF Orders

\* A call that is in no state to claim the sound card goes on.
LEMMA OneTidy ==
  ASSUME NEW s \in ConfType, Orders(s), NEW t \in ConfType, NEW c \in Party, Others(s, t, c),
         Fits(t.party[c]), ~Claims(s.party[c]), ~Claims(t.party[c]),
         s.party[c].state # "incoming", t.current = s.current, t.local => s.local,
         s.mixer => t.mixer, t.lost = s.lost
  PROVE  Orders(t)
<1>1. \A d \in Party : Fits(t.party[d])
  BY DEF Orders, Others
<1>2. Owned(s) /\ (s.local => s.mixer) /\ s.lost = 0
  BY DEF Orders
<1>3. \A d \in Party : \/ t.party[d] = s.party[d]
                       \/ /\ ~Claims(s.party[d]) /\ ~Claims(t.party[d])
                          /\ s.party[d].state # "incoming"
  BY DEF Others
<1>4. Owned(t)
  BY <1>2, <1>3, OwnedSame
<1> QED BY <1>1, <1>2, <1>4 DEF Orders

\* linphone_core_resume_call()
LEMMA ResumeTidy ==
  ASSUME NEW s \in ConfType, Orders(s), Quiet(s), NEW c \in Party, NEW t, t = ResumeParty(s, c)
  PROVE  Orders(t) /\ t.list = s.list
<1>1. CASE t = s
  BY <1>1
<1>2. PICK new \in PartyState : new = "resuming"
  BY DEF PartyState
<1>3. CASE s.party[c].state = "paused" /\ s.party[c].want /\ t = Enters(s, c, "resuming")
  <2>1. /\ t \in ConfType /\ SameConf(s, t) /\ Others(s, t, c) /\ t.current = s.current
        /\ Moves(s.party[c], t.party[c], new)
    BY <1>2, <1>3, EntersIs
  <2>2. Fits(s.party[c])
    BY DEF Orders
  <2>3. Fits(t.party[c]) /\ ~Claims(t.party[c]) /\ ~Claims(s.party[c])
    BY <1>2, <1>3, <2>1, <2>2 DEF Fits, Claims, Moves
  <2> QED BY <1>3, <2>1, <2>3, OneTidy DEF SameConf
<1>4. CASE s.party[c].state = "paused" /\ ~s.party[c].want
           /\ t = [Enters(PreemptSound(s), c, "resuming") EXCEPT !.current = c]
  <2>1. PICK u : u = PreemptSound(s)
    OBVIOUS
  <2>2. u \in ConfType /\ Vacant(u) /\ u.party[c] = s.party[c] /\ u.list = s.list
    BY <1>4, <2>1, PreemptTidy
  <2>3. PICK v : v = Enters(u, c, new)
    OBVIOUS
  <2>4. /\ v \in ConfType /\ SameConf(u, v) /\ Others(u, v, c)
        /\ Moves(u.party[c], v.party[c], new)
    BY <2>2, <2>3, EntersIs
  <2>5. PICK k \in Party \cup {NoParty} : k = c
    OBVIOUS
  <2>6. t = [v EXCEPT !.current = k]
    BY <1>2, <1>4, <2>1, <2>3, <2>5
  <2>7. t \in ConfType /\ SameConf(v, t) /\ t.party = v.party /\ t.current = k
    BY <2>4, <2>6, CurrentSet
  <2>8. Fits(s.party[c])
    BY DEF Orders
  <2>9. /\ Fits(t.party[c]) /\ Claims(t.party[c]) /\ t.party[c].state = "resuming"
    BY <1>2, <1>4, <2>2, <2>4, <2>7, <2>8 DEF Fits, Claims, Moves
  <2>10. Others(u, t, c) /\ t.local = u.local /\ t.lost = u.lost /\ t.list = s.list
    BY <2>2, <2>4, <2>7 DEF Others, SameConf
  <2> QED BY <2>2, <2>5, <2>7, <2>9, <2>10, TakenOver
<1> QED BY <1>1, <1>3, <1>4, ResumedIs

\* Besides, the current call has the sound card.
Joins(s) == Quiet(s) /\ (s.current # NoParty => Claims(s.party[s.current]))

\* linphone_core_add_to_conference()
LEMMA AddTidy ==
  ASSUME NEW s \in ConfType, Orders(s), NEW c \in Party, NEW t, t = AddParty(s, c)
  PROVE  t \in ConfType /\ Orders(t) /\ t.list = s.list /\ (Joins(s) => Joins(t))
<1>0. Fits(s.party[c]) /\ s.lost = 0 /\ Owned(s) /\ (s.local => s.mixer)
      /\ \A d \in Party : Fits(s.party[d])
  BY DEF Orders
<1>1. PICK u : u = ConfInitialized(s)
  OBVIOUS
<1>2. /\ u \in ConfType /\ u.party = s.party /\ u.current = s.current /\ u.list = s.list
      /\ u.mixer /\ u.local = s.local /\ u.lost = s.lost
  BY <1>1, MixerMade
<1>3. Orders(u)
  <2>1. Owned(u)
    BY <1>0, <1>2, OwnedSame
  <2> QED BY <1>0, <1>2, <2>1 DEF Orders
<1>4. CASE t = s
  BY <1>4
<1>5. CASE t = u
  BY <1>2, <1>3, <1>5 DEF Joins, Quiet
<1>6. CASE ~s.party[c].cur /\ s.party[c].state = "paused" /\ t = ResumeParty(WithWish(u, c, TRUE), c)
  <2>1. PICK yes \in BOOLEAN : yes = TRUE
    OBVIOUS
  <2>2. PICK v : v = WithWish(u, c, yes)
    OBVIOUS
  <2>3. /\ v \in ConfType /\ SameConf(u, v) /\ Others(u, v, c) /\ v.current = u.current
        /\ Wishes(u.party[c], v.party[c], yes)
    BY <1>2, <2>2, WishSet
  <2>4. t = ResumeParty(v, c)
    BY <1>6, <2>1, <2>2
  <2>5. v.party[c].want /\ v.party[c].state = "paused"
    BY <1>2, <1>6, <2>1, <2>3 DEF Wishes
  <2>6. PICK new \in PartyState : new = "resuming"
    BY DEF PartyState
  <2>7. t = Enters(v, c, new)
    BY <2>3, <2>4, <2>5, <2>6, ResumedIs
  <2>8. /\ t \in ConfType /\ SameConf(v, t) /\ Others(v, t, c) /\ t.current = v.current
        /\ Moves(v.party[c], t.party[c], new)
    BY <2>3, <2>7, EntersIs
  <2>9. Others(u, t, c) /\ SameConf(u, t) /\ t.current = u.current
    BY <2>3, <2>8 DEF Others, SameConf
  <2>10. Fits(t.party[c]) /\ ~Claims(t.party[c]) /\ ~Claims(u.party[c]) /\ u.party[c].state # "incoming"
    BY ZenonT(60), <1>0, <1>2, <1>6, <2>1, <2>3, <2>6, <2>8 DEF Fits, Claims, Moves, Wishes
  <2>11. Orders(t)
    BY <1>2, <1>3, <2>8, <2>9, <2>10, OneTidy DEF SameConf
  <2>12. Joins(s) => Joins(t)
    <3> SUFFICES ASSUME Joins(s)  PROVE Joins(t)
      OBVIOUS
    <3>1. ~Claims(s.party[c]) /\ t.current = s.current /\ \A d \in Party : d # c => t.party[d] = s.party[d]
      BY <1>2, <2>9, <2>10 DEF Others
    <3> HIDE DEF Claims
    <3>2. Quiet(t)
      BY <2>10, <3>1 DEF Joins, Quiet
    <3>3. t.current # NoParty => t.current # c /\ t.current \in Party
      BY <3>1 DEF Joins, ConfType
    <3> QED BY <3>1, <3>2, <3>3 DEF Joins
  <2> QED BY <1>2, <2>8, <2>9, <2>11, <2>12 DEF SameConf
<1>7. CASE /\ ~s.party[c].cur /\ s.party[c].state = "running"
           /\ t = AddLocal(UpdateParty([Silenced(u, c) EXCEPT
                             !.current = IF u.current = c THEN NoParty ELSE u.current], c, TRUE))
  <2>1. Claims(s.party[c])
    BY <1>0, <1>7 DEF Claims, Fits
  <2>2. u.current = c /\ ~u.local /\ \A d \in Party \ {c} : ~Claims(u.party[d])
    <3> HIDE DEF Claims
    <3> QED BY <1>0, <1>2, <1>7, <2>1 DEF Owned
  <2>3. PICK v : v = Silenced(u, c)
    OBVIOUS
  <2>4. /\ v \in ConfType /\ SameConf(u, v) /\ Others(u, v, c) /\ v.current = u.current
        /\ v.party[c] = [u.party[c] EXCEPT !.media = "off"]
    BY <1>2, <2>3, SilencedIs
  <2>5. PICK k \in Party \cup {NoParty} : k = NoParty
    OBVIOUS
  <2>6. PICK w : w = [v EXCEPT !.current = k]
    OBVIOUS
  <2>7. w \in ConfType /\ SameConf(v, w) /\ w.party = v.party /\ w.current = NoParty
    BY <2>4, <2>5, <2>6, CurrentSet
  <2>8. PICK yes \in BOOLEAN : yes = TRUE
    OBVIOUS
  <2>9. PICK x : x = UpdateParty(w, c, yes)
    OBVIOUS
  <2>10. /\ w.party[c].state = "running" /\ w.party[c].media = "off"
         /\ w.party[c].cur = s.party[c].cur
    <3>1. PICK y \in PartyType : y = u.party[c]
      BY <1>2 DEF ConfType
    <3> QED BY <1>2, <1>7, <2>4, <2>7, <3>1 DEF PartyType
  <2>11. /\ x \in ConfType /\ SameConf(w, x) /\ Others(w, x, c) /\ x.current = NoParty
         /\ Updates(w.party[c], x.party[c], yes)
    BY <2>7, <2>9, <2>10, PartyUpdated
  <2>12. t = AddLocal(x)
    BY <1>7, <2>2, <2>3, <2>5, <2>6, <2>8, <2>9
  <2>13. ~x.local /\ x.mixer /\ x.lost = 0 /\ x.list = s.list
    BY <1>0, <1>2, <2>2, <2>4, <2>7, <2>11 DEF SameConf
  <2>14. /\ t \in ConfType /\ t.party = x.party /\ t.current = NoParty /\ t.list = s.list
         /\ t.mixer /\ t.lost = 0
    BY <2>11, <2>12, <2>13, LocalAdded
  <2>15. Fits(t.party[c]) /\ ~Claims(t.party[c])
    BY <1>7, <2>8, <2>10, <2>11, <2>14 DEF Fits, Claims, Updates
  <2>16. \A d \in Party \ {c} : t.party[d] = u.party[d]
    BY <2>4, <2>7, <2>11, <2>14 DEF Others
  <2>17. \A d \in Party : ~Claims(t.party[d]) /\ Fits(t.party[d])
    <3> HIDE DEF Claims, Fits
    <3> QED BY <1>0, <1>2, <2>2, <2>15, <2>16
  <2>18. Owned(t)
    BY <2>14, <2>17, OwnedNone
  <2>19. Joins(t)
    BY <2>14, <2>17 DEF Joins, Quiet
  <2> QED BY <2>14, <2>17, <2>18, <2>19 DEF Orders
<1> QED BY <1>1, <1>4, <1>5, <1>6, <1>7, AddedIs

\* linphone_core_enter_conference()
LEMMA EnterTidy ==
  ASSUME NEW s \in ConfType, Orders(s), Joins(s), NEW t, t = EnterConference(s), t.mixer
  PROVE  Orders(t) /\ t.list = s.list
<1>0. s.lost = 0 /\ Owned(s) /\ \A d \in Party : Fits(s.party[d])
  BY DEF Orders
<1>1. PICK p : p = IF s.current # NoParty THEN PauseParty(s, s.current) ELSE s
  OBVIOUS
<1>2. t = s \/ (s.local /\ t = p) \/ (~s.local /\ t = AddLocal(p))
  BY <1>1 DEF EnterConference
<1>3. CASE s.local
  <2>1. \A d \in Party : ~Claims(s.party[d])
    BY <1>0, <1>3 DEF Owned
  <2>2. s.current = NoParty
    BY <2>1 DEF Joins, ConfType
  <2> QED BY <1>1, <1>2, <1>3, <2>2
<1>4. CASE ~s.local
  <2>1. /\ p \in ConfType /\ p.list = s.list /\ p.lost = 0 /\ ~p.local /\ p.current = NoParty
        /\ \A d \in Party : Fits(p.party[d]) /\ ~Claims(p.party[d])
    <3>1. CASE s.current = NoParty
      <4>1. ASSUME NEW d \in Party, Claims(s.party[d])  PROVE FALSE
        <5>1. s.party[d].state = "running"
          BY <4>1 DEF Joins, Quiet
        <5> QED BY <1>0, <3>1, <4>1, <5>1, ConferenceAssumption DEF Owned
      <4> QED BY <1>0, <1>1, <1>4, <3>1, <4>1
    <3>2. CASE s.current # NoParty
      <4>1. s.current \in Party /\ Claims(s.party[s.current])
        BY <3>2 DEF Joins, ConfType
      <4>2. s.party[s.current].state = "running"
        BY <4>1 DEF Joins, Quiet
      <4>3. /\ p \in ConfType /\ SameConf(s, p) /\ Others(s, p, s.current) /\ p.current = NoParty
            /\ Pauses(s.party[s.current], p.party[s.current])
        BY <1>1, <3>2, <4>1, <4>2, PartyPaused
      <4>4. Fits(p.party[s.current]) /\ ~Claims(p.party[s.current])
        BY <4>3 DEF Fits, Claims, Pauses
      <4>5. \A d \in Party \ {s.current} : ~Claims(s.party[d])
        BY <1>0, <4>1 DEF Owned
      <4>6. \A d \in Party : Fits(p.party[d]) /\ ~Claims(p.party[d])
        <5> HIDE DEF Claims, Fits
        <5> QED BY <1>0, <4>3, <4>4, <4>5 DEF Others
      <4> QED BY <1>0, <1>4, <4>3, <4>6 DEF SameConf
    <3> QED BY <3>1, <3>2
  <2>2. CASE t = s
    BY <2>2
  <2>3. CASE t = AddLocal(p)
    <3>1. /\ t.party = p.party /\ t.current = p.current /\ t.list = p.list /\ t.lost = p.lost
      BY <2>1, <2>3, LocalAdded
    <3>2. Owned(t)
      BY <2>1, <3>1, OwnedNone
    <3> QED BY <2>1, <3>1, <3>2 DEF Orders
  <2> QED BY <1>2, <1>4, <2>2, <2>3
<1> QED BY <1>3, <1>4 DEF ConfType

\* _linphone_core_pause_call()
LEMMA PauseTidy ==
  ASSUME NEW s \in ConfType, Orders(s), NEW c \in Party, s.party[c].state = "running",
         NEW t, t = PauseParty(s, c)
  PROVE  (Orders(t) \/ ForgetsIn(s, t)) /\ t.list = s.list
<1>0. /\ s.lost = 0 /\ Owned(s) /\ (s.local => s.mixer) /\ \A d \in Party : Fits(s.party[d])
  BY DEF Orders
<1>1. /\ t \in ConfType /\ SameConf(s, t) /\ Others(s, t, c) /\ t.current = NoParty
      /\ Pauses(s.party[c], t.party[c])
  BY PartyPaused
<1>2. Fits(t.party[c]) /\ ~Claims(t.party[c])
  BY <1>1 DEF Fits, Claims, Pauses
<1>3. CASE Claims(s.party[c])
  <2>1. \A d \in Party \ {c} : ~Claims(s.party[d])
    BY <1>0, <1>3 DEF Owned
  <2>2. \A d \in Party : ~Claims(t.party[d]) /\ Fits(t.party[d])
    <3> HIDE DEF Claims, Fits
    <3> QED BY <1>0, <1>1, <1>2, <2>1 DEF Others
  <2>3. Owned(t)
    BY <1>1, <2>2, OwnedNone
  <2> QED BY <1>0, <1>1, <2>2, <2>3 DEF Orders, SameConf
<1>4. CASE ~Claims(s.party[c])
  <2>1. CASE s.current = NoParty
    BY <1>1, <1>2, <1>4, <2>1, OneTidy DEF SameConf
  <2>2. CASE s.current # NoParty
    <3>1. s.current # c
      BY <1>0, <1>4, <2>2 DEF Owned
    <3>2. t.party[s.current] = s.party[s.current]
      BY <1>1, <2>2, <3>1 DEF Others, ConfType
    <3> QED BY <1>1, <2>2, <3>2 DEF ForgetsIn, SameConf
  <2> QED BY <2>1, <2>2
<1> QED BY <1>3, <1>4

\* What one call of the list is done to shows at the end of the list.
LEMMA EndedOnce ==
  ASSUME NEW A, NEW s \in A, NEW l \in Seq(Party),
         \A t \in A, c \in Party : EndPlaced(t, c) \in A,
         NEW Q, NEW j \in DOMAIN l, \A t \in A : EndPlaced(t, l[j]) \in Q,
         \A t \in Q, c \in Party : EndPlaced(t, c) \in Q
  PROVE  FoldLeft(EndPlaced, s, l) \in Q
<1>1. PICK n \in Nat : n = Len(l) /\ DOMAIN l = 1..n /\ \A i \in 1..n : l[i] \in Party
  OBVIOUS
<1> DEFINE Is(f) == f = [T \in SUBSET (DOMAIN l) |-> IF T = {} THEN s
                           ELSE EndPlaced(f[T \ {Max(T)}], l[Max(T)])]
           h == [i \in 1..n |-> [t \in A |-> EndPlaced(t, l[i])]]
<1>2. PICK J \in [SUBSET (1..n) -> A] : FoldEquation(J, n, s, h)
  <2>1. h \in Steps(n, A)
    BY <1>1 DEF Steps
  <2> HIDE DEF h
  <2> QED BY <2>1, FoldExists
<1>3. Is(J)
  <2>1. \A T \in SUBSET (1..n) : T # {} =>
          h[Max(T)][J[T \ {Max(T)}]] = EndPlaced(J[T \ {Max(T)}], l[Max(T)])
    BY MaxIs
  <2> QED BY <1>1, <1>2, <2>1 DEF FoldEquation
<1>4. PICK f : f = (CHOOSE e : Is(e)) /\ Is(f)
  BY <1>3
<1>5. FoldLeft(EndPlaced, s, l) = f[DOMAIN l]
  BY <1>4 DEF FoldLeft, MapThenFoldSet
<1> DEFINE B == {i \in 0..n : f[1..i] \in A /\ (j <= i => f[1..i] \in Q)}
<1>6. 0 \in B
  <2>1. 1..0 = {} /\ {} \in SUBSET (DOMAIN l)
    OBVIOUS
  <2>2. f[{}] = s
    BY <1>4, <2>1
  <2>3. ~(j <= 0)
    BY <1>1
  <2> QED BY <2>1, <2>2, <2>3
<1>7. ASSUME NEW i \in 1..n, i - 1 \in B  PROVE i \in B
  <2>0. i \in Nat /\ i >= 1 /\ i <= n /\ i \in 1..i /\ i - 1 \in 0..n
    BY <1>1
  <2>6. 1..i \subseteq 1..n
    BY <1>1, <2>0
  <2>7. (1..i) \ {i} = 1..(i - 1)
    BY <2>0
  <2>1. 1..i \in SUBSET (DOMAIN l) /\ 1..i # {} /\ (1..i) \ {i} = 1..(i - 1) /\ 1..i \subseteq 1..n
    BY <1>1, <2>0, <2>6, <2>7
  <2>2. Max(1..i) = i
    <3>1. Max(1..i) \in 1..i /\ \A k \in 1..i : k <= Max(1..i)
      BY <2>1, MaxIs
    <3> QED BY <2>0, <3>1
  <2>3. f[1..i] = EndPlaced(f[(1..i) \ {Max(1..i)}], l[Max(1..i)])
    BY <1>4, <2>1
  <2>4. f[1..i] = EndPlaced(f[1..(i - 1)], l[i])
    BY <2>1, <2>2, <2>3
  <2>5. f[1..i] \in A
    BY <1>1, <1>7, <2>0, <2>4
  <2>8. ASSUME j <= i  PROVE f[1..i] \in Q
    <3>1. CASE j = i
      BY <1>7, <2>4, <3>1
    <3>2. CASE j # i
      <4>1. j <= i - 1
        BY <1>1, <2>0, <2>8, <3>2
      <4> QED BY <1>1, <1>7, <2>0, <2>4, <4>1
    <3> QED BY <3>1, <3>2
  <2> QED BY <2>0, <2>5, <2>8
<1>8. \A i \in 0..n : i \in B
  <2> HIDE DEF B
  <2> QED BY <1>6, <1>7, Counting
<1> QED BY <1>1, <1>5, <1>8

\* linphone_core_remove_from_conference()
LEMMA RemoveTidy ==
  ASSUME NEW s \in ConfType, Orders(s), \A d \in Party : s.party[d].state \notin Asking,
         NEW c \in Party, s.party[c].cur, NEW t, t = RemoveParty(s, c)
  PROVE  /\ Orders(t) \/ ForgetsIn(s, t)
         /\ t.list = s.list /\ t.mixer = s.mixer /\ (t.local => s.local)
<1>0. /\ Owned(s) /\ \A d \in Party : Fits(s.party[d])
  BY DEF Orders
<1>1. PICK no \in BOOLEAN : no = FALSE
  OBVIOUS
<1>2. PICK r : r = RemoveMember(s, c, no)
  OBVIOUS
<1>3. s.party[c].state \in {"running", "paused"} /\ (s.party[c].state = "running" => s.party[c].want)
  <2>1. s.party[c].state \in PartyState
    BY DEF ConfType, PartyType
  <2> QED BY <1>0, <2>1 DEF Fits, Asking, PartyState
<1>4. CASE s.party[c].state = "paused"
  <2>1. t = r
    BY <1>1, <1>2, <1>4 DEF RemoveParty
  <2>2. OutOf(s, t, c) /\ t.local = s.local /\ t.current = s.current /\ Drops(s.party[c], t.party[c])
    BY ZenonT(60), <1>1, <1>2, <1>4, <2>1, MemberPaused
  <2>3. Fits(t.party[c]) /\ ~Claims(t.party[c]) /\ ~Claims(s.party[c])
    BY <1>0, <1>4, <2>2 DEF Fits, Claims, Drops
  <2> QED BY <1>4, <2>2, <2>3, OneTidy DEF OutOf
<1>5. CASE s.party[c].state = "running"
  <2>1. t = Convert(r)
    BY <1>1, <1>2, <1>5 DEF RemoveParty
  <2>2. /\ Orders(r) \/ ForgetsIn(s, r)
        /\ ~r.party[c].want
        /\ r.list = s.list /\ r.mixer = s.mixer /\ Others(s, r, c) /\ r \in ConfType
        /\ r.local => s.local
    BY <1>1, <1>2, <1>3, <1>5, MemberTidy
  <2>3. r.current = NoParty
    BY <1>1, <1>2, <1>5, MemberPaused
  <2>4. \A d \in Party : r.party[d].want => r.party[d].state \in {"running", "paused"}
    <3> SUFFICES ASSUME NEW d \in Party, r.party[d].want  PROVE r.party[d].state \in {"running", "paused"}
      OBVIOUS
    <3>1. r.party[d] = s.party[d]
      BY <2>2 DEF Others
    <3>2. s.party[d].state \in PartyState
      BY DEF ConfType, PartyType
    <3> QED BY <1>0, <3>1, <3>2 DEF Fits, Asking, PartyState
  <2>5. /\ t \in ConfType /\ t.list = r.list /\ t.mixer = r.mixer
    BY <2>1, <2>2, ConvertLeads DEF Leads
  <2>6. CASE Orders(r)
    <3>1. /\ Orders(t) \/ ForgetsIn(r, t)
          /\ t.local => r.local
      BY <2>1, <2>2, <2>4, <2>6, ConvertTidy
    <3> QED BY <2>2, <2>3, <2>5, <3>1 DEF ForgetsIn
  <2>7. CASE ForgetsIn(s, r)
    <3>1. s.current # NoParty /\ s.current \in Party /\ r.party[s.current] = s.party[s.current]
      BY <2>7 DEF ForgetsIn, ConfType
    <3>2. ~s.party[s.current].want
      BY <1>0, <3>1 DEF Owned, Fits, Claims
    <3>3. t.current = NoParty /\ t.party[s.current] = r.party[s.current] /\ (t.local => r.local)
      <4>1. CASE t = r
        BY <2>3, <4>1
      <4>2. ASSUME NEW e \in Party, r.party[e].want, t = RemoveMember(r, e, r.local)
            PROVE  t.current = NoParty /\ t.party[s.current] = r.party[s.current] /\ (t.local => r.local)
        <5>1. e # s.current
          BY <3>1, <3>2, <4>2
        <5>2. PICK active \in BOOLEAN : active = r.local
          BY <2>2 DEF ConfType
        <5>3. OutOf(r, t, e)
          BY <2>2, <4>2, <5>2, MemberOut
        <5>4. r.party[e].cur \/ t = r
          BY <2>2, <4>2, <5>2, MemberOut
        <5>5. t.current = NoParty /\ (t.local => r.local)
          <6>1. CASE t = r
            BY <2>3, <6>1
          <6>2. CASE r.party[e].cur /\ active
            <7>1. t = RemoveMember(r, e, TRUE)
              BY <4>2, <5>2, <6>2
            <7>2. ~t.local /\ t.current = r.current
              BY <2>2, <6>2, <7>1, MemberUpdated
            <7> QED BY <2>3, <7>2
          <6>3. CASE r.party[e].cur /\ ~active
            <7>1. t = RemoveMember(r, e, FALSE)
              BY <4>2, <5>2, <6>3
            <7>2. t.local = r.local /\ (t.current = NoParty \/ t.current = r.current)
              <8>2. r \in ConfType /\ r.party[e].cur
                BY <2>2, <6>3
              <8>1. /\ OutOf(r, t, e) /\ t.local = r.local
                    /\ r.party[e].state \in {"running", "held"} =>
                         t.current = NoParty /\ PausesOut(r.party[e], t.party[e])
                    /\ r.party[e].state \notin {"running", "held"} =>
                         t.current = r.current /\ Drops(r.party[e], t.party[e])
                BY <7>1, <8>2, MemberPaused
              <8> QED BY <8>1
            <7> QED BY <2>3, <7>2
          <6> QED BY <5>4, <6>1, <6>2, <6>3
        <5> QED BY <3>1, <5>1, <5>3, <5>5 DEF OutOf, Others
      <4> QED BY <2>1, <2>2, <4>1, <4>2, Converted
    <3> QED BY <2>2, <2>5, <3>1, <3>3 DEF ForgetsIn
  <2> QED BY <2>2, <2>6, <2>7
<1> QED BY <1>3, <1>4, <1>5

\* A stream that is started when the request is answered.
LEMMA AnswerStarts ==
  ASSUME NEW s \in ConfType, NEW c \in Party, NEW dir \in Direction, NEW new \in PartyState,
         s.party[c].media = "off" \/ s.party[c].dir # dir \/ s.party[c].want # s.party[c].cur,
         NEW u, u = RestartAudio(s, c, dir), NEW t, t = Enters(u, c, new)
  PROVE  /\ u \in ConfType /\ u.party[c].cur = s.party[c].want
         /\ t \in ConfType /\ SameConf(s, t) /\ Others(s, t, c) /\ t.current = s.current
         /\ t.party[c].state = new /\ t.party[c].want = s.party[c].want
         /\ t.party[c].cur = s.party[c].want /\ t.party[c].dir = dir
         /\ s.party[c].want => t.party[c].media = "mixed"
         /\ ~s.party[c].want /\ dir # "sendrecv" => t.party[c].media = "dry"
         /\ ~s.party[c].want /\ dir = "sendrecv" /\ ~s.local /\ s.current \in {NoParty, c}
              => t.party[c].media = "sound"
<1>1. /\ u \in ConfType /\ SameConf(s, u) /\ Others(s, u, c) /\ u.current = s.current
      /\ \/ /\ u = s /\ s.party[c].media # "off" /\ s.party[c].dir = dir
            /\ s.party[c].want = s.party[c].cur
         \/ Starts(s.party[c], u.party[c], NewMedia(s, c, dir), dir)
  BY AudioRestarted
<1>2. Starts(s.party[c], u.party[c], NewMedia(s, c, dir), dir)
  BY <1>1
<1>3. /\ t \in ConfType /\ SameConf(u, t) /\ Others(u, t, c) /\ t.current = u.current
      /\ Moves(u.party[c], t.party[c], new)
  BY <1>1, EntersIs
<1>4. t.party[c].media = NewMedia(s, c, dir)
  BY <1>2, <1>3 DEF Starts, Moves
<1>5. /\ s.party[c].want => NewMedia(s, c, dir) = "mixed"
      /\ ~s.party[c].want /\ dir # "sendrecv" => NewMedia(s, c, dir) = "dry"
      /\ ~s.party[c].want /\ dir = "sendrecv" /\ ~s.local /\ s.current \in {NoParty, c}
           => NewMedia(s, c, dir) = "sound"
  BY NewMediaIs
<1>6. SameConf(s, t) /\ Others(s, t, c)
  BY <1>1, <1>3 DEF SameConf, Others
<1>7. /\ u.party[c].cur = s.party[c].want /\ t.party[c].state = new /\ t.party[c].want = s.party[c].want
      /\ t.party[c].cur = s.party[c].want /\ t.party[c].dir = dir
  BY <1>2, <1>3 DEF Starts, Moves
<1> QED BY <1>1, <1>3, <1>4, <1>5, <1>6, <1>7

\* What holds without faults of the environment.
Tidy(s) == Orders(s) /\ Closed(s)

\* The user waits for the answers.
Waits(s) ==
  \A d \in Party : s.party[d].state \notin Asking

LEMMA CalmWaits ==
  ASSUME conf.faults = {}, Calm
  PROVE  Waits(conf)
BY DEF Calm, Fault, Waits

\* The list of a call that goes on is not empty.
LEMMA ListedThere ==
  ASSUME NEW s, Listed(s), NEW c \in Party, s.party[c].state \notin {"none", "ended"}
  PROVE  s.list # <<>>
<1>1. PICK i \in DOMAIN s.list : s.list[i] = c
  BY DEF Listed, IsListed
<1>2. DOMAIN <<>> = {}
  OBVIOUS
<1> QED BY <1>1, <1>2

LEMMA PartyCallsTidy ==
  ASSUME Wired(conf, conf.faults), Tidy(conf), NEW c \in Party, PartyCalls(c)
  PROVE  Tidy(conf')
<1>0. /\ conf \in ConfType /\ conf.party[c].state = "none" /\ Listed(conf) /\ Owned(conf)
      /\ conf.lost = 0 /\ (conf.local => conf.mixer) /\ \A d \in Party : Fits(conf.party[d])
  BY DEF Wired, PartyCalls, InState, Tidy, Orders
<1>2. PICK k \in Party \cup {NoParty} : k = IF conf.list = <<>> THEN c ELSE conf.current
  BY <1>0 DEF ConfType
<1>3. PICK new \in {"incoming", "outgoing"} : new = "incoming"
  OBVIOUS
<1>4. PICK u : u = Enters(conf, c, new)
  OBVIOUS
<1>5. new \in PartyState
  BY DEF PartyState
<1>6. u \in ConfType /\ u.list = conf.list /\ u.current = conf.current
  BY <1>0, <1>4, <1>5, EntersIs DEF SameConf
<1>7. conf' = [u EXCEPT !.list = Append(u.list, c), !.current = IF conf.list = <<>> THEN c ELSE u.current]
  BY <1>3, <1>4 DEF PartyCalls
<1>8. conf' = Begins(conf, c, new, k)
  BY <1>2, <1>4, <1>6, <1>7 DEF Begins
<1>9. /\ conf' \in ConfType /\ Others(conf, conf', c) /\ Moves(conf.party[c], conf'.party[c], new)
      /\ conf'.mixer = conf.mixer /\ conf'.local = conf.local /\ conf'.lost = conf.lost
      /\ conf'.current = k /\ conf'.list # <<>>
  BY <1>0, <1>8, Begun
<1>10. Fits(conf'.party[c]) /\ ~Claims(conf'.party[c]) /\ conf'.party[c].state = "incoming"
  BY <1>0, <1>3, <1>9 DEF Fits, Claims, Moves
<1>11. ~Claims(conf.party[c]) /\ conf.party[c].state # "incoming"
  BY <1>0 DEF Claims
<1>12. CASE conf.list = <<>>
  <2>1. \A d \in Party : conf.party[d].state \in {"none", "ended"}
    BY <1>0, <1>12, ListedThere
  <2>2. \A d \in Party : ~Claims(conf.party[d])
    BY <2>1 DEF Claims
  <2>3. ~conf'.local /\ conf'.current = c
    BY <1>2, <1>9, <1>12 DEF Tidy, Closed
  <2>4. \A d \in Party : ~Claims(conf'.party[d])
    <3> HIDE DEF Claims
    <3> QED BY <1>9, <1>10, <2>2 DEF Others
  <2>5. Owned(conf')
    <3> HIDE DEF Claims
    <3> QED BY <1>10, <2>3, <2>4 DEF Owned
  <2>6. \A d \in Party : Fits(conf'.party[d])
    BY <1>0, <1>9, <1>10 DEF Others
  <2> QED BY <1>0, <1>9, <2>3, <2>5, <2>6 DEF Tidy, Orders, Closed
<1>13. CASE conf.list # <<>>
  <2>1. conf'.current = conf.current
    BY <1>2, <1>9, <1>13
  <2>2. Orders(conf')
    BY <1>0, <1>9, <1>10, <1>11, <2>1, OneTidy DEF Tidy
  <2> QED BY <1>9, <2>2 DEF Tidy, Closed
<1> QED BY <1>12, <1>13

LEMMA CallPartyTidy ==
  ASSUME Wired(conf, conf.faults), Tidy(conf), conf.faults = {}, NEW c \in Party, CallParty(c)
  PROVE  Tidy(conf')
<1>0. /\ conf \in ConfType /\ conf.party[c].state = "none" /\ Orders(conf) /\ Fits(conf.party[c])
  BY DEF Wired, CallParty, InState, Tidy, Orders
<1>1. Quiet(conf)
  <2>1. Waits(conf) /\ \A d \in Party : conf.party[d].state # "outgoing"
    BY CalmWaits DEF CallParty, Established, Fault, InState
  <2> QED BY <2>1 DEF Waits, Asking, Quiet, Claims
<1>2. PICK s : s = PreemptSound(conf)
  OBVIOUS
<1>3. s \in ConfType /\ Vacant(s) /\ s.party[c] = conf.party[c]
  BY <1>0, <1>1, <1>2, PreemptTidy
<1>4. PICK new \in {"incoming", "outgoing"} : new = "outgoing"
  OBVIOUS
<1>5. PICK u : u = Enters(s, c, new)
  OBVIOUS
<1>10. new \in PartyState
  BY DEF PartyState
<1>6. u \in ConfType /\ u.list = s.list
  BY <1>3, <1>5, <1>10, EntersIs DEF SameConf
<1>7. conf' = [u EXCEPT !.list = Append(u.list, c), !.current = c]
  BY <1>2, <1>4, <1>5 DEF CallParty
<1>8. conf' = Begins(s, c, new, c)
  BY <1>5, <1>6, <1>7 DEF Begins
<1>9. /\ conf' \in ConfType /\ Others(s, conf', c) /\ Moves(s.party[c], conf'.party[c], new)
      /\ conf'.mixer = s.mixer /\ conf'.local = s.local /\ conf'.lost = s.lost
      /\ conf'.current = c /\ conf'.list # <<>>
  BY <1>0, <1>3, <1>8, Begun
<1>11. Fits(conf'.party[c]) /\ Claims(conf'.party[c]) /\ conf'.party[c].state # "updating"
  BY <1>0, <1>3, <1>4, <1>9 DEF Fits, Claims, Moves
<1>12. Orders(conf')
  BY <1>3, <1>9, <1>11, TakenOver
<1> QED BY <1>9, <1>12 DEF Tidy, Closed

\* call_accepted()
LEMMA PartyAnswersTidy ==
  ASSUME Wired(conf, conf.faults), Tidy(conf), conf.faults = {}, NEW c \in Party, NEW dir \in Direction,
         PartyAnswers(c, dir)
  PROVE  Tidy(conf')
<1>0. /\ conf \in ConfType /\ Listed(conf) /\ Orders(conf) /\ Owned(conf) /\ conf.lost = 0
      /\ \A d \in Party : Fits(conf.party[d])
  BY DEF Wired, Tidy, Orders
<1>1. PICK u : u = RestartAudio(conf, c, dir)
  OBVIOUS
<1>2. CASE dir = "sendonly" /\ conf.party[c].state = "pausing" /\ conf' = Enters(u, c, "paused")
  <2>1. PICK new \in PartyState : new = "paused"
    BY DEF PartyState
  <2>2. conf.party[c].media = "off"
    BY <1>0, <1>2 DEF Fits
  <2>3. /\ conf' \in ConfType /\ SameConf(conf, conf') /\ Others(conf, conf', c)
        /\ conf'.current = conf.current
        /\ conf'.party[c].state = new /\ conf'.party[c].want = conf.party[c].want
        /\ conf'.party[c].cur = conf.party[c].want /\ conf'.party[c].dir = dir
        /\ conf.party[c].want => conf'.party[c].media = "mixed"
        /\ ~conf.party[c].want /\ dir # "sendrecv" => conf'.party[c].media = "dry"
    BY <1>0, <1>1, <1>2, <2>1, <2>2, AnswerStarts
  <2>4. Fits(conf'.party[c]) /\ ~Claims(conf'.party[c]) /\ ~Claims(conf.party[c])
    BY <1>2, <2>1, <2>3 DEF Fits, Claims
  <2>5. Orders(conf')
    BY <1>0, <1>2, <2>3, <2>4, OneTidy DEF SameConf
  <2>6. conf'.list = conf.list /\ conf.list # <<>>
    BY <1>0, <1>2, <2>3, ListedThere DEF SameConf
  <2> QED BY <2>5, <2>6 DEF Tidy, Closed
<1>3. CASE /\ dir = "sendrecv" /\ conf.party[c].state \in {"outgoing", "resuming", "updating"}
           /\ conf' = [Enters(u, c, "running") EXCEPT !.current = IF u.party[c].cur THEN @ ELSE c]
  <2>1. PICK new \in PartyState : new = "running"
    BY DEF PartyState
  <2>2. \/ conf.party[c].media = "off" \/ conf.party[c].dir # dir
        \/ conf.party[c].want # conf.party[c].cur
    BY <1>0, <1>3 DEF Fits
  <2>3. PICK t : t = Enters(u, c, new)
    OBVIOUS
  <2>4. /\ u \in ConfType /\ u.party[c].cur = conf.party[c].want
        /\ t \in ConfType /\ SameConf(conf, t) /\ Others(conf, t, c) /\ t.current = conf.current
        /\ t.party[c].state = new /\ t.party[c].want = conf.party[c].want
        /\ t.party[c].cur = conf.party[c].want /\ t.party[c].dir = dir
        /\ conf.party[c].want => t.party[c].media = "mixed"
        /\ ~conf.party[c].want /\ dir = "sendrecv" /\ ~conf.local /\ conf.current \in {NoParty, c}
             => t.party[c].media = "sound"
    BY <1>0, <1>1, <2>2, <2>3, AnswerStarts
  <2>5. PICK k \in Party \cup {NoParty} : k = IF conf.party[c].want THEN t.current ELSE c
    BY <2>4 DEF ConfType
  <2>6. conf' = [t EXCEPT !.current = k]
    BY <1>3, <2>1, <2>3, <2>4, <2>5
  <2>7. conf' \in ConfType /\ SameConf(t, conf') /\ conf'.party = t.party /\ conf'.current = k
    BY <2>4, <2>6, CurrentSet
  <2>8. Others(conf, conf', c) /\ SameConf(conf, conf')
    BY <2>4, <2>7 DEF Others, SameConf
  <2>9. conf'.list = conf.list /\ conf.list # <<>>
    BY <1>0, <1>3, <2>8, ListedThere DEF SameConf
  <2>10. CASE conf.party[c].want
    <3>1. Fits(conf'.party[c]) /\ ~Claims(conf'.party[c]) /\ ~Claims(conf.party[c])
      BY <2>1, <2>4, <2>7, <2>10 DEF Fits, Claims
    <3>3. conf'.current = conf.current
      BY <2>4, <2>5, <2>7, <2>10
    <3>4. conf'.local = conf.local /\ conf'.mixer = conf.mixer /\ conf'.lost = conf.lost
      BY <2>8 DEF SameConf
    <3>5. conf.party[c].state # "incoming"
      BY <1>3
    <3>2. Orders(conf')
      BY <1>0, <2>7, <2>8, <3>1, <3>3, <3>4, <3>5, OneTidy
    <3> QED BY <2>9, <3>2 DEF Tidy, Closed
  <2>11. CASE ~conf.party[c].want
    <3>1. Claims(conf.party[c])
      BY <1>3, <2>11 DEF Claims
    <3>2. /\ ~conf.local /\ conf.current \in {NoParty, c}
          /\ \A d \in Party \ {c} : ~Claims(conf.party[d])
      <4> HIDE DEF Claims
      <4> QED BY <1>0, <3>1 DEF Owned
    <3>3. Fits(conf'.party[c]) /\ Claims(conf'.party[c]) /\ conf'.party[c].state # "updating"
      BY <1>3, <2>1, <2>4, <2>7, <2>11, <3>2 DEF Fits, Claims
    <3>4. /\ \A d \in Party : Fits(conf'.party[d])
          /\ \A d \in Party \ {c} : ~Claims(conf'.party[d])
      <4> HIDE DEF Claims, Fits
      <4> QED BY <1>0, <2>8, <3>2, <3>3 DEF Others
    <3>5. ~conf'.local /\ conf'.current = c /\ conf'.lost = 0
      BY <1>0, <2>5, <2>7, <2>8, <2>11, <3>2 DEF SameConf
    <3>6. Owned(conf')
      BY <3>3, <3>4, <3>5, OwnedBy
    <3> QED BY <2>9, <3>4, <3>5, <3>6 DEF Tidy, Closed, Orders
  <2> QED BY <2>10, <2>11
<1> QED BY <1>1, <1>2, <1>3 DEF PartyAnswers, InState, Fault

\* A call that is in the conference, and in no request, is plugged into the mixer.
LEMMA SettledSeated ==
  ASSUME NEW s, Orders(s), NEW c, Settled(s, c)
  PROVE  Seated(s, c)
BY DEF Orders, Settled, Seated, Fits

\* Nobody joins.
LEMMA NobodySettled ==
  ASSUME Wired(conf, conf.faults), Tidy(conf), conf.faults = {}, NEW c, NobodyJoins(c)
  PROVE  Settled(conf, c)
<1> SUFFICES ASSUME NEW d \in Party \ {c}, conf.party[d].want
             PROVE  conf.party[d].state \in {"running", "paused"}
  BY DEF Settled
<1>1. ~Joining(d)
  BY DEF NobodyJoins, Fault
<1>2. conf.party[d].state \notin Asking
  BY <1>1 DEF Joining, InState
<1>3. conf.party[d].state \in PartyState /\ Fits(conf.party[d])
  BY DEF Wired, ConfType, PartyType, Tidy, Orders
<1> QED BY <1>2, <1>3 DEF Fits, Asking, PartyState

LEMMA PartyEndsTidy ==
  ASSUME Wired(conf, conf.faults), Tidy(conf), conf.faults = {}, NEW c \in Party, PartyEnds(c)
  PROVE  (Orders(conf') \/ ForgetsIn(conf, conf')) /\ Closed(conf')
<1>1. conf \in ConfType /\ Listed(conf) /\ Plugged(conf) /\ Orders(conf)
  BY DEF Wired, Tidy, ConfPolite
<1>2. Settled(conf, c) /\ conf' = EndParty(conf, c)
  BY NobodySettled DEF PartyEnds
<1> QED BY <1>1, <1>2, EndTidy

\* linphone_core_terminate_conference(): one member after the other.
LEMMA TerminateTidy ==
  ASSUME Wired(conf, conf.faults), Tidy(conf), conf.faults = {}, Terminate
  PROVE  Tidy(conf')
<1>1. PICK s : s = [conf EXCEPT !.terminated = TRUE]
  OBVIOUS
<1>2. /\ s \in ConfType /\ s.party = conf.party /\ s.faults = conf.faults /\ s.list = conf.list
      /\ s.mixer = conf.mixer /\ s.local = conf.local /\ s.lost = conf.lost /\ s.current = conf.current
      /\ s.terminated
  BY <1>1 DEF Wired, ConfType
<1>3. conf \in ConfType /\ Listed(conf) /\ Plugged(conf) /\ Orders(conf) /\ Closed(conf)
  BY DEF Wired, Tidy, ConfPolite
<1> DEFINE A == {t \in ConfType : /\ Listed(t) /\ Plugged(t) /\ Orders(t) /\ Closed(t)
                                  /\ t.terminated /\ Settled(t, NoParty)}
<1>4. s \in A
  <2>1. Leads(conf, s)
    BY <1>2, <1>3, NoneLeads
  <2>2. Owned(s)
    BY <1>2, <1>3, OwnedSame DEF Orders
  <2>3. Orders(s) /\ Closed(s)
    BY <1>2, <1>3, <2>2 DEF Orders, Closed
  <2>4. Settled(s, NoParty)
    <3>1. Settled(conf, NoParty)
      BY NobodySettled DEF Terminate
    <3> QED BY <1>2, <3>1 DEF Settled
  <2> QED BY <1>2, <1>3, <2>1, <2>3, <2>4 DEF Leads
<1>5. ASSUME NEW t \in A, NEW c \in Party
      PROVE  DropMember(t, c) \in A
  <2>1. CASE ~t.party[c].cur
    <3>1. DropMember(t, c) = t
      BY <2>1 DEF DropMember
    <3> HIDE DEF A
    <3> QED BY <3>1
  <2>2. CASE t.party[c].cur
    <3>1. PICK u : u = EndParty(t, c)
      OBVIOUS
    <3>2. t \in ConfType /\ Listed(t) /\ Plugged(t) /\ Orders(t) /\ t.terminated /\ Settled(t, NoParty)
      OBVIOUS
    <3>3. Settled(t, c)
      BY <3>2, ConferenceAssumption DEF Settled
    <3>4. DropMember(t, c) = u
      BY <2>2, <3>1 DEF DropMember
    <3> HIDE DEF A
    <3>5. /\ u \in ConfType /\ Listed(u)
          /\ Plugged(u)
      BY <3>1, <3>2, <3>3, SettledSeated, EndLeads
    <3>6. /\ u.party[c] = EndedParty
          /\ \A d \in Party \ {c} : Kept(t, u, d)
          /\ Closed(u) /\ Orders(u) /\ u.terminated
      BY <3>1, <3>2, <3>3, EndTidy
    <3>7. Settled(u, NoParty)
      <4> SUFFICES ASSUME NEW d \in Party, u.party[d].want
                   PROVE  u.party[d].state \in {"running", "paused"}
        BY DEF Settled
      <4>1. d # c
        BY <3>6, EndedIs
      <4>2. u.party[d] = t.party[d]
        BY <3>6, <4>1 DEF Kept
      <4> QED BY <3>2, <4>2, ConferenceAssumption DEF Settled
    <3>8. u \in A
      BY <3>5, <3>6, <3>7 DEF A
    <3> QED BY <3>4, <3>8
  <2> QED BY <2>1, <2>2
<1>6. conf' \in A
  <2>1. s.list \in Seq(Party)
    BY <1>2 DEF ConfType
  <2>2. conf' = FoldLeft(DropMember, s, s.list)
    BY <1>1, <1>2, TerminateIs DEF Terminate
  <2> HIDE DEF A
  <2> QED BY <1>4, <1>5, <2>1, <2>2, AllDropped
<1> QED BY <1>6 DEF Tidy

\* linphone_core_add_all_to_conference()
LEMMA AddAllTidy ==
  ASSUME Wired(conf, conf.faults), Tidy(conf), conf.faults = {}, AddAll
  PROVE  Tidy(conf')
<1>1. PICK s : s = FoldLeft(AddParty, conf, conf.list)
  OBVIOUS
<1>2. conf' = EnterConference(s) /\ conf'.mixer
  BY <1>1 DEF AddAll, AddAllParties
<1>3. conf \in ConfType /\ Orders(conf) /\ Closed(conf) /\ Owned(conf) /\ conf.list \in Seq(Party)
  BY DEF Wired, Tidy, Orders, ConfType
<1>4. Joins(conf)
  <2>1. /\ Waits(conf) /\ \A d \in Party : conf.party[d].state # "outgoing"
        /\ conf.current # NoParty => conf.party[conf.current].state # "incoming"
    BY CalmWaits DEF AddAll, Established, Fault, InState
  <2>2. Quiet(conf)
    BY <2>1 DEF Waits, Asking, Quiet, Claims
  <2>3. conf.current # NoParty => Claims(conf.party[conf.current])
    BY <1>3, <2>1 DEF Owned
  <2> QED BY <2>2, <2>3 DEF Joins
<1> DEFINE A == {t \in ConfType : Orders(t) /\ Joins(t) /\ t.list = conf.list}
<1>5. conf \in A
  BY <1>3, <1>4
<1>6. ASSUME NEW t \in A, NEW c \in Party
      PROVE  AddParty(t, c) \in A
  <2>1. t \in ConfType /\ Orders(t) /\ Joins(t) /\ t.list = conf.list
    OBVIOUS
  <2>2. PICK u : u = AddParty(t, c)
    OBVIOUS
  <2>3. u \in ConfType /\ Orders(u) /\ u.list = t.list /\ Joins(u)
    BY <2>1, <2>2, AddTidy
  <2> QED BY <2>1, <2>2, <2>3
<1>7. s \in A
  <2> HIDE DEF A
  <2> QED BY <1>1, <1>3, <1>5, <1>6, AllAdded
<1>8. s \in ConfType /\ Orders(s) /\ Joins(s) /\ s.list = conf.list
  BY <1>7
<1>9. Orders(conf') /\ conf'.list = conf.list
  BY <1>2, <1>8, EnterTidy
<1>10. CASE conf.list # <<>>
  BY <1>9, <1>10 DEF Tidy, Closed
<1>11. CASE conf.list = <<>>
  <2>1. ~conf.mixer
    BY <1>3, <1>11 DEF Closed
  <2>2. s = conf
    <3>1. DOMAIN conf.list = {} /\ Len(conf.list) = 0
      BY <1>11
    <3> QED BY <1>1, <3>1, <1>11 DEF FoldLeft, MapThenFoldSet
  <2>3. PICK p : p = IF s.current # NoParty THEN PauseParty(s, s.current) ELSE s
    OBVIOUS
  <2>4. p \in ConfType /\ p.mixer = s.mixer
    BY <1>8, <2>3, PartyPaused DEF SameConf, ConfType
  <2>5. conf' = s \/ conf' = p \/ conf' = AddLocal(p)
    BY <1>2, <2>3 DEF EnterConference
  <2>6. conf'.mixer = s.mixer
    BY <2>4, <2>5, LocalAdded
  <2> QED BY <1>2, <2>1, <2>2, <2>6
<1> QED BY <1>10, <1>11

\* No call is placed, and none waits for the answer to a request.
Rests(s) ==
  \A d \in Party : s.party[d].state \notin {"outgoing", "resuming", "updating"}

\* linphone_core_accept_call_with_params(): the call that was being placed is given up.
LEMMA PlacedTidy ==
  ASSUME Wired(conf, conf.faults), Tidy(conf), conf.faults = {}, Calm,
         \A d \in Party : InState(d, {"outgoing"}) => NobodyJoins(d),
         NEW k \in Party, conf.party[k].state = "incoming"
  PROVE  /\ PlacedEnded \in ConfType /\ Listed(PlacedEnded) /\ Orders(PlacedEnded)
         /\ Rests(PlacedEnded) /\ PlacedEnded.party[k].state = "incoming"
<1>0. /\ conf \in ConfType /\ Listed(conf) /\ Plugged(conf) /\ Orders(conf) /\ Owned(conf)
      /\ conf.list \in Seq(Party)
  BY DEF Wired, Tidy, Orders, ConfPolite, ConfType
<1>1. Waits(conf)
  BY CalmWaits
<1> DEFINE Q == {t \in ConfType : /\ Listed(t) /\ Orders(t) /\ Rests(t)
                                  /\ t.party[k].state = "incoming"}
           A == Q \cup {conf}
<1>2. ASSUME NEW t \in Q, NEW c \in Party
      PROVE  EndPlaced(t, c) \in Q
  <2>1. EndPlaced(t, c) = t
    BY DEF EndPlaced, Rests
  <2> HIDE DEF Q
  <2> QED BY <2>1
<1>3. ASSUME NEW c \in Party, conf.party[c].state = "outgoing"
      PROVE  EndPlaced(conf, c) \in Q
  <2>1. PICK u : u = EndParty(conf, c)
    OBVIOUS
  <2>2. Settled(conf, c)
    <3>1. NobodyJoins(c)
      BY <1>3 DEF InState
    <3> QED BY <3>1, NobodySettled
  <2>3. u \in ConfType /\ Listed(u)
    BY <1>0, <2>1, EndLeads
  <2>4. /\ Orders(u) \/ ForgetsIn(conf, u)
        /\ u.party[c] = EndedParty
        /\ \A d \in Party \ {c} : Kept(conf, u, d)
    BY <1>0, <2>1, <2>2, EndTidy
  <2>5. Claims(conf.party[c])
    BY <1>0, <1>3 DEF Claims, Orders, Fits
  <2>6. conf.current = c /\ ~conf.local /\ \A d \in Party \ {c} : ~Claims(conf.party[d])
    <3> HIDE DEF Claims
    <3> QED BY <1>0, <1>3, <2>5 DEF Owned
  <2>7. Orders(u)
    <3>1. ~ForgetsIn(conf, u)
      BY <1>3, <2>4, <2>6, EndedIs DEF ForgetsIn
    <3> QED BY <2>4, <3>1
  <2>8. Rests(u)
    <3> SUFFICES ASSUME NEW d \in Party, u.party[d].state \in {"outgoing", "resuming", "updating"}
                 PROVE  FALSE
      BY DEF Rests
    <3>1. d # c
      BY <2>4, EndedIs
    <3>2. u.party[d] = conf.party[d]
      BY <2>4, <2>6, <3>1 DEF Kept
    <3>3. conf.party[d].state = "outgoing"
      BY <1>1, <3>2 DEF Waits, Asking
    <3>4. Claims(conf.party[d])
      BY <1>0, <3>3 DEF Claims, Orders, Fits
    <3> QED BY <2>6, <3>1, <3>4
  <2>9. u.party[k].state = "incoming"
    <3>1. k # c /\ ~conf.party[k].want
      BY <1>0, <1>3 DEF Orders, Fits
    <3> QED BY <2>4, <3>1 DEF Kept
  <2>10. u \in Q
    BY <2>3, <2>7, <2>8, <2>9
  <2> QED BY <1>3, <2>1, <2>10 DEF EndPlaced
<1>4. ASSUME NEW t \in A, NEW c \in Party
      PROVE  EndPlaced(t, c) \in A
  <2> HIDE DEF Q
  <2>1. CASE t \in Q
    BY <1>2, <2>1
  <2>2. CASE t = conf /\ conf.party[c].state = "outgoing"
    BY <1>3, <2>2
  <2>3. CASE t = conf /\ conf.party[c].state # "outgoing"
    BY <2>3 DEF EndPlaced
  <2> QED BY <2>1, <2>2, <2>3
<1>5. PlacedEnded \in Q
  <2>1. CASE \A d \in Party : conf.party[d].state # "outgoing"
    <3>1. conf \in Q
      BY <1>0, <1>1, <2>1 DEF Rests, Waits, Asking
    <3> HIDE DEF Q
    <3> QED BY <1>0, <1>2, <3>1, AllEnded DEF PlacedEnded
  <2>2. ASSUME NEW c \in Party, conf.party[c].state = "outgoing"
        PROVE  PlacedEnded \in Q
    <3>1. PICK j \in DOMAIN conf.list : conf.list[j] = c
      BY <1>0, <2>2 DEF Listed, IsListed
    <3> HIDE DEF Q
    <3>2. \A t \in A : EndPlaced(t, conf.list[j]) \in Q
      BY <1>2, <1>3, <2>2, <3>1
    <3>3. conf \in A
      OBVIOUS
    <3> HIDE DEF A
    <3> QED BY <1>0, <1>2, <1>4, <3>2, <3>3, EndedOnce DEF PlacedEnded
  <2> QED BY <2>1, <2>2
<1> QED BY <1>5

LEMMA AcceptPartyTidy ==
  ASSUME Wired(conf, conf.faults), Tidy(conf), conf.faults = {}, NEW c \in Party, AcceptParty(c)
  PROVE  Tidy(conf')
<1>1. /\ conf.party[c].state = "incoming" /\ Calm
      /\ \A d \in Party : InState(d, {"outgoing"}) => NobodyJoins(d)
  BY AcceptIs
<1>2. PICK t : /\ t = (IF PlacedEnded.current # c THEN PreemptSound(PlacedEnded) ELSE PlacedEnded)
               /\ conf' = Enters(RestartAudio([t EXCEPT !.current = c], c, "sendrecv"), c, "running")
  BY AcceptIs
<1>3. PICK s : s = PlacedEnded
  OBVIOUS
<1>4. s \in ConfType /\ Listed(s) /\ Orders(s) /\ Rests(s) /\ s.party[c].state = "incoming"
  BY <1>1, <1>3, PlacedTidy
<1>5. Quiet(s) /\ Fits(s.party[c]) /\ ~Claims(s.party[c])
  BY <1>4 DEF Rests, Quiet, Claims, Orders
<1>6. t \in ConfType /\ Vacant(t) /\ t.list = s.list /\ t.party[c] = s.party[c]
  <2>1. CASE s.current # c
    BY <1>2, <1>3, <1>4, <1>5, <2>1, PreemptTidy
  <2>2. CASE s.current = c
    <3>1. s.current # NoParty
      BY <2>2, ConferenceAssumption
    <3>2. ~s.local /\ \A d \in Party : ~Claims(s.party[d])
      BY <1>4, <1>5, <2>2, <3>1 DEF Orders, Owned
    <3> QED BY <1>2, <1>3, <1>4, <2>2, <3>2 DEF Vacant, Orders
  <2> QED BY <2>1, <2>2
<1>7. PICK k \in Party \cup {NoParty} : k = c
  OBVIOUS
<1>8. PICK u : u = [t EXCEPT !.current = k]
  OBVIOUS
<1>9. u \in ConfType /\ SameConf(t, u) /\ u.party = t.party /\ u.current = c
  BY <1>6, <1>7, <1>8, CurrentSet
<1>10. PICK dir \in Direction : dir = "sendrecv"
  BY DEF Direction
<1>11. PICK new \in PartyState : new = "running"
  BY DEF PartyState
<1>12. PICK v : v = RestartAudio(u, c, dir)
  OBVIOUS
<1>13. conf' = Enters(v, c, new)
  BY <1>2, <1>7, <1>8, <1>10, <1>11, <1>12
<1>14. u.party[c].media = "off" /\ ~u.party[c].want /\ ~u.local
  BY <1>4, <1>5, <1>6, <1>9 DEF Fits, Vacant, SameConf
<1>15. /\ conf' \in ConfType /\ SameConf(u, conf') /\ Others(u, conf', c) /\ conf'.current = u.current
       /\ conf'.party[c].state = new /\ conf'.party[c].want = u.party[c].want
       /\ conf'.party[c].cur = u.party[c].want /\ conf'.party[c].dir = dir
       /\ ~u.party[c].want /\ dir = "sendrecv" /\ ~u.local /\ u.current \in {NoParty, c}
            => conf'.party[c].media = "sound"
  BY <1>9, <1>12, <1>13, <1>14, AnswerStarts
<1>16. Fits(conf'.party[c]) /\ Claims(conf'.party[c]) /\ conf'.party[c].state # "updating"
  BY <1>9, <1>10, <1>11, <1>14, <1>15 DEF Fits, Claims
<1>17. /\ Others(t, conf', c) /\ conf'.local = t.local /\ conf'.lost = t.lost /\ conf'.current = c
       /\ conf'.list = s.list
  BY <1>6, <1>9, <1>15 DEF Others, SameConf
<1>18. Orders(conf')
  BY <1>6, <1>15, <1>16, <1>17, TakenOver
<1>19. s.list # <<>>
  BY <1>4, ListedThere
<1> QED BY <1>17, <1>18, <1>19 DEF Tidy, Closed

LEMMA StepTidy ==
  ASSUME Wired(conf, conf.faults), conf.faults = {}, Tidy(conf), [ConfNext]_conf
  PROVE  Tidy(conf')
<1>0. /\ conf \in ConfType /\ Listed(conf) /\ Orders(conf) /\ Closed(conf) /\ Owned(conf)
      /\ \A d \in Party : Fits(conf.party[d])
  BY DEF Wired, Tidy, Orders
<1>1. CASE UNCHANGED conf
  BY <1>1 DEF Tidy, Orders, Owned, Closed
<1>2. ConfNext => ~ForgetsIn(conf, conf')
  BY DEF ConfNext, Forgets, ForgetsIn, Fault
<1>3. ASSUME NEW c \in Party, Pause(c), ConfNext
      PROVE  Tidy(conf')
  <2>1. conf.party[c].state = "running" /\ conf' = PauseParty(conf, c)
    BY <1>0, <1>3 DEF Pause, InState, Fits
  <2>2. (Orders(conf') \/ ForgetsIn(conf, conf')) /\ conf'.list = conf.list
    BY <1>0, <2>1, PauseTidy
  <2>3. conf.list # <<>>
    BY <1>0, <2>1, ListedThere
  <2> QED BY <1>2, <1>3, <2>2, <2>3 DEF Tidy, Closed
<1>4. ASSUME NEW c \in Party, Resume(c)
      PROVE  Tidy(conf')
  <2>1. Waits(conf) /\ \A d \in Party : conf.party[d].state # "outgoing"
    BY <1>4, CalmWaits DEF Resume, Established, Fault, InState
  <2>2. Quiet(conf)
    BY <2>1 DEF Waits, Asking, Quiet, Claims
  <2>3. conf.party[c].state = "paused" /\ conf' = ResumeParty(conf, c)
    BY <1>4 DEF Resume, InState
  <2>4. Orders(conf') /\ conf'.list = conf.list
    BY <1>0, <2>2, <2>3, ResumeTidy
  <2>5. conf.list # <<>>
    BY <1>0, <2>3, ListedThere
  <2> QED BY <2>4, <2>5 DEF Tidy, Closed
<1>5. ASSUME NEW c \in Party, AddToConference(c)
      PROVE  Tidy(conf')
  <2>1. conf.party[c].state \notin {"none", "ended"} /\ conf' = AddParty(conf, c)
    BY <1>5 DEF AddToConference, InState
  <2>2. Orders(conf') /\ conf'.list = conf.list
    BY <1>0, <2>1, AddTidy
  <2>3. conf.list # <<>>
    BY <1>0, <2>1, ListedThere
  <2> QED BY <2>2, <2>3 DEF Tidy, Closed
<1>6. ASSUME NEW c \in Party, RemoveFromConference(c), ConfNext
      PROVE  Tidy(conf')
  <2>1. Waits(conf) /\ conf.party[c].cur /\ conf' = RemoveParty(conf, c)
    BY <1>6, CalmWaits DEF RemoveFromConference
  <2>2. /\ Orders(conf') \/ ForgetsIn(conf, conf')
        /\ conf'.list = conf.list
    BY <1>0, <2>1, RemoveTidy DEF Waits
  <2>3. conf.list # <<>>
    BY <1>0, <2>1, ListedThere DEF Fits
  <2> QED BY <1>2, <1>6, <2>2, <2>3 DEF Tidy, Closed
<1>7. CASE Enter
  <2>1. PICK p : p = IF conf.current # NoParty THEN PauseParty(conf, conf.current) ELSE conf
    OBVIOUS
  <2>2. p \in ConfType /\ p.mixer = conf.mixer
    BY <1>0, <2>1, PartyPaused DEF SameConf, ConfType
  <2>3. conf' = conf \/ conf' = p \/ conf' = AddLocal(p)
    BY <1>7, <2>1 DEF Enter, EnterConference
  <2>4. conf'.mixer /\ conf.mixer
    BY <1>7, <2>2, <2>3, LocalAdded DEF Enter
  <2>5. Joins(conf)
    <3>1. /\ Waits(conf) /\ \A d \in Party : conf.party[d].state # "outgoing"
          /\ conf.current # NoParty => conf.party[conf.current].state # "incoming"
      BY <1>7, CalmWaits DEF Enter, Established, Fault, InState
    <3>2. Quiet(conf)
      BY <3>1 DEF Waits, Asking, Quiet, Claims
    <3>3. conf.current # NoParty => Claims(conf.party[conf.current])
      BY <1>0, <3>1 DEF Owned
    <3> QED BY <3>2, <3>3 DEF Joins
  <2>6. Orders(conf') /\ conf'.list = conf.list
    BY <1>0, <1>7, <2>4, <2>5, EnterTidy DEF Enter
  <2> QED BY <1>0, <2>4, <2>6 DEF Tidy, Closed
<1>8. CASE Leave
  <2>1. /\ conf' \in ConfType /\ conf'.party = conf.party /\ conf'.current = conf.current
        /\ conf'.list = conf.list /\ conf'.mixer = conf.mixer /\ ~conf'.local /\ conf'.lost = conf.lost
    BY <1>0, <1>8, LocalLeft DEF Leave
  <2>2. Owned(conf')
    BY <1>0, <2>1, OwnedSame
  <2> QED BY <1>0, <2>1, <2>2 DEF Tidy, Orders, Closed
<1>9. ASSUME NEW c \in Party, PartyEnds(c), ConfNext
      PROVE  Tidy(conf')
  BY <1>2, <1>9, PartyEndsTidy DEF Tidy
<1>10. ASSUME NEW c \in Party, PartyRefuses(c) \/ PartyHolds(c) \/ PartyUnholds(c)
       PROVE  FALSE
  BY <1>0, <1>10 DEF PartyRefuses, PartyHolds, PartyUnholds, Fault, InState, Fits
<1>11. \A dir \in {"sendrecv", "sendonly", "recvonly"} : dir \in Direction
  BY DEF Direction
<1> QED BY <1>1, <1>3, <1>4, <1>5, <1>6, <1>7, <1>8, <1>9, <1>10, <1>11, PartyCallsTidy, CallPartyTidy,
           AcceptPartyTidy, PartyAnswersTidy, TerminateTidy, AddAllTidy
        DEF ConfNext, ConfStep

-----------------------------------------------------------------------------
(* The theorems                                                            *)

\* The conference for any number of calls and any set of the faults, from a core
\* in which any part of the calls may still be made.
ConfSpec ==
  /\ \E faults \in SUBSET ConfFaults, parties \in SUBSET Party : ConfInit(faults, parties)
  /\ [][ConfNext]_conf


\* What every function of conference.c leaves: with any faults the plugs, without
\* faults also the order on the sound card.
ConfInv == Wired(conf, conf.faults) /\ (conf.faults = {} => Tidy(conf))

LEMMA InitConf ==
  ASSUME NEW faults \in SUBSET ConfFaults, NEW parties \in SUBSET Party, ConfInit(faults, parties)
  PROVE  ConfInv
<1>1. NewParty \in PartyType /\ EndedParty \in PartyType
  BY EndedIs DEF NewParty, PartyType, PartyState, Media, Direction
<1>2. conf \in ConfType
  BY <1>1 DEF ConfInit, ConfType, EndedParty
<1>3. /\ conf.faults = faults /\ conf.list = <<>> /\ conf.current = NoParty /\ conf.lost = 0
      /\ ~conf.mixer /\ ~conf.local
  BY DEF ConfInit
<1>4. ASSUME NEW c \in Party
      PROVE  /\ conf.party[c].state \in {"none", "ended"} /\ ~conf.party[c].want /\ ~conf.party[c].cur
             /\ conf.party[c].media = "off"
  <2>1. conf.party[c] = NewParty \/ conf.party[c] = EndedParty
    BY DEF ConfInit, EndedParty
  <2> QED BY <2>1, EndedIs DEF NewParty
<1>5. Listed(conf)
  BY <1>4 DEF Listed
<1>6. Plugged(conf)
  BY <1>4 DEF Plugged, PluggedAt, Asking
<1>7. \A c \in Party : Fits(conf.party[c]) /\ ~Claims(conf.party[c])
  BY <1>4 DEF Fits, Claims
<1>8. Owned(conf)
  BY <1>3, <1>7, OwnedNone
<1> QED BY <1>2, <1>3, <1>5, <1>6, <1>7, <1>8 DEF ConfInv, Wired, Tidy, Orders, Closed

LEMMA StepConf ==
  ASSUME ConfInv, [ConfNext]_conf
  PROVE  ConfInv'
<1>1. PICK F : F = conf.faults
  OBVIOUS
<1>2. Wired(conf', F)
  BY <1>1, StepWired DEF ConfInv
<1>3. conf'.faults = conf.faults
  BY <1>1, <1>2 DEF Wired
<1>4. conf'.faults = {} => Tidy(conf')
  BY <1>3, StepTidy DEF ConfInv
<1> QED BY <1>1, <1>2, <1>3, <1>4 DEF ConfInv

\* Whatever the calls, the conference and the answers do, and in whichever order,
\* what is plugged into the mixer, the wishes of the calls and the one claim on
\* the sound card stay as ConfInv says: through linphone_core_add_to_conference(),
\* remove_from_conference(), the conversion of a conference of one member, and
\* the loops over lc->calls that add, drop or end every member.
THEOREM ConfAlways == ConfSpec => []ConfInv
<1>1. (\E faults \in SUBSET ConfFaults, parties \in SUBSET Party : ConfInit(faults, parties)) => ConfInv
  BY InitConf
<1>2. ConfInv /\ [ConfNext]_conf => ConfInv'
  BY StepConf
<1> QED BY <1>1, <1>2, PTL DEF ConfSpec

LEMMA MixerThere ==
  ASSUME ConfInv
  PROVE  MixerIsThere
<1>1. ASSUME conf.faults \subseteq {"held", "refused", "forgotten"}, NEW c \in Mixed(conf)
      PROVE  conf.mixer /\ conf.party[c].cur /\ ~InState(c, {"none", "ended"})
  <2>1. Plugged(conf)
    BY <1>1 DEF ConfInv, Wired, ConfPolite
  <2> QED BY <1>1, <2>1 DEF Plugged, PluggedAt, Mixed, Asking, Rested, InState
<1>2. conf.faults = {} /\ conf.list = <<>> => ~conf.mixer /\ ~conf.local
  BY DEF ConfInv, Tidy, Closed
<1> QED BY <1>1, <1>2 DEF MixerIsThere

LEMMA OneUser ==
  ASSUME ConfInv
  PROVE  SoundHasOneUser
<1> DEFINE users == {c \in Party : conf.party[c].media = "sound"}
<1> SUFFICES ASSUME conf.faults = {}
             PROVE  /\ Cardinality(users) + conf.lost + (IF conf.local THEN 1 ELSE 0) <= 1
                    /\ conf.current # NoParty /\ InState(conf.current, {"running"})
                         => conf.current \in users
  BY DEF SoundHasOneUser
<1>1. conf \in ConfType /\ conf.lost = 0 /\ Owned(conf) /\ \A c \in Party : Fits(conf.party[c])
  BY DEF ConfInv, Wired, Tidy, Orders
<1>2. \A c \in users : Claims(conf.party[c])
  BY <1>1 DEF Fits, Claims
<1>3. ASSUME users = {}  PROVE Cardinality(users) + conf.lost + (IF conf.local THEN 1 ELSE 0) <= 1
  <2>1. Cardinality(users) = 0
    BY <1>3, FS_EmptySet
  <2> HIDE DEF users
  <2> QED BY <1>1, <2>1
<1>4. ASSUME NEW c \in users  PROVE Cardinality(users) + conf.lost + (IF conf.local THEN 1 ELSE 0) <= 1
  <2>1. users = {c} /\ ~conf.local
    <3>1. \A d \in users : d = c
      BY <1>1, <1>2 DEF Owned
    <3> QED BY <1>1, <1>2, <3>1 DEF Owned
  <2>2. Cardinality(users) = 1
    BY <2>1, FS_Singleton
  <2> HIDE DEF users
  <2> QED BY <1>1, <2>1, <2>2
<1>5. ASSUME conf.current # NoParty, InState(conf.current, {"running"})
      PROVE  conf.current \in users
  <2>1. conf.current \in Party /\ conf.party[conf.current].state = "running"
    BY <1>1, <1>5 DEF ConfType, InState
  <2>2. Claims(conf.party[conf.current])
    BY <1>1, <1>5, <2>1 DEF Owned
  <2> QED BY <1>1, <2>1, <2>2 DEF Fits, Claims
<1> QED BY <1>3, <1>4, <1>5

\* However many calls there are, linphone_core_conference_check_uninit(), which
\* runs at the end of each, destroys the mixer only when no stream is plugged
\* into it, and after the last call has destroyed it and has removed the local
\* participant.
THEOREM MixerIsAlwaysThere == ConfSpec => []MixerIsThere
BY ConfAlways, MixerThere, PTL

\* However many calls there are, the functions that put a call or the local
\* participant on the sound card have first taken it from whoever had it, and the
\* current call, when it runs, is the one that has it.
THEOREM SoundAlwaysHasOneUser == ConfSpec => []SoundHasOneUser
BY ConfAlways, OneUser, PTL
=============================================================================
