----------------------------- MODULE UpnpProofs -----------------------------
(***************************************************************************)
(* Theorems about the port mappings, for any bindings, slots and ports,    *)
(* and whatever the router does: the references of the bindings are        *)
(* counted, and the destroyer of the context is woken.                     *)
(*                                                                         *)
(* Both follow from Even: the references of a binding are those of its     *)
(* slot, of its places in the list of pending bindings and of the pointers *)
(* that were dropped, and the replies to come are at most these places, as *)
(* many when every request is taken by the library.  In the middle of an   *)
(* action one reference more may be held, or one reply be taken and still  *)
(* to be counted: they are the two further arguments of Even.  Where the   *)
(* code walks a list, the fold is unrolled into its intermediate states.   *)
(***************************************************************************)
EXTENDS Upnp, FiniteSetTheorems, SequenceTheorems, WellFoundedInduction, TLAPS

-----------------------------------------------------------------------------
(* Types                                                                   *)

BindState == {"idle", "adding", "ok", "removing", "ko"}
AnyPort   == (UNION {PortsOf[x] : x \in Slot}) \cup {NoPort}
AnyKey    == AnyPort \X (Ext \cup {AnyExt})

\* What the configuration and the router know.
Config == {K \in SUBSET AnyKey : IsFiniteSet(K)}

BindType ==
  [ used : BOOLEAN, state : BindState, port : AnyPort, ext : Ext \cup {AnyExt}, retry : Nat,
    ref : Nat, lost : Nat, toRemove : BOOLEAN, toAdd : BOOLEAN ]

\* Bags of the requests whose reply is awaited.
Asked   == [b : Binding, op : {"add", "remove"}, ext : Ext]
Awaited == UNION {[D -> Nat \ {0}] : D \in {E \in SUBSET Asked : IsFiniteSet(E)}}

NatType ==
  [ faults : SUBSET UpnpFaults, transports : SUBSET SipSlot, calls : BOOLEAN,
    link : {"none", "pending", "down", "ok"}, contexts : Nat, losses : Nat,
    wait : {"no", "waits", "woken"}, bind : [Binding -> BindType],
    at : [Slot -> Binding \cup {NoBinding}], pending : Seq(Binding), flight : Awaited,
    mapped : SUBSET AnyKey, file : Config, adding : Config, removing : Config,
    gaveUp : SUBSET AnyKey, call : {"none", "incoming", "outgoing", "updating", "runs"},
    session : {"none", "idle", "pending", "ok", "ko"}, seen : {<<>>} \cup [CallSlot -> BindState] ]

\* What the environment does in a step.
Does(s, e) == e \in [sent : BOOLEAN, ext : Outside] /\ (~e.sent => "unsent" \in s.faults)

\* Only the bindings change.
OnlyBindings(s, t) ==
  /\ t.faults = s.faults /\ t.transports = s.transports /\ t.calls = s.calls /\ t.link = s.link
  /\ t.contexts = s.contexts /\ t.losses = s.losses /\ t.wait = s.wait /\ t.at = s.at
  /\ t.pending = s.pending /\ t.flight = s.flight /\ t.mapped = s.mapped /\ t.file = s.file
  /\ t.adding = s.adding /\ t.removing = s.removing /\ t.gaveUp = s.gaveUp /\ t.call = s.call
  /\ t.session = s.session /\ t.seen = s.seen

\* A binding that keeps its references.
SameRefs(x, y) == y.used = x.used /\ y.ref = x.ref /\ y.lost = x.lost

Rebind(s, b, y) == [s EXCEPT !.bind[b] = y]

LEMMA BindSet ==
  ASSUME NEW s \in NatType, NEW b \in Binding, NEW y \in BindType,
         NEW t, t = Rebind(s, b, y)
  PROVE  /\ t \in NatType /\ OnlyBindings(s, t) /\ t.bind[b] = y
         /\ \A c \in Binding \ {b} : t.bind[c] = s.bind[c]
<1>1. [s.bind EXCEPT ![b] = y] \in [Binding -> BindType]
  BY DEF NatType
<1>2. t = [s EXCEPT !.bind = [s.bind EXCEPT ![b] = y]]
  BY DEF Rebind
<1>3. PICK bind \in [Binding -> BindType] : bind = [s.bind EXCEPT ![b] = y]
  BY <1>1
<1>4. bind[b] = y /\ \A c \in Binding \ {b} : bind[c] = s.bind[c]
  BY <1>3 DEF NatType
<1>5. t = [s EXCEPT !.bind = bind]
  BY <1>2, <1>3
<1>6. t \in NatType
  BY <1>5, ZenonT(60) DEF NatType
<1>7. OnlyBindings(s, t) /\ t.bind = bind
  BY <1>5, SMTT(30) DEF NatType, OnlyBindings
<1> QED BY <1>4, <1>6, <1>7

\* The updates of one field.
SetRemove(s, b, new)    == [s EXCEPT !.bind[b].toRemove = new]
SetAdd(s, b, new)       == [s EXCEPT !.bind[b].toAdd = new]
SetBindState(s, b, new) == [s EXCEPT !.bind[b].state = new]
Begins(s, b, new)       == [s EXCEPT !.bind[b].retry = 0, !.bind[b].state = new]
SetExt(s, b, new)       == [s EXCEPT !.bind[b].ext = new]

-----------------------------------------------------------------------------
(* The pointers to a binding, and the replies to come                      *)

Slots(s, b)   == {x \in Slot : s.at[x] = b}
Places(q, b)  == {i \in DOMAIN q : q[i] = b}
Answers(f, b) == {p \in (DOMAIN f) \X (Nat \ {0}) : p[1].b = b /\ p[2] <= f[p[1]]}

One(x, b) == IF x = b THEN 1 ELSE 0

LEMMA SlotsFinite ==
  ASSUME NEW s, NEW b
  PROVE  IsFiniteSet(Slots(s, b)) /\ Cardinality(Slots(s, b)) \in Nat
<1>1. IsFiniteSet(Slot) /\ Slots(s, b) \in SUBSET Slot
  BY UpnpAssumption DEF Slots
<1>2. IsFiniteSet(Slots(s, b))
  BY <1>1, FS_Subset
<1> QED BY <1>2, FS_CardinalityType

LEMMA PlacesFinite ==
  ASSUME NEW q \in Seq(Binding), NEW b
  PROVE  /\ IsFiniteSet(Places(q, b)) /\ Cardinality(Places(q, b)) \in Nat
         /\ Cardinality(Places(q, b)) <= Len(q)
<1>1. PICK n \in Nat : n = Len(q) /\ DOMAIN q = 1..n
  OBVIOUS
<1>2. IsFiniteSet(1..n) /\ Cardinality(1..n) = n
  <2>1. 1 \in Int /\ n \in Int /\ (IF 1 > n THEN 0 ELSE n - 1 + 1) = n
    OBVIOUS
  <2> QED BY <2>1, FS_Interval
<1>3. Places(q, b) \in SUBSET (1..n)
  BY <1>1 DEF Places
<1>4. IsFiniteSet(Places(q, b)) /\ Cardinality(Places(q, b)) <= n
  BY <1>2, <1>3, FS_Subset
<1> QED BY <1>1, <1>4, FS_CardinalityType

\* A bag of requests by its elements.
LEMMA AwaitedAre ==
  ASSUME NEW f
  PROVE  f \in Awaited <=> /\ DOMAIN f \subseteq Asked /\ IsFiniteSet(DOMAIN f)
                           /\ f = [r \in DOMAIN f |-> f[r]]
                           /\ \A r \in DOMAIN f : f[r] \in Nat \ {0}
BY DEF Awaited

\* There are finitely many replies to come.
LEMMA AnswersFinite ==
  ASSUME NEW f \in Awaited, NEW b
  PROVE  IsFiniteSet(Answers(f, b)) /\ Cardinality(Answers(f, b)) \in Nat
<1> DEFINE T == {{r} \X (1..f[r]) : r \in DOMAIN f}
           h == [r \in DOMAIN f |-> {r} \X (1..f[r])]
<1>1. ASSUME NEW r \in DOMAIN f  PROVE IsFiniteSet({r} \X (1..f[r]))
  <2>1. f[r] \in Int /\ 1 \in Int
    BY AwaitedAre
  <2>2. IsFiniteSet({r}) /\ IsFiniteSet(1..f[r])
    BY <2>1, FS_Singleton, FS_Interval
  <2> QED BY <2>2, FS_Product
<1>2. IsFiniteSet(T)
  <2>1. h \in Surjection(DOMAIN f, T)
    BY DEF Surjection
  <2>2. IsFiniteSet(DOMAIN f)
    BY AwaitedAre
  <2> QED BY <2>1, <2>2, FS_Surjection
<1>3. IsFiniteSet(UNION T)
  BY <1>1, <1>2, FS_UNION
<1>4. Answers(f, b) \in SUBSET (UNION T)
  <2> SUFFICES ASSUME NEW p \in Answers(f, b) PROVE p \in UNION T
    OBVIOUS
  <2>1. /\ p = <<p[1], p[2]>> /\ p[1] \in DOMAIN f /\ p[2] \in Nat \ {0} /\ p[2] <= f[p[1]]
        /\ f[p[1]] \in Nat
    BY AwaitedAre DEF Answers
  <2> QED BY <2>1
<1>5. IsFiniteSet(Answers(f, b))
  BY <1>3, <1>4, FS_Subset
<1> QED BY <1>5, FS_CardinalityType

\* The library took one more request.
LEMMA AnswerAdded ==
  ASSUME NEW f \in Awaited, NEW r \in Asked, NEW g, g = f (+) SetToBag({r})
  PROVE  /\ g \in Awaited
         /\ \A b : b # r.b => Answers(g, b) = Answers(f, b)
         /\ Cardinality(Answers(g, r.b)) = Cardinality(Answers(f, r.b)) + 1
<1> DEFINE n == IF r \in DOMAIN f THEN f[r] ELSE 0
<1>1. /\ DOMAIN g = DOMAIN f \cup {r}
      /\ \A x \in DOMAIN g : g[x] = IF x = r THEN n + 1 ELSE f[x]
      /\ g = [x \in DOMAIN g |-> g[x]]
  <2>1. DOMAIN g = DOMAIN f \cup {r} /\ \A x \in DOMAIN g : g[x] = IF x = r THEN n + 1 ELSE f[x]
    BY AwaitedAre DEF (+), SetToBag
  <2>2. g = [x \in DOMAIN g |-> g[x]]
    BY DEF (+)
  <2> QED BY <2>1, <2>2
<1>2. n \in Nat
  BY AwaitedAre
<1>3. g \in Awaited
  <2>1. IsFiniteSet(DOMAIN g)
    BY <1>1, AwaitedAre, FS_AddElement
  <2>2. DOMAIN f \subseteq Asked /\ \A x \in DOMAIN f : f[x] \in Nat \ {0}
    BY AwaitedAre
  <2>3. n + 1 \in Nat \ {0}
    BY <1>2
  <2> HIDE DEF n
  <2>4. DOMAIN g \subseteq Asked /\ \A x \in DOMAIN g : g[x] \in Nat \ {0}
    BY <1>1, <2>2, <2>3
  <2> QED BY <1>1, <2>1, <2>4, AwaitedAre
<1> HIDE DEF n
<1>4. ASSUME NEW b, b # r.b PROVE Answers(g, b) = Answers(f, b)
  BY <1>1, <1>4 DEF Answers
<1>5. <<r, n + 1>> \notin Answers(f, r.b)
  BY <1>2 DEF Answers, n
<1>6. Answers(g, r.b) = Answers(f, r.b) \cup {<<r, n + 1>>}
  <2>1. ASSUME NEW p \in Answers(g, r.b) PROVE p \in Answers(f, r.b) \cup {<<r, n + 1>>}
    <3>1. p \in (DOMAIN g) \X (Nat \ {0}) /\ p[1].b = r.b /\ p[2] <= g[p[1]] /\ p = <<p[1], p[2]>>
      BY DEF Answers
    <3>2. CASE p[1] # r
      BY <1>1, <3>1, <3>2 DEF Answers
    <3>3. CASE p[1] = r /\ p[2] = n + 1
      BY <3>1, <3>3
    <3>4. CASE p[1] = r /\ p[2] # n + 1
      <4>1. p[2] <= n /\ p[2] \in Nat \ {0}
        BY <1>1, <1>2, <3>1, <3>4
      <4>2. r \in DOMAIN f /\ n = f[r]
        BY <4>1 DEF n
      <4> QED BY <3>1, <3>4, <4>1, <4>2 DEF Answers
    <3> QED BY <3>2, <3>3, <3>4
  <2>2. <<r, n + 1>> \in Answers(g, r.b)
    <3>1. r \in DOMAIN g /\ g[r] = n + 1 /\ n + 1 \in Nat \ {0} /\ n + 1 <= g[r]
      BY <1>1, <1>2
    <3> QED BY <3>1 DEF Answers
  <2>3. ASSUME NEW p \in Answers(f, r.b) PROVE p \in Answers(g, r.b)
    <3>1. p \in (DOMAIN f) \X (Nat \ {0}) /\ p[1].b = r.b /\ p[2] <= f[p[1]] /\ f[p[1]] \in Nat
      BY AwaitedAre DEF Answers
    <3>2. g[p[1]] \in Nat /\ p[2] <= g[p[1]] /\ p[1] \in DOMAIN g
      BY <1>1, <1>2, <3>1 DEF n
    <3> QED BY <3>1, <3>2 DEF Answers
  <2> QED BY <2>1, <2>2, <2>3
<1> QED BY <1>3, <1>4, <1>5, <1>6, AnswersFinite, FS_AddElement

\* A reply has come.
LEMMA AnswerTaken ==
  ASSUME NEW f \in Awaited, NEW r \in DOMAIN f, NEW g, g = f (-) SetToBag({r})
  PROVE  /\ g \in Awaited
         /\ \A b : b # r.b => Answers(g, b) = Answers(f, b)
         /\ Cardinality(Answers(g, r.b)) = Cardinality(Answers(f, r.b)) - 1
<1>1. PICK n \in Nat \ {0} : n = f[r]
  BY AwaitedAre
<1>2. /\ DOMAIN g = {x \in DOMAIN f : x # r \/ n > 1}
      /\ \A x \in DOMAIN g : g[x] = IF x = r THEN n - 1 ELSE f[x]
      /\ g = [x \in DOMAIN g |-> g[x]]
  <2>1. /\ DOMAIN g = {x \in DOMAIN f : x # r \/ n > 1}
        /\ \A x \in DOMAIN g : g[x] = IF x = r THEN n - 1 ELSE f[x]
    BY <1>1, AwaitedAre DEF (-), SetToBag
  <2>2. g = [x \in DOMAIN g |-> g[x]]
    BY DEF (-)
  <2> QED BY <2>1, <2>2
<1>3. g \in Awaited
  <2>1. DOMAIN g \in SUBSET (DOMAIN f)
    BY <1>2
  <2>2. IsFiniteSet(DOMAIN g)
    BY <2>1, AwaitedAre, FS_Subset
  <2>3. DOMAIN g \subseteq Asked /\ \A x \in DOMAIN g : g[x] \in Nat \ {0}
    BY SMTT(60), <1>1, <1>2, AwaitedAre
  <2> QED BY <1>2, <2>2, <2>3, AwaitedAre
<1>4. ASSUME NEW b, b # r.b PROVE Answers(g, b) = Answers(f, b)
  <2>1. \A x \in DOMAIN f : x # r => x \in DOMAIN g /\ g[x] = f[x]
    BY <1>2
  <2>2. \A x \in DOMAIN g : x \in DOMAIN f
    BY <1>2
  <2> QED BY <1>4, <2>1, <2>2 DEF Answers
<1>5. <<r, n>> \in Answers(f, r.b)
  BY <1>1 DEF Answers
<1>6. Answers(g, r.b) = Answers(f, r.b) \ {<<r, n>>}
  <2>1. ASSUME NEW p \in Answers(g, r.b) PROVE p \in Answers(f, r.b) /\ p # <<r, n>>
    <3>1. p \in (DOMAIN g) \X (Nat \ {0}) /\ p[1].b = r.b /\ p[2] <= g[p[1]] /\ p[1] \in DOMAIN f
      BY <1>2 DEF Answers
    <3>2. p[1] # r => f[p[1]] = g[p[1]]
      BY <1>2, <3>1
    <3>3. p[1] = r => p[2] <= n - 1 /\ n - 1 < n /\ p[2] \in Nat /\ p[2] <= n /\ p[2] # n
      BY <1>1, <1>2, <3>1
    <3>4. p[2] <= f[p[1]] /\ p # <<r, n>>
      BY <1>1, <3>1, <3>2, <3>3
    <3> QED BY <3>1, <3>4 DEF Answers
  <2>2. ASSUME NEW p \in Answers(f, r.b), p # <<r, n>> PROVE p \in Answers(g, r.b)
    <3>1. p \in (DOMAIN f) \X (Nat \ {0}) /\ p[1].b = r.b /\ p[2] <= f[p[1]] /\ p = <<p[1], p[2]>>
      BY DEF Answers
    <3>2. CASE p[1] # r
      BY <1>2, <3>1, <3>2 DEF Answers
    <3>3. CASE p[1] = r
      <4>1. p[2] \in Nat \ {0} /\ p[2] <= n /\ p[2] # n
        BY <1>1, <2>2, <3>1, <3>3
      <4>2. n > 1 /\ p[2] <= n - 1
        BY <1>1, <4>1
      <4>3. r \in DOMAIN g
        BY <1>2, <4>2
      <4>4. g[r] = n - 1
        BY <1>2, <4>3
      <4>5. p[2] \in Nat \ {0}
        BY <4>1
      <4>6. p[1] \in DOMAIN g /\ p[1].b = r.b /\ p[2] <= g[p[1]]
        BY <3>1, <3>3, <4>2, <4>3, <4>4
      <4>7. p \in (DOMAIN g) \X (Nat \ {0})
        BY <3>1, <4>5, <4>6
      <4> QED BY <4>6, <4>7 DEF Answers
    <3> QED BY <3>2, <3>3
  <2> QED BY <2>1, <2>2
<1>7. PICK S : S = Answers(f, r.b)
  OBVIOUS
<1>8. IsFiniteSet(S) /\ Cardinality(S) \in Nat
  BY <1>7, AnswersFinite
<1>9. Cardinality(S \ {<<r, n>>}) = Cardinality(S) - 1
  BY <1>5, <1>7, <1>8, FS_RemoveElement
<1> QED BY <1>3, <1>4, <1>6, <1>7, <1>9

\* A binding put at the end of the list of pending ones.
Queued(q, b) == Append(q, b)

LEMMA PlaceAdded ==
  ASSUME NEW q \in Seq(Binding), NEW b \in Binding, NEW r, r = Queued(q, b)
  PROVE  /\ r \in Seq(Binding)
         /\ \A c : c # b => Places(r, c) = Places(q, c)
         /\ Cardinality(Places(r, b)) = Cardinality(Places(q, b)) + 1
<1>1. PICK n \in Nat : n = Len(q) /\ DOMAIN q = 1..n
  OBVIOUS
<1>2. r \in Seq(Binding) /\ DOMAIN r = 1..(n + 1) /\ r[n + 1] = b /\ \A i \in 1..n : r[i] = q[i]
  BY <1>1 DEF Queued
<1>3. ASSUME NEW c, c # b PROVE Places(r, c) = Places(q, c)
  BY <1>1, <1>2, <1>3 DEF Places
<1>4. Places(r, b) = Places(q, b) \cup {n + 1} /\ n + 1 \notin Places(q, b)
  BY <1>1, <1>2 DEF Places
<1> QED BY <1>2, <1>3, <1>4, PlacesFinite, FS_AddElement

Pending(s, b) == Cardinality(Places(s.pending, b))
Awaiting(s, b) == Cardinality(Answers(s.flight, b))

-----------------------------------------------------------------------------
(* Sending requests                                                        *)

\* Each request is a reference, a place in the list of pending bindings and, if the
\* library takes it, a reply to come.
SentFor(s, t, b) ==
  /\ t.bind[b].used = s.bind[b].used /\ t.bind[b].lost = s.bind[b].lost
  /\ \E n \in Nat :
       /\ n # 0 => s.bind[b].used
       /\ t.bind[b].ref = s.bind[b].ref + n /\ Pending(t, b) = Pending(s, b) + n
       /\ Awaiting(t, b) <= Awaiting(s, b) + n
       /\ "unsent" \notin s.faults => Awaiting(t, b) = Awaiting(s, b) + n

Sends(s, t) ==
  /\ t \in NatType /\ t.faults = s.faults /\ t.at = s.at /\ t.wait = s.wait /\ t.seen = s.seen
  /\ \A b \in Binding : SentFor(s, t, b)

LEMMA CountsAre ==
  ASSUME NEW s \in NatType, NEW b
  PROVE  Pending(s, b) \in Nat /\ Awaiting(s, b) \in Nat
BY PlacesFinite, AnswersFinite DEF NatType, Pending, Awaiting

LEMMA SendsOn ==
  ASSUME NEW s \in NatType, NEW t, NEW u, Sends(s, t), Sends(t, u)
  PROVE  Sends(s, u)
<1>1. ASSUME NEW b \in Binding PROVE SentFor(s, u, b)
  <2>1. t \in NatType /\ u \in NatType /\ s.bind[b] \in BindType
    BY DEF Sends, NatType
  <2>2. PICK n \in Nat :
          /\ n # 0 => s.bind[b].used
          /\ t.bind[b].ref = s.bind[b].ref + n /\ Pending(t, b) = Pending(s, b) + n
          /\ Awaiting(t, b) <= Awaiting(s, b) + n
          /\ "unsent" \notin s.faults => Awaiting(t, b) = Awaiting(s, b) + n
    BY DEF Sends, SentFor
  <2>3. PICK m \in Nat :
          /\ m # 0 => t.bind[b].used
          /\ u.bind[b].ref = t.bind[b].ref + m /\ Pending(u, b) = Pending(t, b) + m
          /\ Awaiting(u, b) <= Awaiting(t, b) + m
          /\ "unsent" \notin t.faults => Awaiting(u, b) = Awaiting(t, b) + m
    BY DEF Sends, SentFor
  <2>4. /\ t.bind[b].used = s.bind[b].used /\ t.bind[b].lost = s.bind[b].lost
        /\ u.bind[b].used = t.bind[b].used /\ u.bind[b].lost = t.bind[b].lost
        /\ t.faults = s.faults /\ s.bind[b].ref \in Nat
    BY <2>1 DEF Sends, SentFor, BindType
  <2>5. /\ Pending(s, b) \in Nat /\ Awaiting(s, b) \in Nat /\ Awaiting(t, b) \in Nat
        /\ Awaiting(u, b) \in Nat
    BY <2>1, CountsAre
  <2>6. /\ n + m \in Nat /\ (n + m # 0 => s.bind[b].used)
        /\ u.bind[b].ref = s.bind[b].ref + (n + m) /\ Pending(u, b) = Pending(s, b) + (n + m)
        /\ Awaiting(u, b) <= Awaiting(s, b) + (n + m)
        /\ "unsent" \notin s.faults => Awaiting(u, b) = Awaiting(s, b) + (n + m)
    BY <2>2, <2>3, <2>4, <2>5
  <2> QED BY <2>4, <2>6 DEF SentFor
<1> QED BY <1>1 DEF Sends

\* What changes no reference sends nothing.
LEMMA NothingSent ==
  ASSUME NEW s \in NatType, NEW t \in NatType, t.faults = s.faults, t.at = s.at,
         t.wait = s.wait, t.seen = s.seen, t.pending = s.pending, t.flight = s.flight,
         \A b \in Binding : SameRefs(s.bind[b], t.bind[b])
  PROVE  Sends(s, t)
<1>1. ASSUME NEW b \in Binding PROVE SentFor(s, t, b)
  <2>1. Pending(t, b) = Pending(s, b) /\ Awaiting(t, b) = Awaiting(s, b)
    BY DEF Pending, Awaiting
  <2>2. Pending(s, b) \in Nat /\ Awaiting(s, b) \in Nat /\ s.bind[b].ref \in Nat
    BY CountsAre DEF NatType, BindType
  <2>3. SameRefs(s.bind[b], t.bind[b])
    OBVIOUS
  <2>4. /\ t.bind[b].ref = s.bind[b].ref + 0 /\ Pending(t, b) = Pending(s, b) + 0
        /\ Awaiting(t, b) <= Awaiting(s, b) + 0 /\ Awaiting(t, b) = Awaiting(s, b) + 0
    BY <2>1, <2>2, <2>3 DEF SameRefs
  <2> QED BY <2>3, <2>4 DEF SentFor, SameRefs
<1> QED BY <1>1 DEF Sends

LEMMA SendsSelf ==
  ASSUME NEW s \in NatType
  PROVE  Sends(s, s)
BY NothingSent DEF SameRefs

\* A binding changes, but not its references.
LEMMA BindingSends ==
  ASSUME NEW s \in NatType, NEW b \in Binding, NEW y \in BindType, SameRefs(s.bind[b], y),
         NEW t, t = Rebind(s, b, y)
  PROVE  Sends(s, t) /\ t.bind[b] = y /\ t.link = s.link
<1>1. /\ t \in NatType /\ OnlyBindings(s, t) /\ t.bind[b] = y
      /\ \A c \in Binding \ {b} : t.bind[c] = s.bind[c]
  BY BindSet
<1>2. \A c \in Binding : SameRefs(s.bind[c], t.bind[c])
  BY <1>1 DEF SameRefs
<1> QED BY <1>1, <1>2, NothingSent DEF OnlyBindings

\* The same, field by field.
LEMMA FieldSends ==
  ASSUME NEW s \in NatType, NEW b \in Binding
  PROVE  /\ \A new \in BOOLEAN : Sends(s, SetRemove(s, b, new)) /\ Sends(s, SetAdd(s, b, new))
         /\ \A new \in BindState : Sends(s, SetBindState(s, b, new)) /\ Sends(s, Begins(s, b, new))
         /\ \A new \in Ext \cup {AnyExt} : Sends(s, SetExt(s, b, new))
<1>1. PICK x \in BindType : x = s.bind[b]
  BY DEF NatType
<1>2. ASSUME NEW y \in BindType, SameRefs(x, y) PROVE Sends(s, Rebind(s, b, y))
  BY <1>1, <1>2, BindingSends
<1>3. ASSUME NEW new \in BOOLEAN PROVE Sends(s, SetRemove(s, b, new))
  <2>1. PICK y : y = [x EXCEPT !.toRemove = new]
    OBVIOUS
  <2>2. SetRemove(s, b, new) = Rebind(s, b, y)
    BY <1>1, <2>1 DEF SetRemove, Rebind, NatType
  <2> QED BY <1>2, <2>1, <2>2 DEF BindType, SameRefs
<1>4. ASSUME NEW new \in BOOLEAN PROVE Sends(s, SetAdd(s, b, new))
  <2>1. PICK y : y = [x EXCEPT !.toAdd = new]
    OBVIOUS
  <2>2. SetAdd(s, b, new) = Rebind(s, b, y)
    BY <1>1, <2>1 DEF SetAdd, Rebind, NatType
  <2> QED BY <1>2, <2>1, <2>2 DEF BindType, SameRefs
<1>5. ASSUME NEW new \in BindState PROVE Sends(s, SetBindState(s, b, new))
  <2>1. PICK y : y = [x EXCEPT !.state = new]
    OBVIOUS
  <2>2. SetBindState(s, b, new) = Rebind(s, b, y)
    BY <1>1, <2>1 DEF SetBindState, Rebind, NatType
  <2> QED BY <1>2, <2>1, <2>2 DEF BindType, SameRefs
<1>6. ASSUME NEW new \in BindState PROVE Sends(s, Begins(s, b, new))
  <2>1. PICK y : y = [x EXCEPT !.retry = 0, !.state = new]
    OBVIOUS
  <2>2. Begins(s, b, new) = Rebind(s, b, y)
    BY <1>1, <2>1 DEF Begins, Rebind, NatType
  <2> QED BY <1>2, <2>1, <2>2 DEF BindType, SameRefs
<1>7. ASSUME NEW new \in Ext \cup {AnyExt} PROVE Sends(s, SetExt(s, b, new))
  <2>1. PICK y : y = [x EXCEPT !.ext = new]
    OBVIOUS
  <2>2. SetExt(s, b, new) = Rebind(s, b, y)
    BY <1>1, <2>1 DEF SetExt, Rebind, NatType
  <2> QED BY <1>2, <2>1, <2>2 DEF BindType, SameRefs
<1> QED BY <1>3, <1>4, <1>5, <1>6, <1>7

\* The end of both send functions.
LEMMA RequestSends ==
  ASSUME NEW s \in NatType, NEW b \in Binding, s.bind[b].used, NEW op \in {"add", "remove"},
         NEW e, Does(s, e), NEW t, t = Request(s, b, op, e)
  PROVE  Sends(s, t)
<1>1. PICK x \in BindType : x = s.bind[b]
  BY DEF NatType
<1>2. CASE x.retry >= MaxRetry
  <2>1. t = SetBindState(s, b, "ko") /\ "ko" \in BindState
    BY <1>1, <1>2 DEF Request, BindState, SetBindState
  <2> QED BY <2>1, FieldSends
<1>3. CASE ~(x.retry >= MaxRetry)
  <2>1. PICK y : y = [x EXCEPT !.retry = @ + 1, !.ext = IF @ = AnyExt THEN e.ext ELSE @,
                               !.ref = @ + 1, !.state = IF e.sent THEN @ ELSE "ko"]
    OBVIOUS
  <2>2. /\ y \in BindType /\ y.used = x.used /\ y.lost = x.lost /\ y.ref = x.ref + 1
        /\ y.ext \in Ext
    <3>1. PICK ext \in Ext : ext = IF x.ext = AnyExt THEN e.ext ELSE x.ext
      BY DEF BindType, Does, Ext
    <3>2. PICK new \in BindState : new = IF e.sent THEN x.state ELSE "ko"
      BY DEF BindType, BindState
    <3>3. PICK retry \in Nat, ref \in Nat : retry = x.retry + 1 /\ ref = x.ref + 1
      BY DEF BindType
    <3>4. y = [x EXCEPT !.retry = retry, !.ext = ext, !.ref = ref, !.state = new]
      BY <2>1, <3>1, <3>2, <3>3 DEF BindType
    <3> QED BY <3>3, <3>4 DEF BindType
  <2>3. PICK r \in Asked : r = [b |-> b, op |-> op, ext |-> y.ext]
    BY <2>2 DEF Asked
  <2>4. PICK q : q = Queued(s.pending, b)
    OBVIOUS
  <2>5. PICK f : f = IF e.sent THEN s.flight (+) SetToBag({r}) ELSE s.flight
    OBVIOUS
  <2>6. t = [s EXCEPT !.bind = [s.bind EXCEPT ![b] = y], !.pending = q, !.flight = f]
    BY <1>1, <1>3, <2>1, <2>3, <2>4, <2>5 DEF Request, Queued
  <2>7. /\ q \in Seq(Binding) /\ f \in Awaited /\ [s.bind EXCEPT ![b] = y] \in [Binding -> BindType]
        /\ \A c : c # b => Places(q, c) = Places(s.pending, c)
        /\ Cardinality(Places(q, b)) = Cardinality(Places(s.pending, b)) + 1
        /\ \A c : c # b => Answers(f, c) = Answers(s.flight, c)
        /\ Cardinality(Answers(f, b)) = Cardinality(Answers(s.flight, b)) + (IF e.sent THEN 1 ELSE 0)
    <3>1. s.pending \in Seq(Binding) /\ s.flight \in Awaited /\ s.bind \in [Binding -> BindType]
      BY DEF NatType
    <3>2. Cardinality(Answers(s.flight, b)) \in Nat
      BY <3>1, AnswersFinite
    <3>3. r.b = b
      BY <2>3
    <3>8. /\ f \in Awaited /\ \A c : c # b => Answers(f, c) = Answers(s.flight, c)
          /\ Cardinality(Answers(f, b))
               = Cardinality(Answers(s.flight, b)) + (IF e.sent THEN 1 ELSE 0)
      <4>1. CASE e.sent
        <5>1. f = s.flight (+) SetToBag({r})
          BY <2>5, <4>1
        <5>2. /\ f \in Awaited /\ \A c : c # b => Answers(f, c) = Answers(s.flight, c)
              /\ Cardinality(Answers(f, b)) = Cardinality(Answers(s.flight, b)) + 1
          BY <3>1, <3>3, <5>1, AnswerAdded
        <5> QED BY <4>1, <5>2
      <4>2. CASE ~e.sent
        BY <2>5, <3>1, <3>2, <4>2
      <4> QED BY <4>1, <4>2
    <3>6. /\ q \in Seq(Binding) /\ \A c : c # b => Places(q, c) = Places(s.pending, c)
          /\ Cardinality(Places(q, b)) = Cardinality(Places(s.pending, b)) + 1
      BY <2>4, <3>1, PlaceAdded
    <3>7. [s.bind EXCEPT ![b] = y] \in [Binding -> BindType]
      BY <2>2, <3>1
    <3> QED BY <3>6, <3>7, <3>8
  <2>8. /\ t \in NatType /\ t.bind[b] = y /\ t.pending = q /\ t.flight = f
        /\ t.faults = s.faults /\ t.at = s.at /\ t.wait = s.wait /\ t.seen = s.seen
        /\ \A c \in Binding \ {b} : t.bind[c] = s.bind[c]
    <3>1. PICK bind \in [Binding -> BindType] : bind = [s.bind EXCEPT ![b] = y]
      BY <2>7
    <3>2. bind[b] = y /\ \A c \in Binding \ {b} : bind[c] = s.bind[c]
      BY <3>1 DEF NatType
    <3>3. t = [s EXCEPT !.bind = bind, !.pending = q, !.flight = f]
      BY <2>6, <3>1
    <3>4. q \in Seq(Binding) /\ f \in Awaited
      BY <2>7
    <3>5. t \in NatType
      BY <3>3, <3>4, ZenonT(60) DEF NatType
    <3>6. /\ t.bind = bind /\ t.pending = q /\ t.flight = f
          /\ t.faults = s.faults /\ t.at = s.at /\ t.wait = s.wait /\ t.seen = s.seen
      BY <3>3, SMTT(30) DEF NatType
    <3> QED BY <3>2, <3>5, <3>6
  <2>9. ASSUME NEW c \in Binding \ {b} PROVE SentFor(s, t, c)
    <3>1. t.bind[c] = s.bind[c] /\ Pending(t, c) = Pending(s, c) /\ Awaiting(t, c) = Awaiting(s, c)
      BY <2>7, <2>8 DEF Pending, Awaiting
    <3>2. s.bind[c].ref \in Nat /\ Pending(s, c) \in Nat /\ Awaiting(s, c) \in Nat
      BY CountsAre DEF NatType, BindType
    <3>3. /\ t.bind[c].ref = s.bind[c].ref + 0 /\ Pending(t, c) = Pending(s, c) + 0
          /\ Awaiting(t, c) <= Awaiting(s, c) + 0 /\ Awaiting(t, c) = Awaiting(s, c) + 0
      BY <3>1, <3>2
    <3> QED BY <3>1, <3>3 DEF SentFor
  <2>10. SentFor(s, t, b)
    <3>1. /\ t.bind[b].used = s.bind[b].used /\ t.bind[b].lost = s.bind[b].lost
          /\ t.bind[b].ref = s.bind[b].ref + 1 /\ Pending(t, b) = Pending(s, b) + 1
          /\ Awaiting(t, b) = Awaiting(s, b) + (IF e.sent THEN 1 ELSE 0)
      BY <1>1, <2>2, <2>7, <2>8 DEF Pending, Awaiting
    <3>2. Awaiting(s, b) \in Nat
      BY CountsAre
    <3>3. /\ Awaiting(t, b) <= Awaiting(s, b) + 1
          /\ "unsent" \notin s.faults => Awaiting(t, b) = Awaiting(s, b) + 1
      BY <3>1, <3>2 DEF Does
    <3> QED BY <3>1, <3>3 DEF SentFor
  <2> QED BY <2>8, <2>9, <2>10 DEF Sends
<1> QED BY <1>2, <1>3

\* What follows a first update of the binding.
LEMMA SendsAfter ==
  ASSUME NEW s \in NatType, NEW t, Sends(s, t), NEW b \in Binding, s.bind[b].used, NEW e, Does(s, e)
  PROVE  /\ t \in NatType /\ t.bind[b].used /\ Does(t, e)
         /\ \A new \in BOOLEAN : Sends(s, SetRemove(t, b, new)) /\ Sends(s, SetAdd(t, b, new))
         /\ \A op \in {"add", "remove"} : Sends(s, Request(t, b, op, e))
         /\ \A op \in {"add", "remove"}, new \in BindState : Sends(s, Request(Begins(t, b, new), b, op, e))
<1>1. t \in NatType /\ t.bind[b].used /\ Does(t, e)
  BY DEF Sends, SentFor, Does
<1>2. ASSUME NEW new \in BOOLEAN PROVE Sends(s, SetRemove(t, b, new)) /\ Sends(s, SetAdd(t, b, new))
  <2>1. Sends(t, SetRemove(t, b, new)) /\ Sends(t, SetAdd(t, b, new))
    BY <1>1, FieldSends
  <2> QED BY <2>1, SendsOn
<1>3. ASSUME NEW op \in {"add", "remove"} PROVE Sends(s, Request(t, b, op, e))
  <2>1. Sends(t, Request(t, b, op, e))
    BY <1>1, RequestSends
  <2> QED BY <2>1, SendsOn
<1>4. ASSUME NEW op \in {"add", "remove"}, NEW new \in BindState
      PROVE  Sends(s, Request(Begins(t, b, new), b, op, e))
  <2>1. PICK u : u = Begins(t, b, new)
    OBVIOUS
  <2>2. Sends(t, u)
    BY <1>1, <2>1, FieldSends
  <2>3. u \in NatType /\ u.bind[b].used /\ Does(u, e)
    BY <1>1, <2>2 DEF Sends, SentFor, Does
  <2>4. Sends(u, Request(u, b, op, e))
    BY <2>3, RequestSends
  <2>5. Sends(s, u)
    BY <1>1, <2>2, SendsOn
  <2> QED BY <2>1, <2>4, <2>5, SendsOn
<1> QED BY <1>1, <1>2, <1>3, <1>4

\* linphone_upnp_context_send_add_port_binding()
LEMMA AddSends ==
  ASSUME NEW s \in NatType, NEW b \in Binding, s.bind[b].used, NEW retry \in BOOLEAN,
         NEW e, Does(s, e)
  PROVE  Sends(s, SendAdd(s, b, retry, e))
<1> DEFINE x == s.bind[b]
<1>1. PICK t : t = IF x.state = "adding" THEN s ELSE SetRemove(s, b, FALSE)
  OBVIOUS
<1>2. Sends(s, s) /\ Sends(s, t)
  BY <1>1, SendsSelf, FieldSends
<1>3. /\ Sends(s, SetAdd(t, b, TRUE)) /\ Sends(s, Request(s, b, "add", e))
      /\ Sends(s, Request(Begins(t, b, "adding"), b, "add", e))
  <2>1. PICK op \in {"add", "remove"}, new \in BindState : op = "add" /\ new = "adding"
    BY DEF BindState
  <2>2. Sends(s, SetAdd(t, b, TRUE)) /\ Sends(s, Request(s, b, op, e))
        /\ Sends(s, Request(Begins(t, b, new), b, op, e))
    BY <1>2, SendsAfter
  <2> QED BY <2>1, <2>2
<1>4. SendAdd(s, b, retry, e) \in
        {s, t, SetAdd(t, b, TRUE), Request(s, b, "add", e), Request(Begins(t, b, "adding"), b, "add", e)}
  BY <1>1 DEF SendAdd, SetAdd, SetRemove, Begins
<1> QED BY <1>2, <1>3, <1>4

\* linphone_upnp_context_send_remove_port_binding(), whatever state it found.
LEMMA RemoveSends ==
  ASSUME NEW s \in NatType, NEW b \in Binding, s.bind[b].used, NEW retry \in BOOLEAN,
         NEW e, Does(s, e), NEW found
  PROVE  Sends(s, RemoveFound(s, b, retry, e, found))
<1>1. PICK t : t = IF found = "removing" THEN s ELSE SetAdd(s, b, FALSE)
  OBVIOUS
<1>2. Sends(s, s) /\ Sends(s, t)
  BY <1>1, SendsSelf, FieldSends
<1>3. /\ Sends(s, SetRemove(t, b, TRUE)) /\ Sends(s, Request(s, b, "remove", e))
      /\ Sends(s, Request(Begins(t, b, "removing"), b, "remove", e))
  <2>1. PICK op \in {"add", "remove"}, new \in BindState : op = "remove" /\ new = "removing"
    BY DEF BindState
  <2>2. Sends(s, SetRemove(t, b, TRUE)) /\ Sends(s, Request(s, b, op, e))
        /\ Sends(s, Request(Begins(t, b, new), b, op, e))
    BY <1>2, SendsAfter
  <2> QED BY <2>1, <2>2
<1>4. RemoveFound(s, b, retry, e, found) \in
        {s, t, SetRemove(t, b, TRUE), Request(s, b, "remove", e),
         Request(Begins(t, b, "removing"), b, "remove", e)}
  BY <1>1 DEF RemoveFound, SetAdd, SetRemove, Begins
<1> QED BY <1>2, <1>3, <1>4

-----------------------------------------------------------------------------
(* The references                                                          *)

\* The references of a binding are those of its slots, of the places of q that are
\* left, of pointers that were dropped, and that of the function at work on h.
CountedAt(s, left, h) ==
  \A b \in Binding :
    /\ s.bind[b].ref = Cardinality(Slots(s, b)) + Cardinality(left[b]) + s.bind[b].lost + One(h, b)
    /\ s.bind[b].used <=> s.bind[b].ref # 0

Left(s) == [b \in Binding |-> Places(s.pending, b)]

\* The same, and a reply for each place but that of x, whose reply is at work.
Even(s, h, x) ==
  /\ s \in NatType /\ CountedAt(s, Left(s), h)
  /\ \A b \in Binding :
       /\ Awaiting(s, b) + One(x, b) <= Pending(s, b)
       /\ "unsent" \notin s.faults => Awaiting(s, b) + One(x, b) = Pending(s, b)

LEMMA OneIs ==
  ASSUME NEW x, NEW b
  PROVE  One(x, b) \in {0, 1} /\ (x = b => One(x, b) = 1) /\ (x # b => One(x, b) = 0)
BY DEF One

LEMMA SendsEven ==
  ASSUME NEW s, NEW h, NEW x, Even(s, h, x), NEW t, Sends(s, t)
  PROVE  Even(t, h, x)
<1>1. t \in NatType /\ s \in NatType /\ t.faults = s.faults
  BY DEF Even, Sends
<1>2. ASSUME NEW b \in Binding
      PROVE  /\ t.bind[b].ref = Cardinality(Slots(t, b)) + Cardinality(Left(t)[b]) + t.bind[b].lost + One(h, b)
             /\ t.bind[b].used <=> t.bind[b].ref # 0
             /\ Awaiting(t, b) + One(x, b) <= Pending(t, b)
             /\ "unsent" \notin t.faults => Awaiting(t, b) + One(x, b) = Pending(t, b)
  <2>1. PICK n \in Nat :
          /\ n # 0 => s.bind[b].used
          /\ t.bind[b].ref = s.bind[b].ref + n /\ Pending(t, b) = Pending(s, b) + n
          /\ Awaiting(t, b) <= Awaiting(s, b) + n
          /\ "unsent" \notin s.faults => Awaiting(t, b) = Awaiting(s, b) + n
    BY DEF Sends, SentFor
  <2>2. t.bind[b].used = s.bind[b].used /\ t.bind[b].lost = s.bind[b].lost
    BY DEF Sends, SentFor
  <2>3. Slots(t, b) = Slots(s, b)
    BY DEF Slots, Sends
  <2>4. Cardinality(Left(t)[b]) = Pending(t, b) /\ Cardinality(Left(s)[b]) = Pending(s, b)
    BY DEF Left, Pending
  <2>5. /\ Pending(s, b) \in Nat /\ Awaiting(s, b) \in Nat /\ Awaiting(t, b) \in Nat
        /\ s.bind[b].lost \in Nat /\ Cardinality(Slots(s, b)) \in Nat /\ s.bind[b].ref \in Nat
    BY <1>1, CountsAre, SlotsFinite DEF NatType, BindType
  <2>6. /\ s.bind[b].ref = Cardinality(Slots(s, b)) + Pending(s, b) + s.bind[b].lost + One(h, b)
        /\ s.bind[b].used <=> s.bind[b].ref # 0
        /\ Awaiting(s, b) + One(x, b) <= Pending(s, b)
        /\ "unsent" \notin s.faults => Awaiting(s, b) + One(x, b) = Pending(s, b)
    BY <2>4 DEF Even, CountedAt
  <2>7. One(h, b) \in {0, 1} /\ One(x, b) \in {0, 1}
    BY OneIs
  <2> QED BY <1>1, <2>1, <2>2, <2>3, <2>4, <2>5, <2>6, <2>7
<1> QED BY <1>1, <1>2 DEF Even, CountedAt

\* A slot that points elsewhere.
Point(s, y, b) == [s EXCEPT !.at[y] = b]

LEMMA PointSet ==
  ASSUME NEW s \in NatType, NEW y \in Slot, NEW b \in Binding \cup {NoBinding},
         NEW t, t = Point(s, y, b)
  PROVE  /\ t \in NatType /\ t.at[y] = b /\ t.bind = s.bind /\ t.pending = s.pending
         /\ t.flight = s.flight /\ t.faults = s.faults /\ t.wait = s.wait /\ t.seen = s.seen
         /\ \A z \in Slot \ {y} : t.at[z] = s.at[z]
         /\ \A c \in Binding :
              Cardinality(Slots(t, c)) + One(s.at[y], c) = Cardinality(Slots(s, c)) + One(b, c)
<1>1. PICK at \in [Slot -> Binding \cup {NoBinding}] : at = [s.at EXCEPT ![y] = b]
  BY DEF NatType
<1>2. t = [s EXCEPT !.at = at]
  BY <1>1 DEF Point
<1>3. /\ t \in NatType /\ t.at = at /\ t.bind = s.bind /\ t.pending = s.pending
      /\ t.flight = s.flight /\ t.faults = s.faults /\ t.wait = s.wait /\ t.seen = s.seen
  BY <1>2 DEF NatType
<1>4. t.at[y] = b /\ \A z \in Slot \ {y} : t.at[z] = s.at[z]
  BY <1>1, <1>3 DEF NatType
<1>5. ASSUME NEW c \in Binding
      PROVE  Cardinality(Slots(t, c)) + One(s.at[y], c) = Cardinality(Slots(s, c)) + One(b, c)
  <2> DEFINE R == {z \in Slot \ {y} : s.at[z] = c}
  <2>1. IsFiniteSet(R) /\ Cardinality(R) \in Nat
    <3>1. IsFiniteSet(Slot) /\ R \in SUBSET Slot
      BY UpnpAssumption
    <3> HIDE DEF R
    <3>2. IsFiniteSet(R)
      BY <3>1, FS_Subset
    <3> QED BY <3>2, FS_CardinalityType
  <2>2. y \notin R
    OBVIOUS
  <2>3. Slots(s, c) = IF s.at[y] = c THEN R \cup {y} ELSE R
    BY DEF Slots
  <2>4. Slots(t, c) = IF b = c THEN R \cup {y} ELSE R
    BY <1>4 DEF Slots
  <2> HIDE DEF R
  <2>5. Cardinality(R \cup {y}) = Cardinality(R) + 1
    BY <2>1, <2>2, FS_AddElement
  <2>6. Cardinality(Slots(s, c)) = Cardinality(R) + One(s.at[y], c)
    BY <2>1, <2>3, <2>5 DEF One
  <2>7. Cardinality(Slots(t, c)) = Cardinality(R) + One(b, c)
    BY <2>1, <2>4, <2>5 DEF One
  <2>8. One(b, c) \in {0, 1} /\ One(s.at[y], c) \in {0, 1}
    BY OneIs
  <2> QED BY <2>1, <2>6, <2>7, <2>8
<1> QED BY <1>3, <1>4, <1>5

Stays(s, t) == t.faults = s.faults /\ t.wait = s.wait /\ t.seen = s.seen

\* What Even says, number by number.
LEMMA EvenAt ==
  ASSUME NEW s, NEW h, NEW x, Even(s, h, x), NEW b \in Binding
  PROVE  /\ s \in NatType /\ s.bind[b] \in BindType /\ s.bind[b].ref \in Nat /\ s.bind[b].lost \in Nat
         /\ Cardinality(Slots(s, b)) \in Nat /\ Pending(s, b) \in Nat /\ Awaiting(s, b) \in Nat
         /\ s.bind[b].ref = Cardinality(Slots(s, b)) + Pending(s, b) + s.bind[b].lost + One(h, b)
         /\ s.bind[b].used <=> s.bind[b].ref # 0
         /\ Awaiting(s, b) + One(x, b) <= Pending(s, b)
         /\ "unsent" \notin s.faults => Awaiting(s, b) + One(x, b) = Pending(s, b)
<1>1. Cardinality(Left(s)[b]) = Pending(s, b)
  BY DEF Left, Pending
<1>2. s \in NatType
  BY DEF Even
<1>3. Cardinality(Slots(s, b)) \in Nat /\ Pending(s, b) \in Nat /\ Awaiting(s, b) \in Nat
  BY <1>2, SlotsFinite, CountsAre
<1>4. s.bind[b] \in BindType
  BY <1>2 DEF NatType
<1>5. s.bind[b].ref \in Nat /\ s.bind[b].lost \in Nat
  BY <1>4 DEF BindType
<1> QED BY <1>1, <1>2, <1>3, <1>4, <1>5 DEF Even, CountedAt

\* References counted again, the pending bindings and the replies being the same.
LEMMA EvenAgain ==
  ASSUME NEW s, NEW h, NEW x, Even(s, h, x), NEW t \in NatType, t.pending = s.pending,
         t.flight = s.flight, t.faults = s.faults, NEW k,
         \A b \in Binding :
           /\ t.bind[b].ref = Cardinality(Slots(t, b)) + Pending(s, b) + t.bind[b].lost + One(k, b)
           /\ t.bind[b].used <=> t.bind[b].ref # 0
  PROVE  Even(t, k, x)
<1>1. \A b \in Binding : Pending(t, b) = Pending(s, b) /\ Awaiting(t, b) = Awaiting(s, b)
                         /\ Cardinality(Left(t)[b]) = Pending(s, b)
  BY DEF Pending, Awaiting, Left
<1> QED BY <1>1 DEF Even, CountedAt

\* A binding that a slot, the list or the function at work points to.
LEMMA PointedUsed ==
  ASSUME NEW s, NEW h, NEW x, Even(s, h, x), NEW b \in Binding,
         h = b \/ x = b \/ (\E y \in Slot : s.at[y] = b) \/ (\E i \in DOMAIN s.pending : s.pending[i] = b)
  PROVE  s.bind[b].used
<1>1. /\ s.bind[b].ref \in Nat /\ s.bind[b].lost \in Nat /\ s \in NatType
      /\ Cardinality(Slots(s, b)) \in Nat /\ Pending(s, b) \in Nat /\ Awaiting(s, b) \in Nat
      /\ s.bind[b].ref = Cardinality(Slots(s, b)) + Pending(s, b) + s.bind[b].lost + One(h, b)
      /\ s.bind[b].used <=> s.bind[b].ref # 0
      /\ Awaiting(s, b) + One(x, b) <= Pending(s, b)
  BY EvenAt
<1>2. One(h, b) \in {0, 1} /\ One(x, b) \in {0, 1} /\ (h = b => One(h, b) = 1) /\ (x = b => One(x, b) = 1)
  BY OneIs
<1>6. PICK n \in Nat, m \in Nat, k \in Nat, o \in Nat :
        /\ n = Cardinality(Slots(s, b)) /\ m = Pending(s, b) /\ k = s.bind[b].lost /\ o = One(h, b)
        /\ s.bind[b].ref = n + m + k + o
  BY <1>1, <1>2
<1>7. n # 0 \/ m # 0 => s.bind[b].used
  <2>1. n # 0 \/ m # 0 => n + m + k + o # 0
    OBVIOUS
  <2>2. n # 0 \/ m # 0 => s.bind[b].ref # 0
    BY <1>6, <2>1
  <2> QED BY <1>1, <2>2
<1>3. CASE \E y \in Slot : s.at[y] = b
  <2>1. Slots(s, b) # {}
    BY <1>3 DEF Slots
  <2>2. Cardinality(Slots(s, b)) # 0
    BY <2>1, SlotsFinite, FS_EmptySet
  <2> QED BY <1>6, <1>7, <2>2
<1>4. CASE \E i \in DOMAIN s.pending : s.pending[i] = b
  <2>1. Places(s.pending, b) # {} /\ s.pending \in Seq(Binding)
    BY <1>1, <1>4 DEF Places, NatType
  <2>2. Cardinality(Places(s.pending, b)) # 0
    BY <2>1, PlacesFinite, FS_EmptySet
  <2>3. Pending(s, b) # 0
    BY <2>2 DEF Pending
  <2> QED BY <1>6, <1>7, <2>3
<1>5. CASE h = b \/ x = b
  BY <1>1, <1>2, <1>5
<1> QED BY <1>3, <1>4, <1>5

LEMMA NoneIs ==
  ASSUME NEW b \in Binding
  PROVE  One(NoBinding, b) = 0 /\ b # NoBinding
BY UpnpAssumption DEF One

\* A binding with other references.
LEMMA EvenRebound ==
  ASSUME NEW s, NEW h, NEW x, Even(s, h, x), NEW b \in Binding, NEW y \in BindType, NEW k,
         y.ref = Cardinality(Slots(s, b)) + Pending(s, b) + y.lost + One(k, b),
         y.used <=> y.ref # 0, \A c \in Binding \ {b} : One(k, c) = One(h, c),
         NEW t, t = Rebind(s, b, y)
  PROVE  Even(t, k, x) /\ OnlyBindings(s, t) /\ t.bind[b] = y
         /\ \A c \in Binding \ {b} : t.bind[c] = s.bind[c]
<1>1. s \in NatType
  BY DEF Even
<1>2. /\ t \in NatType /\ OnlyBindings(s, t) /\ t.bind[b] = y
      /\ \A c \in Binding \ {b} : t.bind[c] = s.bind[c]
  BY <1>1, BindSet
<1>3. ASSUME NEW c \in Binding
      PROVE  /\ t.bind[c].ref = Cardinality(Slots(t, c)) + Pending(s, c) + t.bind[c].lost + One(k, c)
             /\ t.bind[c].used <=> t.bind[c].ref # 0
  <2>1. Slots(t, c) = Slots(s, c)
    BY <1>2 DEF Slots, OnlyBindings
  <2>2. CASE c = b
    BY <1>2, <2>1, <2>2
  <2>3. CASE c # b
    <3>1. t.bind[c] = s.bind[c] /\ One(k, c) = One(h, c)
      BY <1>2, <2>3
    <3>2. /\ s.bind[c].ref = Cardinality(Slots(s, c)) + Pending(s, c) + s.bind[c].lost + One(h, c)
          /\ s.bind[c].used <=> s.bind[c].ref # 0
      BY EvenAt
    <3> QED BY <2>1, <3>1, <3>2
  <2> QED BY <2>2, <2>3
<1>4. t.pending = s.pending /\ t.flight = s.flight /\ t.faults = s.faults
  BY <1>2 DEF OnlyBindings
<1>5. Even(t, k, x)
  BY <1>2, <1>3, <1>4, EvenAgain
<1> QED BY <1>2, <1>5

LEMMA RetainEven ==
  ASSUME NEW s, NEW x, Even(s, NoBinding, x), NEW b \in Binding, s.bind[b].used,
         NEW t, t = Retain(s, b)
  PROVE  Even(t, b, x) /\ OnlyBindings(s, t)
         /\ \A c \in Binding : t.bind[c].used = s.bind[c].used
<1>1. PICK z \in BindType : z = s.bind[b]
  BY EvenAt
<1>2. PICK ref \in Nat : ref = z.ref + 1
  BY <1>1 DEF BindType
<1>3. PICK y : y = [z EXCEPT !.ref = ref]
  OBVIOUS
<1>4. y \in BindType /\ y.ref = ref /\ y.lost = z.lost /\ y.used = z.used
  BY <1>3 DEF BindType
<1>5. t = Rebind(s, b, y)
  BY <1>1, <1>2, <1>3 DEF Retain, Rebind
<1>6. /\ z.ref = Cardinality(Slots(s, b)) + Pending(s, b) + z.lost + 0
      /\ z.ref \in Nat /\ Cardinality(Slots(s, b)) \in Nat /\ Pending(s, b) \in Nat /\ z.lost \in Nat
  <2>1. /\ s.bind[b].ref \in Nat /\ s.bind[b].lost \in Nat
        /\ Cardinality(Slots(s, b)) \in Nat /\ Pending(s, b) \in Nat
        /\ s.bind[b].ref = Cardinality(Slots(s, b)) + Pending(s, b) + s.bind[b].lost + One(NoBinding, b)
    BY EvenAt
  <2> QED BY <1>1, <2>1, NoneIs
<1>7. One(b, b) = 1 /\ \A c \in Binding \ {b} : One(b, c) = One(NoBinding, c)
  BY OneIs, NoneIs DEF One
<1>8. y.ref = Cardinality(Slots(s, b)) + Pending(s, b) + y.lost + One(b, b) /\ y.ref # 0
  BY <1>2, <1>4, <1>6, <1>7
<1>9. y.used <=> y.ref # 0
  BY <1>1, <1>4, <1>8
<1>10. /\ Even(t, b, x) /\ OnlyBindings(s, t) /\ t.bind[b] = y
       /\ \A c \in Binding \ {b} : t.bind[c] = s.bind[c]
  BY <1>4, <1>5, <1>7, <1>8, <1>9, EvenRebound
<1> QED BY <1>1, <1>4, <1>10

\* linphone_upnp_port_binding_new_with_parameters()
LEMMA NewBindingIs ==
  ASSUME NEW port \in AnyPort, NEW ext \in Ext \cup {AnyExt}, NEW new \in BindState,
         NEW y, y = NewBinding(port, ext, new)
  PROVE  y \in BindType /\ y.ref = 1 /\ y.lost = 0 /\ y.used
BY DEF NewBinding, FreeBinding, BindType

LEMMA NewEven ==
  ASSUME NEW s, NEW x, Even(s, NoBinding, x), NEW b \in Binding, ~s.bind[b].used,
         NEW y \in BindType, y.ref = 1, y.lost = 0, y.used, NEW t, t = Rebind(s, b, y)
  PROVE  Even(t, b, x) /\ OnlyBindings(s, t) /\ t.bind[b].used
         /\ \A c \in Binding \ {b} : t.bind[c] = s.bind[c]
<1>3. Cardinality(Slots(s, b)) = 0 /\ Pending(s, b) = 0
  <2>1. /\ s.bind[b].ref \in Nat /\ s.bind[b].lost \in Nat
        /\ Cardinality(Slots(s, b)) \in Nat /\ Pending(s, b) \in Nat
        /\ s.bind[b].ref = Cardinality(Slots(s, b)) + Pending(s, b) + s.bind[b].lost + One(NoBinding, b)
        /\ s.bind[b].used <=> s.bind[b].ref # 0
    BY EvenAt
  <2>2. s.bind[b].ref = 0
    BY <2>1
  <2>3. PICK n \in Nat, m \in Nat, k \in Nat :
          n = Cardinality(Slots(s, b)) /\ m = Pending(s, b) /\ k = s.bind[b].lost
    BY <2>1
  <2>4. 0 = n + m + k + 0
    BY <2>1, <2>2, <2>3, NoneIs
  <2>5. n = 0 /\ m = 0
    BY <2>4
  <2> QED BY <2>3, <2>5
<1>4. One(b, b) = 1 /\ \A c \in Binding \ {b} : One(b, c) = One(NoBinding, c)
  BY OneIs, NoneIs DEF One
<1>5. y.ref = Cardinality(Slots(s, b)) + Pending(s, b) + y.lost + One(b, b) /\ y.ref # 0
  BY <1>3, <1>4
<1>6. t = Rebind(s, b, y) /\ (y.used <=> y.ref # 0)
  OBVIOUS
<1>7. /\ Even(t, b, x) /\ OnlyBindings(s, t) /\ t.bind[b] = y
      /\ \A c \in Binding \ {b} : t.bind[c] = s.bind[c]
  BY <1>4, <1>5, <1>6, EvenRebound
<1> QED BY <1>7

\* The slot takes the reference of the function at work.
LEMMA AttachEven ==
  ASSUME NEW s, NEW x, NEW b \in Binding, Even(s, b, x), NEW y \in Slot, s.at[y] = NoBinding,
         NEW t, t = Point(s, y, b)
  PROVE  Even(t, NoBinding, x) /\ t.bind = s.bind /\ Stays(s, t) /\ t.at[y] = b
<1>1. s \in NatType
  BY DEF Even
<1>2. /\ t \in NatType /\ t.at[y] = b /\ t.bind = s.bind /\ t.pending = s.pending
      /\ t.flight = s.flight /\ t.faults = s.faults /\ t.wait = s.wait /\ t.seen = s.seen
      /\ \A c \in Binding :
           Cardinality(Slots(t, c)) + One(NoBinding, c) = Cardinality(Slots(s, c)) + One(b, c)
  BY <1>1, PointSet
<1>3. ASSUME NEW c \in Binding
      PROVE  /\ t.bind[c].ref = Cardinality(Slots(t, c)) + Pending(s, c) + t.bind[c].lost + One(NoBinding, c)
             /\ t.bind[c].used <=> t.bind[c].ref # 0
  <2>1. /\ s.bind[c].ref \in Nat /\ s.bind[c].lost \in Nat
        /\ Cardinality(Slots(s, c)) \in Nat /\ Pending(s, c) \in Nat
        /\ s.bind[c].ref = Cardinality(Slots(s, c)) + Pending(s, c) + s.bind[c].lost + One(b, c)
        /\ s.bind[c].used <=> s.bind[c].ref # 0
    BY EvenAt
  <2>2. One(NoBinding, c) = 0 /\ One(b, c) \in {0, 1} /\ Cardinality(Slots(t, c)) \in Nat
    BY NoneIs, OneIs, SlotsFinite
  <2>3. Cardinality(Slots(t, c)) = Cardinality(Slots(s, c)) + One(b, c)
    BY <1>2, <2>1, <2>2
  <2> QED BY <1>2, <2>1, <2>2, <2>3
<1>4. Even(t, NoBinding, x)
  BY <1>2, <1>3, EvenAgain
<1> QED BY <1>2, <1>4 DEF Stays

\* The function at work takes the reference of the slot.
LEMMA LeaveEven ==
  ASSUME NEW s, NEW x, Even(s, NoBinding, x), NEW y \in Slot, NEW b \in Binding, s.at[y] = b,
         NEW t, t = Point(s, y, NoBinding)
  PROVE  Even(t, b, x) /\ t.bind = s.bind /\ Stays(s, t) /\ t.at[y] = NoBinding
         /\ t.pending = s.pending /\ \A z \in Slot \ {y} : t.at[z] = s.at[z]
<1>1. s \in NatType
  BY DEF Even
<1>2. /\ t \in NatType /\ t.at[y] = NoBinding /\ t.bind = s.bind /\ t.pending = s.pending
      /\ t.flight = s.flight /\ t.faults = s.faults /\ t.wait = s.wait /\ t.seen = s.seen
      /\ \A c \in Binding :
           Cardinality(Slots(t, c)) + One(b, c) = Cardinality(Slots(s, c)) + One(NoBinding, c)
      /\ \A z \in Slot \ {y} : t.at[z] = s.at[z]
  BY <1>1, PointSet
<1>3. ASSUME NEW c \in Binding
      PROVE  /\ t.bind[c].ref = Cardinality(Slots(t, c)) + Pending(s, c) + t.bind[c].lost + One(b, c)
             /\ t.bind[c].used <=> t.bind[c].ref # 0
  <2>1. /\ s.bind[c].ref \in Nat /\ s.bind[c].lost \in Nat
        /\ Cardinality(Slots(s, c)) \in Nat /\ Pending(s, c) \in Nat
        /\ s.bind[c].ref = Cardinality(Slots(s, c)) + Pending(s, c) + s.bind[c].lost + One(NoBinding, c)
        /\ s.bind[c].used <=> s.bind[c].ref # 0
    BY EvenAt
  <2>2. One(NoBinding, c) = 0 /\ One(b, c) \in {0, 1} /\ Cardinality(Slots(t, c)) \in Nat
    BY NoneIs, OneIs, SlotsFinite
  <2>3. Cardinality(Slots(s, c)) = Cardinality(Slots(t, c)) + One(b, c)
    BY <1>2, <2>1, <2>2
  <2> QED BY <1>2, <2>1, <2>2, <2>3
<1>4. Even(t, b, x)
  BY <1>2, <1>3, EvenAgain
<1> QED BY <1>2, <1>4 DEF Stays

SameUse(s, t) == \A c \in Binding : t.bind[c].used = s.bind[c].used

\* No binding is taken from the heap.
Frees(s, t) == \A c \in Binding : ~s.bind[c].used => ~t.bind[c].used

LEMMA SendsStays ==
  ASSUME NEW s, NEW t, Sends(s, t)
  PROVE  Stays(s, t) /\ SameUse(s, t) /\ t.at = s.at /\ t \in NatType
BY DEF Sends, SentFor, Stays, SameUse

\* The pointer is set to NULL, the reference is lost.
LEMMA DropEven ==
  ASSUME NEW s, Even(s, NoBinding, NoBinding), NEW y \in Slot, s.at[y] \in Binding,
         NEW e, Does(s, e), NEW t, t = Drop(s, y, e)
  PROVE  Even(t, NoBinding, NoBinding) /\ Stays(s, t) /\ SameUse(s, t) /\ t.at[y] = NoBinding
<1>1. PICK b \in Binding : b = s.at[y]
  OBVIOUS
<1>2. s \in NatType /\ s.bind[b].used
  BY <1>1, PointedUsed DEF Even
<1>3. PICK u : u = SendRemove(s, b, FALSE, e)
  OBVIOUS
<1>4. Sends(s, u)
  <2>1. PICK retry \in BOOLEAN : retry = FALSE
    OBVIOUS
  <2> QED BY <1>2, <1>3, <2>1, RemoveSends DEF SendRemove
<1>5. Even(u, NoBinding, NoBinding) /\ u.at = s.at /\ Stays(s, u) /\ SameUse(s, u)
  BY <1>4, SendsEven, SendsStays
<1>6. PICK v : v = Point(u, y, NoBinding)
  OBVIOUS
<1>7. Even(v, b, NoBinding) /\ v.bind = u.bind /\ Stays(u, v) /\ v.at[y] = NoBinding
  BY <1>1, <1>5, <1>6, LeaveEven
<1>8. PICK z \in BindType : z = v.bind[b]
  BY <1>7, EvenAt
<1>9. PICK lost \in Nat : lost = z.lost + 1
  BY <1>8 DEF BindType
<1>10. PICK w : w = [z EXCEPT !.lost = lost]
  OBVIOUS
<1>11. w \in BindType /\ w.lost = z.lost + 1 /\ w.ref = z.ref /\ w.used = z.used
  BY <1>9, <1>10 DEF BindType
<1>12. t = Rebind(v, b, w)
  BY <1>1, <1>3, <1>6, <1>8, <1>9, <1>10 DEF Drop, Rebind, Point
<1>13. w.ref = Cardinality(Slots(v, b)) + Pending(v, b) + w.lost + One(NoBinding, b)
       /\ (w.used <=> w.ref # 0)
  <2>1. /\ v.bind[b].ref \in Nat /\ v.bind[b].lost \in Nat
        /\ Cardinality(Slots(v, b)) \in Nat /\ Pending(v, b) \in Nat
        /\ v.bind[b].ref = Cardinality(Slots(v, b)) + Pending(v, b) + v.bind[b].lost + One(b, b)
        /\ v.bind[b].used <=> v.bind[b].ref # 0
    BY <1>7, EvenAt
  <2>2. One(b, b) = 1 /\ One(NoBinding, b) = 0
    BY OneIs, NoneIs
  <2> QED BY <1>8, <1>11, <2>1, <2>2
<1>14. \A c \in Binding \ {b} : One(NoBinding, c) = One(b, c)
  BY OneIs, NoneIs DEF One
<1>15. /\ Even(t, NoBinding, NoBinding) /\ OnlyBindings(v, t) /\ t.bind[b] = w
       /\ \A c \in Binding \ {b} : t.bind[c] = v.bind[c]
  BY <1>7, <1>11, <1>12, <1>13, <1>14, EvenRebound
<1>16. \A c \in Binding : t.bind[c].used = v.bind[c].used
  BY <1>8, <1>11, <1>15
<1> QED BY <1>5, <1>7, <1>15, <1>16 DEF Stays, SameUse, OnlyBindings

\* A reference is given back: that of the function at work, or that of a place.
LEMMA ReleaseCounts ==
  ASSUME NEW s \in NatType, NEW left, NEW h, CountedAt(s, left, h), NEW b \in Binding,
         NEW rest, NEW k,
         \A c \in Binding :
           /\ Cardinality(left[c]) \in Nat /\ Cardinality(rest[c]) \in Nat
           /\ Cardinality(left[c]) + One(h, c) = Cardinality(rest[c]) + One(k, c) + One(b, c),
         NEW t, t = Release(s, b)
  PROVE  t \in NatType /\ OnlyBindings(s, t) /\ CountedAt(t, rest, k) /\ Frees(s, t)
<1>1. PICK z \in BindType : z = s.bind[b]
  BY DEF NatType
<1>2. PICK a \in Nat, m \in Nat, p \in Nat, o \in Nat :
        /\ a = Cardinality(Slots(s, b)) /\ m = Cardinality(rest[b]) /\ p = z.lost /\ o = One(k, b)
        /\ z.ref = a + m + p + o + 1 /\ z.ref \in Nat
  <2>1. /\ z.ref = Cardinality(Slots(s, b)) + Cardinality(left[b]) + z.lost + One(h, b)
        /\ Cardinality(left[b]) \in Nat /\ Cardinality(rest[b]) \in Nat
        /\ Cardinality(left[b]) + One(h, b) = Cardinality(rest[b]) + One(k, b) + One(b, b)
    BY <1>1 DEF CountedAt
  <2>2. Cardinality(Slots(s, b)) \in Nat /\ z.lost \in Nat /\ z.ref \in Nat
    BY <1>1, SlotsFinite DEF BindType
  <2>3. One(b, b) = 1 /\ One(k, b) \in {0, 1} /\ One(h, b) \in {0, 1}
    BY OneIs
  <2>4. PICK a \in Nat, m \in Nat, p \in Nat, o \in Nat :
          a = Cardinality(Slots(s, b)) /\ m = Cardinality(rest[b]) /\ p = z.lost /\ o = One(k, b)
    BY <2>1, <2>2, <2>3
  <2>5. PICK l \in Nat, q \in Nat : l = Cardinality(left[b]) /\ q = One(h, b)
    BY <2>1, <2>3
  <2>6. z.ref = a + l + p + q /\ l + q = m + o + 1
    BY <2>1, <2>3, <2>4, <2>5
  <2>7. z.ref = a + m + p + o + 1
    BY <2>6
  <2> QED BY <2>2, <2>4, <2>7
<1>3. PICK y : y = IF z.ref = 1 THEN FreeBinding ELSE [z EXCEPT !.ref = z.ref - 1]
  OBVIOUS
<1>4. y \in BindType /\ y.ref = z.ref - 1 /\ y.ref = a + m + y.lost + o
      /\ (y.used <=> y.ref # 0) /\ z.used
  <2>0. z.used <=> z.ref # 0
    BY <1>1 DEF CountedAt
  <2>1. CASE z.ref = 1
    <3>1. a = 0 /\ m = 0 /\ p = 0 /\ o = 0
      <4>1. 1 = a + m + p + o + 1
        BY <1>2, <2>1
      <4> QED BY <4>1
    <3>2. y \in BindType /\ y.ref = 0 /\ y.lost = 0 /\ y.used = FALSE
      BY <1>3, <2>1 DEF FreeBinding, BindType, BindState, AnyPort
    <3> QED BY <2>0, <2>1, <3>1, <3>2
  <2>2. CASE z.ref # 1
    <3>1. PICK ref \in Nat : ref = z.ref - 1
      BY <1>2
    <3>2. y = [z EXCEPT !.ref = ref]
      BY <1>3, <2>2, <3>1
    <3>3. y \in BindType /\ y.ref = ref /\ y.lost = z.lost /\ y.used = z.used
      BY <3>2 DEF BindType
    <3>4. ref # 0 /\ z.ref # 0 /\ ref = a + m + p + o
      BY <1>2, <2>2, <3>1
    <3> QED BY <1>2, <2>0, <3>1, <3>3, <3>4
  <2> QED BY <2>1, <2>2
<1>5. t = Rebind(s, b, y)
  BY <1>1, <1>3 DEF Release, Rebind
<1>6. /\ t \in NatType /\ OnlyBindings(s, t) /\ t.bind[b] = y
      /\ \A c \in Binding \ {b} : t.bind[c] = s.bind[c]
  BY <1>4, <1>5, BindSet
<1>7. ASSUME NEW c \in Binding
      PROVE  /\ t.bind[c].ref = Cardinality(Slots(t, c)) + Cardinality(rest[c]) + t.bind[c].lost + One(k, c)
             /\ t.bind[c].used <=> t.bind[c].ref # 0
  <2>1. Slots(t, c) = Slots(s, c)
    BY <1>6 DEF Slots, OnlyBindings
  <2>2. CASE c = b
    BY <1>2, <1>4, <1>6, <2>1, <2>2
  <2>3. CASE c # b
    <3>1. t.bind[c] = s.bind[c] /\ One(b, c) = 0 /\ One(k, c) \in {0, 1} /\ One(h, c) \in {0, 1}
      BY <1>6, <2>3, OneIs
    <3>2. /\ s.bind[c].ref = Cardinality(Slots(s, c)) + Cardinality(left[c]) + s.bind[c].lost + One(h, c)
          /\ s.bind[c].used <=> s.bind[c].ref # 0
      BY DEF CountedAt
    <3>3. Cardinality(Slots(s, c)) \in Nat /\ s.bind[c].lost \in Nat
      BY SlotsFinite DEF NatType, BindType
    <3>4. /\ Cardinality(left[c]) \in Nat /\ Cardinality(rest[c]) \in Nat
          /\ Cardinality(left[c]) + One(h, c) = Cardinality(rest[c]) + One(k, c) + One(b, c)
      OBVIOUS
    <3> QED BY <2>1, <3>1, <3>2, <3>3, <3>4
  <2> QED BY <2>2, <2>3
<1>8. Frees(s, t)
  BY <1>1, <1>4, <1>6 DEF Frees
<1> QED BY <1>6, <1>7, <1>8 DEF CountedAt

\* linphone_upnp_port_binding_release()
LEMMA ReleaseEven ==
  ASSUME NEW s, NEW b \in Binding, NEW x, Even(s, b, x), NEW t, t = Release(s, b)
  PROVE  Even(t, NoBinding, x) /\ OnlyBindings(s, t) /\ Frees(s, t)
<1>1. s \in NatType /\ CountedAt(s, Left(s), b)
  BY DEF Even
<1>2. ASSUME NEW c \in Binding
      PROVE  /\ Cardinality(Left(s)[c]) \in Nat
             /\ Cardinality(Left(s)[c]) + One(b, c) = Cardinality(Left(s)[c]) + One(NoBinding, c) + One(b, c)
  <2>1. Cardinality(Left(s)[c]) \in Nat
    BY <1>1, PlacesFinite DEF Left, NatType
  <2>2. One(NoBinding, c) = 0 /\ One(b, c) \in {0, 1}
    BY NoneIs, OneIs
  <2> QED BY <2>1, <2>2
<1>3. t \in NatType /\ OnlyBindings(s, t) /\ CountedAt(t, Left(s), NoBinding) /\ Frees(s, t)
  BY <1>1, <1>2, ReleaseCounts
<1>4. Left(t) = Left(s) /\ t.faults = s.faults /\ \A c \in Binding : Awaiting(t, c) = Awaiting(s, c) /\ Pending(t, c) = Pending(s, c)
  BY <1>3 DEF Left, OnlyBindings, Pending, Awaiting
<1> QED BY <1>3, <1>4 DEF Even

-----------------------------------------------------------------------------
(* Counting up to a number                                                 *)

LEMMA LeastNat ==
  ASSUME NEW T, T \subseteq Nat, T # {}
  PROVE  \E m \in T : \A k \in T : m <= k
<1>1. PICK m \in T : \A k \in T : ~ (<<k, m>> \in OpToRel(<, Nat))
  BY NatLessThanWellFounded, WFMin
<1>2. \A k \in T : ~ (k < m)
  BY <1>1 DEF OpToRel
<1> QED BY <1>2

LEMMA Counting ==
  ASSUME NEW n \in Nat, NEW B, 0 \in B, \A i \in 1..n : i - 1 \in B => i \in B
  PROVE  \A i \in 0..n : i \in B
<1> DEFINE T == {i \in 0..n : i \notin B}
<1> SUFFICES ASSUME T # {} PROVE FALSE
  OBVIOUS
<1>1. PICK m \in T : \A k \in T : m <= k
  <2>1. T \subseteq Nat /\ T # {}
    OBVIOUS
  <2> HIDE DEF T
  <2> QED BY <2>1, LeastNat
<1>2. m # 0 /\ m \in 1..n
  BY <1>1
<1>3. m - 1 \notin T /\ m - 1 \in 0..n
  BY <1>1, <1>2
<1> QED BY <1>1, <1>2, <1>3

LEMMA MaxIs ==
  ASSUME NEW n \in Nat, NEW T, T \subseteq 1..n, T # {}
  PROVE  Max(T) \in T /\ \A k \in T : k <= Max(T)
<1> DEFINE U == {n - k : k \in T}
<1>4. \A k \in T : k \in 1..n /\ n - k \in Nat
  OBVIOUS
<1>1. PICK m \in U : \A k \in U : m <= k
  <2>1. U \subseteq Nat /\ U # {}
    BY <1>4
  <2> HIDE DEF U
  <2> QED BY <2>1, LeastNat
<1>2. PICK x \in T : m = n - x
  BY <1>1
<1>3. \A k \in T : k <= x
  <2> TAKE k \in T
  <2>1. n - k \in U
    OBVIOUS
  <2>2. n - x <= n - k /\ k \in 1..n /\ x \in 1..n
    BY <1>1, <1>2, <1>4, <2>1
  <2> QED BY <2>2
<1> QED BY <1>2, <1>3 DEF Max

LEMMA MinIs ==
  ASSUME NEW I, I \subseteq Nat, I # {}
  PROVE  Min(I) \in I
<1>1. PICK m \in I : \A k \in I : m <= k
  BY LeastNat
<1> QED BY <1>1 DEF Min

-----------------------------------------------------------------------------
(* A reply comes                                                           *)

Taken(s, r) == [s EXCEPT !.flight = @ (-) SetToBag({r})]

LEMMA TakenEven ==
  ASSUME NEW s, Even(s, NoBinding, NoBinding), NEW r \in DOMAIN s.flight, NEW t, t = Taken(s, r)
  PROVE  /\ r \in Asked /\ Even(t, NoBinding, r.b) /\ Stays(s, t) /\ t.bind = s.bind
         /\ t.pending = s.pending
<1>1. s \in NatType /\ s.flight \in Awaited
  BY DEF Even, NatType
<1>2. r \in Asked /\ r.b \in Binding
  BY <1>1, AwaitedAre DEF Asked
<1>3. PICK f : f = s.flight (-) SetToBag({r})
  OBVIOUS
<1>4. /\ f \in Awaited
      /\ \A b : b # r.b => Answers(f, b) = Answers(s.flight, b)
      /\ Cardinality(Answers(f, r.b)) = Cardinality(Answers(s.flight, r.b)) - 1
  BY <1>1, <1>3, AnswerTaken
<1>5. t = [s EXCEPT !.flight = f]
  BY <1>3 DEF Taken
<1>6. t \in NatType /\ t.flight = f /\ t.at = s.at /\ Stays(s, t) /\ t.bind = s.bind /\ t.pending = s.pending
  BY <1>1, <1>4, <1>5 DEF NatType, Stays
<1>7. CountedAt(t, Left(t), NoBinding)
  <2>1. Left(t) = Left(s) /\ \A b \in Binding : Slots(t, b) = Slots(s, b)
    BY <1>6 DEF Left, Slots
  <2> QED BY <1>6, <2>1 DEF Even, CountedAt
<1>8. ASSUME NEW b \in Binding
      PROVE  /\ Awaiting(t, b) + One(r.b, b) <= Pending(t, b)
             /\ "unsent" \notin t.faults => Awaiting(t, b) + One(r.b, b) = Pending(t, b)
  <2>1. /\ Pending(s, b) \in Nat /\ Awaiting(s, b) \in Nat
        /\ Awaiting(s, b) + One(NoBinding, b) <= Pending(s, b)
        /\ "unsent" \notin s.faults => Awaiting(s, b) + One(NoBinding, b) = Pending(s, b)
    BY EvenAt
  <2>2. One(NoBinding, b) = 0 /\ Pending(t, b) = Pending(s, b) /\ t.faults = s.faults
    BY <1>6, NoneIs DEF Pending, Stays
  <2>3. CASE b = r.b
    <3>1. Awaiting(t, b) = Awaiting(s, b) - 1 /\ One(r.b, b) = 1
      BY <1>4, <1>6, <2>3, OneIs DEF Awaiting
    <3> QED BY <2>1, <2>2, <3>1
  <2>4. CASE b # r.b
    <3>1. Awaiting(t, b) = Awaiting(s, b) /\ One(r.b, b) = 0
      BY <1>4, <1>6, <2>4, OneIs DEF Awaiting
    <3> QED BY <2>1, <2>2, <3>1
  <2> QED BY <2>3, <2>4
<1> QED BY <1>2, <1>6, <1>7, <1>8 DEF Even

\* The first place of a binding leaves the list.
LEMMA PlaceTaken ==
  ASSUME NEW q \in Seq(Binding), NEW b \in Binding, Places(q, b) # {}, NEW r, r = RemoveFirst(q, b)
  PROVE  /\ r \in Seq(Binding)
         /\ Cardinality(Places(r, b)) = Cardinality(Places(q, b)) - 1
         /\ \A c : c # b => Cardinality(Places(r, c)) = Cardinality(Places(q, c))
<1>1. PICK n \in Nat : n = Len(q) /\ DOMAIN q = 1..n /\ \A i \in 1..n : q[i] \in Binding
  OBVIOUS
<1> DEFINE I == {i \in 1..Len(q) : q[i] = b}
<1>2. I \subseteq Nat /\ I # {} /\ I \subseteq 1..n
  BY <1>1 DEF Places
<1>3. PICK k \in 1..n : k = SelectInSeq(q, LAMBDA v : v = b) /\ q[k] = b
  <2>1. Min(I) \in I
    <3> HIDE DEF I
    <3> QED BY <1>2, MinIs
  <2>2. SelectInSeq(q, LAMBDA v : v = b) = Min(I)
    BY <1>2 DEF SelectInSeq
  <2> QED BY <1>1, <2>1, <2>2
<1>4. r = SubSeq(q, 1, k - 1) \o SubSeq(q, k + 1, n)
  <2>1. \E i \in 1..Len(q) : q[i] = b
    BY <1>1, <1>3
  <2> QED BY <1>1, <1>3, <2>1 DEF RemoveFirst, RemoveAt
<1>15. k \in Nat /\ n \in Nat /\ 1 <= k /\ k <= n /\ q[k] = b
  BY <1>1, <1>3
<1>5. /\ 1..(k - 1) \subseteq 1..n /\ (k + 1)..n \subseteq 1..n
      /\ 1 \in Int /\ k - 1 \in Int /\ k + 1 \in Int /\ n \in Int
  <2>1. 1..(k - 1) \subseteq 1..n
    BY <1>15
  <2>2. (k + 1)..n \subseteq 1..n
    BY <1>15
  <2> QED BY <1>15, <2>1, <2>2
<1>6. PICK a : a = SubSeq(q, 1, k - 1)
  OBVIOUS
<1>7. PICK z : z = SubSeq(q, k + 1, n)
  OBVIOUS
<1>8. a \in Seq(Binding) /\ Len(a) = k - 1 /\ \A i \in 1..(k - 1) : a[i] = q[i]
  <2>1. \A i \in 1..(k - 1) : q[i] \in Binding
    BY <1>1, <1>5
  <2>2. /\ a \in Seq(Binding) /\ Len(a) = (IF 1 <= k - 1 THEN k - 1 - 1 + 1 ELSE 0)
        /\ \A i \in 1..(k - 1 - 1 + 1) : a[i] = q[1 + i - 1]
    BY <1>5, <1>6, <2>1, SubSeqProperties
  <2> QED BY <1>15, <2>2
<1>9. z \in Seq(Binding) /\ Len(z) = n - k /\ \A i \in 1..(n - k) : z[i] = q[k + i]
  <2>1. \A i \in (k + 1)..n : q[i] \in Binding
    BY <1>1, <1>5
  <2>2. /\ z \in Seq(Binding) /\ Len(z) = (IF k + 1 <= n THEN n - (k + 1) + 1 ELSE 0)
        /\ \A i \in 1..(n - (k + 1) + 1) : z[i] = q[(k + 1) + i - 1]
    BY <1>5, <1>7, <2>1, SubSeqProperties
  <2> QED BY <1>15, <2>2
<1>10. /\ r \in Seq(Binding) /\ DOMAIN r = 1..(n - 1)
       /\ \A i \in 1..(k - 1) : r[i] = q[i]
       /\ \A i \in k..(n - 1) : r[i] = q[i + 1]
  <2>1. /\ r \in Seq(Binding) /\ Len(r) = Len(a) + Len(z)
        /\ \A i \in 1..(Len(a) + Len(z)) : r[i] = IF i <= Len(a) THEN a[i] ELSE z[i - Len(a)]
    BY <1>4, <1>6, <1>7, <1>8, <1>9, ConcatProperties
  <2>2. Len(r) = n - 1 /\ DOMAIN r = 1..(n - 1)
    <3>1. Len(r) = n - 1
      BY <1>8, <1>9, <1>15, <2>1
    <3>2. r \in Seq(Binding)
      BY <2>1
    <3> QED BY <3>1, <3>2
  <2>3. ASSUME NEW i \in 1..(k - 1) PROVE r[i] = q[i]
    <3>1. i \in 1..(Len(a) + Len(z)) /\ i <= Len(a)
      BY <1>8, <1>9, <1>15
    <3> QED BY <1>8, <2>1, <3>1
  <2>4. ASSUME NEW i \in k..(n - 1) PROVE r[i] = q[i + 1]
    <3>1. /\ i \in 1..(Len(a) + Len(z)) /\ ~(i <= Len(a)) /\ i - Len(a) = i - k + 1
          /\ i - k + 1 \in 1..(n - k) /\ k + (i - k + 1) = i + 1
      BY <1>1, <1>15, <1>8, <1>9
    <3>2. r[i] = z[i - k + 1]
      BY <2>1, <3>1
    <3> QED BY <1>9, <3>1, <3>2
  <2> QED BY <2>1, <2>2, <2>3, <2>4
<1>11. ASSUME NEW c PROVE Cardinality(Places(r, c)) = Cardinality(Places(q, c) \ {k})
  <2> DEFINE F == Places(r, c)
             T == Places(q, c) \ {k}
             g == [i \in F |-> IF i < k THEN i ELSE i + 1]
  <2>1. F \subseteq 1..(n - 1) /\ T \subseteq 1..n
    BY <1>1, <1>10 DEF Places
  <2>2. ASSUME NEW i \in F PROVE g[i] \in T
    <3>1. i \in 1..(n - 1) /\ r[i] = c
      BY <1>10 DEF Places
    <3>2. CASE i < k
      <4>1. i \in 1..(k - 1) /\ i \in 1..n /\ i # k
        BY <1>1, <1>15, <3>1, <3>2
      <4> QED BY <1>1, <1>10, <3>1, <3>2, <4>1 DEF Places
    <3>3. CASE ~(i < k)
      <4>1. i \in k..(n - 1) /\ i + 1 \in 1..n /\ i + 1 # k
        BY <1>1, <1>15, <3>1, <3>3
      <4> QED BY <1>1, <1>10, <3>1, <3>3, <4>1 DEF Places
    <3> QED BY <3>2, <3>3
  <2>3. ASSUME NEW j \in T PROVE \E i \in F : g[i] = j
    <3>1. j \in 1..n /\ q[j] = c /\ j # k
      BY <1>1 DEF Places
    <3>2. CASE j < k
      <4>1. j \in 1..(k - 1) /\ j \in 1..(n - 1)
        BY <1>1, <1>15, <3>1, <3>2
      <4>2. j \in F /\ g[j] = j
        BY <1>10, <3>1, <3>2, <4>1 DEF Places
      <4> QED BY <4>2
    <3>3. CASE ~(j < k)
      <4>1. j - 1 \in k..(n - 1) /\ j - 1 \in 1..(n - 1) /\ j - 1 + 1 = j /\ ~(j - 1 < k)
        BY <1>1, <1>15, <3>1, <3>3
      <4>2. j - 1 \in F
        BY <1>10, <3>1, <4>1 DEF Places
      <4>3. g[j - 1] = j
        BY <4>1, <4>2
      <4> QED BY <4>2, <4>3
    <3> QED BY <3>2, <3>3
  <2>4. \A i, j \in F : g[i] = g[j] => i = j
    BY <1>1, <1>15, <2>1
  <2>5. g \in Bijection(F, T)
    <3>1. g \in [F -> T]
      BY <2>2
    <3>2. \A i, j \in F : g[i] = g[j] => i = j
      BY <2>4
    <3>3. \A j \in T : \E i \in F : g[i] = j
      BY <2>3
    <3> HIDE DEF g, F, T
    <3>4. g \in Injection(F, T)
      BY <3>1, <3>2 DEF Injection, IsInjective
    <3> QED BY <3>1, <3>3, <3>4 DEF Bijection, Surjection
  <2>6. IsFiniteSet(F)
    BY <1>10, PlacesFinite
  <2> HIDE DEF g, F, T
  <2>7. ExistsBijection(F, T)
    BY <2>5 DEF ExistsBijection
  <2>8. Cardinality(F) = Cardinality(T)
    BY <2>6, <2>7, FS_Bijection
  <2> QED BY <2>8 DEF F, T
<1>12. IsFiniteSet(Places(q, b)) /\ k \in Places(q, b)
  BY <1>1, <1>15, PlacesFinite DEF Places
<1>13. Cardinality(Places(r, b)) = Cardinality(Places(q, b)) - 1
  BY <1>11, <1>12, FS_RemoveElement
<1>14. ASSUME NEW c, c # b PROVE Cardinality(Places(r, c)) = Cardinality(Places(q, c))
  <2>1. Places(q, c) \ {k} = Places(q, c)
    BY <1>15, <1>14 DEF Places
  <2> QED BY <1>11, <2>1
<1> QED BY <1>10, <1>13, <1>14

-----------------------------------------------------------------------------
(* What is folded over a sequence, step by step                            *)

LEMMA SubsetUpTo ==
  ASSUME NEW n \in Nat, NEW m \in 1..n, NEW T \in SUBSET (1..m)
  PROVE  /\ m \in T => Max(T) = m /\ T \ {m} \in SUBSET (1..(m - 1))
         /\ m \notin T => T \in SUBSET (1..(m - 1))
         /\ T \ {Max(T)} \in SUBSET (1..m) /\ T \ {m} \in SUBSET (1..m)
<1>1. \A k \in T : k \in 1..m /\ (k # m => k \in 1..(m - 1))
  OBVIOUS
<1>2. m \in T => Max(T) = m
  <2>1. m \in T => Max(T) \in 1..m /\ m <= Max(T)
    <3>1. m \in Nat /\ T \subseteq 1..m
      OBVIOUS
    <3> QED BY <3>1, MaxIs
  <2> QED BY <1>1, <2>1
<1> QED BY <1>1, <1>2

LEMMA UpTo ==
  ASSUME NEW n \in Nat, NEW i \in 1..n
  PROVE  1..i \in SUBSET (1..n) /\ 1..i # {} /\ Max(1..i) = i /\ (1..i) \ {i} = 1..(i - 1)
<1>1. i \in 1..i
  OBVIOUS
<1>2. 1..i \in SUBSET (1..n)
  OBVIOUS
<1>3. (1..i) \ {i} = 1..(i - 1)
  OBVIOUS
<1>4. Max(1..i) = i
  <2>1. i \in Nat /\ 1..i \subseteq 1..i /\ 1..i # {}
    BY <1>1
  <2>2. Max(1..i) \in 1..i /\ \A k \in 1..i : k <= Max(1..i)
    BY <2>1, MaxIs
  <2> QED BY <1>1, <2>2
<1> QED BY <1>1, <1>2, <1>3, <1>4

ForgetRun(g, s, l, n, e) ==
  /\ g[0] = s /\ g[n] = ForgetAll(s, l, e)
  /\ \A i \in 1..n : g[i] = ForgetOld(g[i - 1], l[i], e)

LEMMA ForgetFold ==
  ASSUME NEW e, NEW s, NEW l, NEW n \in Nat, DOMAIN l = 1..n
  PROVE  \E g : ForgetRun(g, s, l, n, e)
<1> DEFINE Is(f, m) == f = [T \in SUBSET (1..m) |-> IF T = {} THEN s
                              ELSE ForgetOld(f[T \ {Max(T)}], l[Max(T)], e)]
           B == {m \in 0..n : \E f : Is(f, m)}
<1>1. 0 \in B
  <2>1. PICK f : f = [T \in SUBSET (1..0) |-> s]
    OBVIOUS
  <2>2. \A T \in SUBSET (1..0) : T = {}
    OBVIOUS
  <2>4. f = [T \in SUBSET (1..0) |-> f[T]] /\ \A T \in SUBSET (1..0) : f[T] = s
    BY <2>1
  <2>3. Is(f, 0) /\ 0 \in 0..n
    <3>1. 0 \in 0..n
      OBVIOUS
    <3>2. Is(f, 0)
      BY <2>2, <2>4
    <3> QED BY <3>1, <3>2
  <2> HIDE DEF Is
  <2> QED BY <2>3
<1>2. ASSUME NEW m \in 1..n, m - 1 \in B PROVE m \in B
  <2>1. PICK f : Is(f, m - 1)
    BY <1>2
  <2>2. PICK h : h = [T \in SUBSET (1..m) |->
                       IF m \in T THEN ForgetOld(f[T \ {m}], l[m], e) ELSE f[T]]
    OBVIOUS
  <2>3. ASSUME NEW T \in SUBSET (1..m)
        PROVE  h[T] = IF T = {} THEN s ELSE ForgetOld(h[T \ {Max(T)}], l[Max(T)], e)
    <3>1. /\ m \in T => Max(T) = m /\ T \ {m} \in SUBSET (1..(m - 1))
          /\ m \notin T => T \in SUBSET (1..(m - 1))
          /\ T \ {Max(T)} \in SUBSET (1..m) /\ T \ {m} \in SUBSET (1..m)
      BY SubsetUpTo
    <3>2. h[T] = IF m \in T THEN ForgetOld(f[T \ {m}], l[m], e) ELSE f[T]
      BY <2>2
    <3>3. \A V \in SUBSET (1..m) : m \notin V => h[V] = f[V]
      BY <2>2
    <3>4. \A V \in SUBSET (1..(m - 1)) : f[V] = IF V = {} THEN s ELSE ForgetOld(f[V \ {Max(V)}], l[Max(V)], e)
      BY <2>1
    <3>5. CASE m \in T
      <4>1. h[T \ {m}] = f[T \ {m}] /\ Max(T) = m /\ T # {}
        BY <3>1, <3>3, <3>5
      <4> QED BY <3>2, <3>5, <4>1
    <3>6. CASE m \notin T
      <4>1. h[T] = f[T] /\ h[T \ {Max(T)}] = f[T \ {Max(T)}] /\ T \in SUBSET (1..(m - 1))
        BY <3>1, <3>3, <3>6
      <4> QED BY <3>4, <4>1
    <3> QED BY <3>5, <3>6
  <2>4. Is(h, m) /\ m \in 0..n
    <3>1. m \in 0..n
      OBVIOUS
    <3>2. h = [T \in SUBSET (1..m) |-> h[T]]
      BY <2>2
    <3>3. Is(h, m)
      BY <2>3, <3>2
    <3> QED BY <3>1, <3>3
  <2> HIDE DEF Is
  <2> QED BY <2>4
<1>3. n \in B
  <2> HIDE DEF B
  <2> QED BY <1>1, <1>2, Counting
<1>4. PICK f : f = (CHOOSE h : Is(h, n)) /\ Is(f, n)
  BY <1>3
<1>5. ForgetAll(s, l, e) = f[1..n]
  BY <1>4 DEF ForgetAll, FoldLeft, MapThenFoldSet
<1>6. f[1..0] = s
  <2>1. 1..0 = {} /\ {} \in SUBSET (1..n)
    OBVIOUS
  <2> QED BY <1>4, <2>1
<1>7. ASSUME NEW i \in 1..n PROVE f[1..i] = ForgetOld(f[1..(i - 1)], l[i], e)
  <2>1. /\ 1..i \in SUBSET (1..n) /\ 1..i # {} /\ Max(1..i) = i /\ (1..i) \ {i} = 1..(i - 1)
    BY UpTo
  <2>2. f[1..i] = ForgetOld(f[(1..i) \ {Max(1..i)}], l[Max(1..i)], e)
    BY <1>4, <2>1
  <2> QED BY <2>1, <2>2
<1>8. PICK g : g = [i \in 0..n |-> f[1..i]]
  OBVIOUS
<1>9. g[0] = f[1..0] /\ g[n] = f[1..n] /\ \A i \in 1..n : g[i] = f[1..i] /\ g[i - 1] = f[1..(i - 1)]
  BY <1>8
<1>10. ASSUME NEW i \in 1..n PROVE g[i] = ForgetOld(g[i - 1], l[i], e)
  <2>1. g[i] = f[1..i] /\ g[i - 1] = f[1..(i - 1)]
    BY <1>9
  <2> QED BY <1>7, <2>1
<1>11. g[0] = s /\ g[n] = ForgetAll(s, l, e)
  BY <1>5, <1>6, <1>9
<1> QED BY <1>10, <1>11 DEF ForgetRun

RenewRun(g, s, l, n, e) ==
  /\ g[0] = s /\ g[n] = RenewAll(s, l, e)
  /\ \A i \in 1..n : g[i] = SendAdd(SendRemove(g[i - 1], l[i], TRUE, e), l[i], TRUE, e)

LEMMA RenewFold ==
  ASSUME NEW e, NEW s, NEW l, NEW n \in Nat, DOMAIN l = 1..n
  PROVE  \E g : RenewRun(g, s, l, n, e)
<1> DEFINE Is(f, m) == f = [T \in SUBSET (1..m) |-> IF T = {} THEN s
                              ELSE SendAdd(SendRemove(f[T \ {Max(T)}], l[Max(T)], TRUE, e), l[Max(T)], TRUE, e)]
           B == {m \in 0..n : \E f : Is(f, m)}
<1>1. 0 \in B
  <2>1. PICK f : f = [T \in SUBSET (1..0) |-> s]
    OBVIOUS
  <2>2. \A T \in SUBSET (1..0) : T = {}
    OBVIOUS
  <2>4. f = [T \in SUBSET (1..0) |-> f[T]] /\ \A T \in SUBSET (1..0) : f[T] = s
    BY <2>1
  <2>3. Is(f, 0) /\ 0 \in 0..n
    <3>1. 0 \in 0..n
      OBVIOUS
    <3>2. Is(f, 0)
      BY <2>2, <2>4
    <3> QED BY <3>1, <3>2
  <2> HIDE DEF Is
  <2> QED BY <2>3
<1>2. ASSUME NEW m \in 1..n, m - 1 \in B PROVE m \in B
  <2>1. PICK f : Is(f, m - 1)
    BY <1>2
  <2>2. PICK h : h = [T \in SUBSET (1..m) |->
                       IF m \in T THEN SendAdd(SendRemove(f[T \ {m}], l[m], TRUE, e), l[m], TRUE, e) ELSE f[T]]
    OBVIOUS
  <2>3. ASSUME NEW T \in SUBSET (1..m)
        PROVE  h[T] = IF T = {} THEN s ELSE SendAdd(SendRemove(h[T \ {Max(T)}], l[Max(T)], TRUE, e), l[Max(T)], TRUE, e)
    <3>1. /\ m \in T => Max(T) = m /\ T \ {m} \in SUBSET (1..(m - 1))
          /\ m \notin T => T \in SUBSET (1..(m - 1))
          /\ T \ {Max(T)} \in SUBSET (1..m) /\ T \ {m} \in SUBSET (1..m)
      BY SubsetUpTo
    <3>2. h[T] = IF m \in T THEN SendAdd(SendRemove(f[T \ {m}], l[m], TRUE, e), l[m], TRUE, e) ELSE f[T]
      BY <2>2
    <3>3. \A V \in SUBSET (1..m) : m \notin V => h[V] = f[V]
      BY <2>2
    <3>4. \A V \in SUBSET (1..(m - 1)) : f[V] = IF V = {} THEN s ELSE SendAdd(SendRemove(f[V \ {Max(V)}], l[Max(V)], TRUE, e), l[Max(V)], TRUE, e)
      BY <2>1
    <3>5. CASE m \in T
      <4>1. h[T \ {m}] = f[T \ {m}] /\ Max(T) = m /\ T # {}
        BY <3>1, <3>3, <3>5
      <4> QED BY <3>2, <3>5, <4>1
    <3>6. CASE m \notin T
      <4>1. h[T] = f[T] /\ h[T \ {Max(T)}] = f[T \ {Max(T)}] /\ T \in SUBSET (1..(m - 1))
        BY <3>1, <3>3, <3>6
      <4> QED BY <3>4, <4>1
    <3> QED BY <3>5, <3>6
  <2>4. Is(h, m) /\ m \in 0..n
    <3>1. m \in 0..n
      OBVIOUS
    <3>2. h = [T \in SUBSET (1..m) |-> h[T]]
      BY <2>2
    <3>3. Is(h, m)
      BY <2>3, <3>2
    <3> QED BY <3>1, <3>3
  <2> HIDE DEF Is
  <2> QED BY <2>4
<1>3. n \in B
  <2> HIDE DEF B
  <2> QED BY <1>1, <1>2, Counting
<1>4. PICK f : f = (CHOOSE h : Is(h, n)) /\ Is(f, n)
  BY <1>3
<1>5. RenewAll(s, l, e) = f[1..n]
  BY <1>4 DEF RenewAll, FoldLeft, MapThenFoldSet
<1>6. f[1..0] = s
  <2>1. 1..0 = {} /\ {} \in SUBSET (1..n)
    OBVIOUS
  <2> QED BY <1>4, <2>1
<1>7. ASSUME NEW i \in 1..n PROVE f[1..i] = SendAdd(SendRemove(f[1..(i - 1)], l[i], TRUE, e), l[i], TRUE, e)
  <2>1. /\ 1..i \in SUBSET (1..n) /\ 1..i # {} /\ Max(1..i) = i /\ (1..i) \ {i} = 1..(i - 1)
    BY UpTo
  <2>2. f[1..i] = SendAdd(SendRemove(f[(1..i) \ {Max(1..i)}], l[Max(1..i)], TRUE, e), l[Max(1..i)], TRUE, e)
    BY <1>4, <2>1
  <2> QED BY <2>1, <2>2
<1>8. PICK g : g = [i \in 0..n |-> f[1..i]]
  OBVIOUS
<1>9. g[0] = f[1..0] /\ g[n] = f[1..n] /\ \A i \in 1..n : g[i] = f[1..i] /\ g[i - 1] = f[1..(i - 1)]
  BY <1>8
<1>10. ASSUME NEW i \in 1..n PROVE g[i] = SendAdd(SendRemove(g[i - 1], l[i], TRUE, e), l[i], TRUE, e)
  <2>1. g[i] = f[1..i] /\ g[i - 1] = f[1..(i - 1)]
    BY <1>9
  <2> QED BY <1>7, <2>1
<1>11. g[0] = s /\ g[n] = RenewAll(s, l, e)
  BY <1>5, <1>6, <1>9
<1> QED BY <1>10, <1>11 DEF RenewRun

UpdateRun(g, s, l, n, port, moved, due, e) ==
  /\ g[0] = s /\ g[n] = UpdateEach(s, l, port, moved, due, e)
  /\ \A i \in 1..n : g[i] = UpdatePort(g[i - 1], l[i], port[l[i]], moved, due, e)

LEMMA UpdateFold ==
  ASSUME NEW port, NEW moved, NEW due, NEW e, NEW s, NEW l, NEW n \in Nat, DOMAIN l = 1..n
  PROVE  \E g : UpdateRun(g, s, l, n, port, moved, due, e)
<1> DEFINE Is(f, m) == f = [T \in SUBSET (1..m) |-> IF T = {} THEN s
                              ELSE UpdatePort(f[T \ {Max(T)}], l[Max(T)], port[l[Max(T)]], moved, due, e)]
           B == {m \in 0..n : \E f : Is(f, m)}
<1>1. 0 \in B
  <2>1. PICK f : f = [T \in SUBSET (1..0) |-> s]
    OBVIOUS
  <2>2. \A T \in SUBSET (1..0) : T = {}
    OBVIOUS
  <2>4. f = [T \in SUBSET (1..0) |-> f[T]] /\ \A T \in SUBSET (1..0) : f[T] = s
    BY <2>1
  <2>3. Is(f, 0) /\ 0 \in 0..n
    <3>1. 0 \in 0..n
      OBVIOUS
    <3>2. Is(f, 0)
      BY <2>2, <2>4
    <3> QED BY <3>1, <3>2
  <2> HIDE DEF Is
  <2> QED BY <2>3
<1>2. ASSUME NEW m \in 1..n, m - 1 \in B PROVE m \in B
  <2>1. PICK f : Is(f, m - 1)
    BY <1>2
  <2>2. PICK h : h = [T \in SUBSET (1..m) |->
                       IF m \in T THEN UpdatePort(f[T \ {m}], l[m], port[l[m]], moved, due, e) ELSE f[T]]
    OBVIOUS
  <2>3. ASSUME NEW T \in SUBSET (1..m)
        PROVE  h[T] = IF T = {} THEN s ELSE UpdatePort(h[T \ {Max(T)}], l[Max(T)], port[l[Max(T)]], moved, due, e)
    <3>1. /\ m \in T => Max(T) = m /\ T \ {m} \in SUBSET (1..(m - 1))
          /\ m \notin T => T \in SUBSET (1..(m - 1))
          /\ T \ {Max(T)} \in SUBSET (1..m) /\ T \ {m} \in SUBSET (1..m)
      BY SubsetUpTo
    <3>2. h[T] = IF m \in T THEN UpdatePort(f[T \ {m}], l[m], port[l[m]], moved, due, e) ELSE f[T]
      BY <2>2
    <3>3. \A V \in SUBSET (1..m) : m \notin V => h[V] = f[V]
      BY <2>2
    <3>4. \A V \in SUBSET (1..(m - 1)) : f[V] = IF V = {} THEN s ELSE UpdatePort(f[V \ {Max(V)}], l[Max(V)], port[l[Max(V)]], moved, due, e)
      BY <2>1
    <3>5. CASE m \in T
      <4>1. h[T \ {m}] = f[T \ {m}] /\ Max(T) = m /\ T # {}
        BY <3>1, <3>3, <3>5
      <4> QED BY <3>2, <3>5, <4>1
    <3>6. CASE m \notin T
      <4>1. h[T] = f[T] /\ h[T \ {Max(T)}] = f[T \ {Max(T)}] /\ T \in SUBSET (1..(m - 1))
        BY <3>1, <3>3, <3>6
      <4> QED BY <3>4, <4>1
    <3> QED BY <3>5, <3>6
  <2>4. Is(h, m) /\ m \in 0..n
    <3>1. m \in 0..n
      OBVIOUS
    <3>2. h = [T \in SUBSET (1..m) |-> h[T]]
      BY <2>2
    <3>3. Is(h, m)
      BY <2>3, <3>2
    <3> QED BY <3>1, <3>3
  <2> HIDE DEF Is
  <2> QED BY <2>4
<1>3. n \in B
  <2> HIDE DEF B
  <2> QED BY <1>1, <1>2, Counting
<1>4. PICK f : f = (CHOOSE h : Is(h, n)) /\ Is(f, n)
  BY <1>3
<1>5. UpdateEach(s, l, port, moved, due, e) = f[1..n]
  BY <1>4 DEF UpdateEach, FoldLeft, MapThenFoldSet
<1>6. f[1..0] = s
  <2>1. 1..0 = {} /\ {} \in SUBSET (1..n)
    OBVIOUS
  <2> QED BY <1>4, <2>1
<1>7. ASSUME NEW i \in 1..n PROVE f[1..i] = UpdatePort(f[1..(i - 1)], l[i], port[l[i]], moved, due, e)
  <2>1. /\ 1..i \in SUBSET (1..n) /\ 1..i # {} /\ Max(1..i) = i /\ (1..i) \ {i} = 1..(i - 1)
    BY UpTo
  <2>2. f[1..i] = UpdatePort(f[(1..i) \ {Max(1..i)}], l[Max(1..i)], port[l[Max(1..i)]], moved, due, e)
    BY <1>4, <2>1
  <2> QED BY <2>1, <2>2
<1>8. PICK g : g = [i \in 0..n |-> f[1..i]]
  OBVIOUS
<1>9. g[0] = f[1..0] /\ g[n] = f[1..n] /\ \A i \in 1..n : g[i] = f[1..i] /\ g[i - 1] = f[1..(i - 1)]
  BY <1>8
<1>10. ASSUME NEW i \in 1..n PROVE g[i] = UpdatePort(g[i - 1], l[i], port[l[i]], moved, due, e)
  <2>1. g[i] = f[1..i] /\ g[i - 1] = f[1..(i - 1)]
    BY <1>9
  <2> QED BY <1>7, <2>1
<1>11. g[0] = s /\ g[n] = UpdateEach(s, l, port, moved, due, e)
  BY <1>5, <1>6, <1>9
<1> QED BY <1>10, <1>11 DEF UpdateRun

RemoveRun(g, s, l, n, e) ==
  /\ g[0] = s /\ g[n] = RemoveAll(s, l, e)
  /\ \A i \in 1..n : g[i] = SendRemove(g[i - 1], l[i], TRUE, e)

LEMMA RemoveFold ==
  ASSUME NEW e, NEW s, NEW l, NEW n \in Nat, DOMAIN l = 1..n
  PROVE  \E g : RemoveRun(g, s, l, n, e)
<1> DEFINE Is(f, m) == f = [T \in SUBSET (1..m) |-> IF T = {} THEN s
                              ELSE SendRemove(f[T \ {Max(T)}], l[Max(T)], TRUE, e)]
           B == {m \in 0..n : \E f : Is(f, m)}
<1>1. 0 \in B
  <2>1. PICK f : f = [T \in SUBSET (1..0) |-> s]
    OBVIOUS
  <2>2. \A T \in SUBSET (1..0) : T = {}
    OBVIOUS
  <2>4. f = [T \in SUBSET (1..0) |-> f[T]] /\ \A T \in SUBSET (1..0) : f[T] = s
    BY <2>1
  <2>3. Is(f, 0) /\ 0 \in 0..n
    <3>1. 0 \in 0..n
      OBVIOUS
    <3>2. Is(f, 0)
      BY <2>2, <2>4
    <3> QED BY <3>1, <3>2
  <2> HIDE DEF Is
  <2> QED BY <2>3
<1>2. ASSUME NEW m \in 1..n, m - 1 \in B PROVE m \in B
  <2>1. PICK f : Is(f, m - 1)
    BY <1>2
  <2>2. PICK h : h = [T \in SUBSET (1..m) |->
                       IF m \in T THEN SendRemove(f[T \ {m}], l[m], TRUE, e) ELSE f[T]]
    OBVIOUS
  <2>3. ASSUME NEW T \in SUBSET (1..m)
        PROVE  h[T] = IF T = {} THEN s ELSE SendRemove(h[T \ {Max(T)}], l[Max(T)], TRUE, e)
    <3>1. /\ m \in T => Max(T) = m /\ T \ {m} \in SUBSET (1..(m - 1))
          /\ m \notin T => T \in SUBSET (1..(m - 1))
          /\ T \ {Max(T)} \in SUBSET (1..m) /\ T \ {m} \in SUBSET (1..m)
      BY SubsetUpTo
    <3>2. h[T] = IF m \in T THEN SendRemove(f[T \ {m}], l[m], TRUE, e) ELSE f[T]
      BY <2>2
    <3>3. \A V \in SUBSET (1..m) : m \notin V => h[V] = f[V]
      BY <2>2
    <3>4. \A V \in SUBSET (1..(m - 1)) : f[V] = IF V = {} THEN s ELSE SendRemove(f[V \ {Max(V)}], l[Max(V)], TRUE, e)
      BY <2>1
    <3>5. CASE m \in T
      <4>1. h[T \ {m}] = f[T \ {m}] /\ Max(T) = m /\ T # {}
        BY <3>1, <3>3, <3>5
      <4> QED BY <3>2, <3>5, <4>1
    <3>6. CASE m \notin T
      <4>1. h[T] = f[T] /\ h[T \ {Max(T)}] = f[T \ {Max(T)}] /\ T \in SUBSET (1..(m - 1))
        BY <3>1, <3>3, <3>6
      <4> QED BY <3>4, <4>1
    <3> QED BY <3>5, <3>6
  <2>4. Is(h, m) /\ m \in 0..n
    <3>1. m \in 0..n
      OBVIOUS
    <3>2. h = [T \in SUBSET (1..m) |-> h[T]]
      BY <2>2
    <3>3. Is(h, m)
      BY <2>3, <3>2
    <3> QED BY <3>1, <3>3
  <2> HIDE DEF Is
  <2> QED BY <2>4
<1>3. n \in B
  <2> HIDE DEF B
  <2> QED BY <1>1, <1>2, Counting
<1>4. PICK f : f = (CHOOSE h : Is(h, n)) /\ Is(f, n)
  BY <1>3
<1>5. RemoveAll(s, l, e) = f[1..n]
  BY <1>4 DEF RemoveAll, FoldLeft, MapThenFoldSet
<1>6. f[1..0] = s
  <2>1. 1..0 = {} /\ {} \in SUBSET (1..n)
    OBVIOUS
  <2> QED BY <1>4, <2>1
<1>7. ASSUME NEW i \in 1..n PROVE f[1..i] = SendRemove(f[1..(i - 1)], l[i], TRUE, e)
  <2>1. /\ 1..i \in SUBSET (1..n) /\ 1..i # {} /\ Max(1..i) = i /\ (1..i) \ {i} = 1..(i - 1)
    BY UpTo
  <2>2. f[1..i] = SendRemove(f[(1..i) \ {Max(1..i)}], l[Max(1..i)], TRUE, e)
    BY <1>4, <2>1
  <2> QED BY <2>1, <2>2
<1>8. PICK g : g = [i \in 0..n |-> f[1..i]]
  OBVIOUS
<1>9. g[0] = f[1..0] /\ g[n] = f[1..n] /\ \A i \in 1..n : g[i] = f[1..i] /\ g[i - 1] = f[1..(i - 1)]
  BY <1>8
<1>10. ASSUME NEW i \in 1..n PROVE g[i] = SendRemove(g[i - 1], l[i], TRUE, e)
  <2>1. g[i] = f[1..i] /\ g[i - 1] = f[1..(i - 1)]
    BY <1>9
  <2> QED BY <1>7, <2>1
<1>11. g[0] = s /\ g[n] = RemoveAll(s, l, e)
  BY <1>5, <1>6, <1>9
<1> QED BY <1>10, <1>11 DEF RemoveRun

DetachRun(g, s, l, n) ==
  /\ g[0] = s /\ g[n] = DetachAll(s, l)
  /\ \A i \in 1..n : g[i] = Detach(g[i - 1], l[i])

LEMMA DetachFold ==
  ASSUME NEW s, NEW l, NEW n \in Nat, DOMAIN l = 1..n
  PROVE  \E g : DetachRun(g, s, l, n)
<1> DEFINE Is(f, m) == f = [T \in SUBSET (1..m) |-> IF T = {} THEN s
                              ELSE Detach(f[T \ {Max(T)}], l[Max(T)])]
           B == {m \in 0..n : \E f : Is(f, m)}
<1>1. 0 \in B
  <2>1. PICK f : f = [T \in SUBSET (1..0) |-> s]
    OBVIOUS
  <2>2. \A T \in SUBSET (1..0) : T = {}
    OBVIOUS
  <2>4. f = [T \in SUBSET (1..0) |-> f[T]] /\ \A T \in SUBSET (1..0) : f[T] = s
    BY <2>1
  <2>3. Is(f, 0) /\ 0 \in 0..n
    <3>1. 0 \in 0..n
      OBVIOUS
    <3>2. Is(f, 0)
      BY <2>2, <2>4
    <3> QED BY <3>1, <3>2
  <2> HIDE DEF Is
  <2> QED BY <2>3
<1>2. ASSUME NEW m \in 1..n, m - 1 \in B PROVE m \in B
  <2>1. PICK f : Is(f, m - 1)
    BY <1>2
  <2>2. PICK h : h = [T \in SUBSET (1..m) |->
                       IF m \in T THEN Detach(f[T \ {m}], l[m]) ELSE f[T]]
    OBVIOUS
  <2>3. ASSUME NEW T \in SUBSET (1..m)
        PROVE  h[T] = IF T = {} THEN s ELSE Detach(h[T \ {Max(T)}], l[Max(T)])
    <3>1. /\ m \in T => Max(T) = m /\ T \ {m} \in SUBSET (1..(m - 1))
          /\ m \notin T => T \in SUBSET (1..(m - 1))
          /\ T \ {Max(T)} \in SUBSET (1..m) /\ T \ {m} \in SUBSET (1..m)
      BY SubsetUpTo
    <3>2. h[T] = IF m \in T THEN Detach(f[T \ {m}], l[m]) ELSE f[T]
      BY <2>2
    <3>3. \A V \in SUBSET (1..m) : m \notin V => h[V] = f[V]
      BY <2>2
    <3>4. \A V \in SUBSET (1..(m - 1)) : f[V] = IF V = {} THEN s ELSE Detach(f[V \ {Max(V)}], l[Max(V)])
      BY <2>1
    <3>5. CASE m \in T
      <4>1. h[T \ {m}] = f[T \ {m}] /\ Max(T) = m /\ T # {}
        BY <3>1, <3>3, <3>5
      <4> QED BY <3>2, <3>5, <4>1
    <3>6. CASE m \notin T
      <4>1. h[T] = f[T] /\ h[T \ {Max(T)}] = f[T \ {Max(T)}] /\ T \in SUBSET (1..(m - 1))
        BY <3>1, <3>3, <3>6
      <4> QED BY <3>4, <4>1
    <3> QED BY <3>5, <3>6
  <2>4. Is(h, m) /\ m \in 0..n
    <3>1. m \in 0..n
      OBVIOUS
    <3>2. h = [T \in SUBSET (1..m) |-> h[T]]
      BY <2>2
    <3>3. Is(h, m)
      BY <2>3, <3>2
    <3> QED BY <3>1, <3>3
  <2> HIDE DEF Is
  <2> QED BY <2>4
<1>3. n \in B
  <2> HIDE DEF B
  <2> QED BY <1>1, <1>2, Counting
<1>4. PICK f : f = (CHOOSE h : Is(h, n)) /\ Is(f, n)
  BY <1>3
<1>5. DetachAll(s, l) = f[1..n]
  BY <1>4 DEF DetachAll, FoldLeft, MapThenFoldSet
<1>6. f[1..0] = s
  <2>1. 1..0 = {} /\ {} \in SUBSET (1..n)
    OBVIOUS
  <2> QED BY <1>4, <2>1
<1>7. ASSUME NEW i \in 1..n PROVE f[1..i] = Detach(f[1..(i - 1)], l[i])
  <2>1. /\ 1..i \in SUBSET (1..n) /\ 1..i # {} /\ Max(1..i) = i /\ (1..i) \ {i} = 1..(i - 1)
    BY UpTo
  <2>2. f[1..i] = Detach(f[(1..i) \ {Max(1..i)}], l[Max(1..i)])
    BY <1>4, <2>1
  <2> QED BY <2>1, <2>2
<1>8. PICK g : g = [i \in 0..n |-> f[1..i]]
  OBVIOUS
<1>9. g[0] = f[1..0] /\ g[n] = f[1..n] /\ \A i \in 1..n : g[i] = f[1..i] /\ g[i - 1] = f[1..(i - 1)]
  BY <1>8
<1>10. ASSUME NEW i \in 1..n PROVE g[i] = Detach(g[i - 1], l[i])
  <2>1. g[i] = f[1..i] /\ g[i - 1] = f[1..(i - 1)]
    BY <1>9
  <2> QED BY <1>7, <2>1
<1>11. g[0] = s /\ g[n] = DetachAll(s, l)
  BY <1>5, <1>6, <1>9
<1> QED BY <1>10, <1>11 DEF DetachRun

ReleaseRun(g, s, l, n) ==
  /\ g[0] = s /\ g[n] = ReleaseAll(s, l)
  /\ \A i \in 1..n : g[i] = Release(g[i - 1], l[i])

LEMMA ReleaseFold ==
  ASSUME NEW s, NEW l, NEW n \in Nat, DOMAIN l = 1..n
  PROVE  \E g : ReleaseRun(g, s, l, n)
<1> DEFINE Is(f, m) == f = [T \in SUBSET (1..m) |-> IF T = {} THEN s
                              ELSE Release(f[T \ {Max(T)}], l[Max(T)])]
           B == {m \in 0..n : \E f : Is(f, m)}
<1>1. 0 \in B
  <2>1. PICK f : f = [T \in SUBSET (1..0) |-> s]
    OBVIOUS
  <2>2. \A T \in SUBSET (1..0) : T = {}
    OBVIOUS
  <2>4. f = [T \in SUBSET (1..0) |-> f[T]] /\ \A T \in SUBSET (1..0) : f[T] = s
    BY <2>1
  <2>3. Is(f, 0) /\ 0 \in 0..n
    <3>1. 0 \in 0..n
      OBVIOUS
    <3>2. Is(f, 0)
      BY <2>2, <2>4
    <3> QED BY <3>1, <3>2
  <2> HIDE DEF Is
  <2> QED BY <2>3
<1>2. ASSUME NEW m \in 1..n, m - 1 \in B PROVE m \in B
  <2>1. PICK f : Is(f, m - 1)
    BY <1>2
  <2>2. PICK h : h = [T \in SUBSET (1..m) |->
                       IF m \in T THEN Release(f[T \ {m}], l[m]) ELSE f[T]]
    OBVIOUS
  <2>3. ASSUME NEW T \in SUBSET (1..m)
        PROVE  h[T] = IF T = {} THEN s ELSE Release(h[T \ {Max(T)}], l[Max(T)])
    <3>1. /\ m \in T => Max(T) = m /\ T \ {m} \in SUBSET (1..(m - 1))
          /\ m \notin T => T \in SUBSET (1..(m - 1))
          /\ T \ {Max(T)} \in SUBSET (1..m) /\ T \ {m} \in SUBSET (1..m)
      BY SubsetUpTo
    <3>2. h[T] = IF m \in T THEN Release(f[T \ {m}], l[m]) ELSE f[T]
      BY <2>2
    <3>3. \A V \in SUBSET (1..m) : m \notin V => h[V] = f[V]
      BY <2>2
    <3>4. \A V \in SUBSET (1..(m - 1)) : f[V] = IF V = {} THEN s ELSE Release(f[V \ {Max(V)}], l[Max(V)])
      BY <2>1
    <3>5. CASE m \in T
      <4>1. h[T \ {m}] = f[T \ {m}] /\ Max(T) = m /\ T # {}
        BY <3>1, <3>3, <3>5
      <4> QED BY <3>2, <3>5, <4>1
    <3>6. CASE m \notin T
      <4>1. h[T] = f[T] /\ h[T \ {Max(T)}] = f[T \ {Max(T)}] /\ T \in SUBSET (1..(m - 1))
        BY <3>1, <3>3, <3>6
      <4> QED BY <3>4, <4>1
    <3> QED BY <3>5, <3>6
  <2>4. Is(h, m) /\ m \in 0..n
    <3>1. m \in 0..n
      OBVIOUS
    <3>2. h = [T \in SUBSET (1..m) |-> h[T]]
      BY <2>2
    <3>3. Is(h, m)
      BY <2>3, <3>2
    <3> QED BY <3>1, <3>3
  <2> HIDE DEF Is
  <2> QED BY <2>4
<1>3. n \in B
  <2> HIDE DEF B
  <2> QED BY <1>1, <1>2, Counting
<1>4. PICK f : f = (CHOOSE h : Is(h, n)) /\ Is(f, n)
  BY <1>3
<1>5. ReleaseAll(s, l) = f[1..n]
  BY <1>4 DEF ReleaseAll, FoldLeft, MapThenFoldSet
<1>6. f[1..0] = s
  <2>1. 1..0 = {} /\ {} \in SUBSET (1..n)
    OBVIOUS
  <2> QED BY <1>4, <2>1
<1>7. ASSUME NEW i \in 1..n PROVE f[1..i] = Release(f[1..(i - 1)], l[i])
  <2>1. /\ 1..i \in SUBSET (1..n) /\ 1..i # {} /\ Max(1..i) = i /\ (1..i) \ {i} = 1..(i - 1)
    BY UpTo
  <2>2. f[1..i] = Release(f[(1..i) \ {Max(1..i)}], l[Max(1..i)])
    BY <1>4, <2>1
  <2> QED BY <2>1, <2>2
<1>8. PICK g : g = [i \in 0..n |-> f[1..i]]
  OBVIOUS
<1>9. g[0] = f[1..0] /\ g[n] = f[1..n] /\ \A i \in 1..n : g[i] = f[1..i] /\ g[i - 1] = f[1..(i - 1)]
  BY <1>8
<1>10. ASSUME NEW i \in 1..n PROVE g[i] = Release(g[i - 1], l[i])
  <2>1. g[i] = f[1..i] /\ g[i - 1] = f[1..(i - 1)]
    BY <1>9
  <2> QED BY <1>7, <2>1
<1>11. g[0] = s /\ g[n] = ReleaseAll(s, l)
  BY <1>5, <1>6, <1>9
<1> QED BY <1>10, <1>11 DEF ReleaseRun

RemoveEachRun(g, s, l, n, e, seen) ==
  /\ g[0] = s /\ g[n] = RemoveEach(s, l, e, seen)
  /\ \A i \in 1..n : g[i] = RemoveFound(g[i - 1], g[i - 1].at[l[i]], TRUE, e, seen[l[i]])

LEMMA RemoveEachFold ==
  ASSUME NEW e, NEW seen, NEW s, NEW l, NEW n \in Nat, DOMAIN l = 1..n
  PROVE  \E g : RemoveEachRun(g, s, l, n, e, seen)
<1> DEFINE Is(f, m) == f = [T \in SUBSET (1..m) |-> IF T = {} THEN s
                              ELSE RemoveFound(f[T \ {Max(T)}], f[T \ {Max(T)}].at[l[Max(T)]], TRUE, e, seen[l[Max(T)]])]
           B == {m \in 0..n : \E f : Is(f, m)}
<1>1. 0 \in B
  <2>1. PICK f : f = [T \in SUBSET (1..0) |-> s]
    OBVIOUS
  <2>2. \A T \in SUBSET (1..0) : T = {}
    OBVIOUS
  <2>4. f = [T \in SUBSET (1..0) |-> f[T]] /\ \A T \in SUBSET (1..0) : f[T] = s
    BY <2>1
  <2>3. Is(f, 0) /\ 0 \in 0..n
    <3>1. 0 \in 0..n
      OBVIOUS
    <3>2. Is(f, 0)
      BY <2>2, <2>4
    <3> QED BY <3>1, <3>2
  <2> HIDE DEF Is
  <2> QED BY <2>3
<1>2. ASSUME NEW m \in 1..n, m - 1 \in B PROVE m \in B
  <2>1. PICK f : Is(f, m - 1)
    BY <1>2
  <2>2. PICK h : h = [T \in SUBSET (1..m) |->
                       IF m \in T THEN RemoveFound(f[T \ {m}], f[T \ {m}].at[l[m]], TRUE, e, seen[l[m]]) ELSE f[T]]
    OBVIOUS
  <2>3. ASSUME NEW T \in SUBSET (1..m)
        PROVE  h[T] = IF T = {} THEN s ELSE RemoveFound(h[T \ {Max(T)}], h[T \ {Max(T)}].at[l[Max(T)]], TRUE, e, seen[l[Max(T)]])
    <3>1. /\ m \in T => Max(T) = m /\ T \ {m} \in SUBSET (1..(m - 1))
          /\ m \notin T => T \in SUBSET (1..(m - 1))
          /\ T \ {Max(T)} \in SUBSET (1..m) /\ T \ {m} \in SUBSET (1..m)
      BY SubsetUpTo
    <3>2. h[T] = IF m \in T THEN RemoveFound(f[T \ {m}], f[T \ {m}].at[l[m]], TRUE, e, seen[l[m]]) ELSE f[T]
      BY <2>2
    <3>3. \A V \in SUBSET (1..m) : m \notin V => h[V] = f[V]
      BY <2>2
    <3>4. \A V \in SUBSET (1..(m - 1)) : f[V] = IF V = {} THEN s ELSE RemoveFound(f[V \ {Max(V)}], f[V \ {Max(V)}].at[l[Max(V)]], TRUE, e, seen[l[Max(V)]])
      BY <2>1
    <3>5. CASE m \in T
      <4>1. h[T \ {m}] = f[T \ {m}] /\ Max(T) = m /\ T # {}
        BY <3>1, <3>3, <3>5
      <4> QED BY <3>2, <3>5, <4>1
    <3>6. CASE m \notin T
      <4>1. h[T] = f[T] /\ h[T \ {Max(T)}] = f[T \ {Max(T)}] /\ T \in SUBSET (1..(m - 1))
        BY <3>1, <3>3, <3>6
      <4> QED BY <3>4, <4>1
    <3> QED BY <3>5, <3>6
  <2>4. Is(h, m) /\ m \in 0..n
    <3>1. m \in 0..n
      OBVIOUS
    <3>2. h = [T \in SUBSET (1..m) |-> h[T]]
      BY <2>2
    <3>3. Is(h, m)
      BY <2>3, <3>2
    <3> QED BY <3>1, <3>3
  <2> HIDE DEF Is
  <2> QED BY <2>4
<1>3. n \in B
  <2> HIDE DEF B
  <2> QED BY <1>1, <1>2, Counting
<1>4. PICK f : f = (CHOOSE h : Is(h, n)) /\ Is(f, n)
  BY <1>3
<1>5. RemoveEach(s, l, e, seen) = f[1..n]
  BY <1>4 DEF RemoveEach, FoldLeft, MapThenFoldSet
<1>6. f[1..0] = s
  <2>1. 1..0 = {} /\ {} \in SUBSET (1..n)
    OBVIOUS
  <2> QED BY <1>4, <2>1
<1>7. ASSUME NEW i \in 1..n PROVE f[1..i] = RemoveFound(f[1..(i - 1)], f[1..(i - 1)].at[l[i]], TRUE, e, seen[l[i]])
  <2>1. /\ 1..i \in SUBSET (1..n) /\ 1..i # {} /\ Max(1..i) = i /\ (1..i) \ {i} = 1..(i - 1)
    BY UpTo
  <2>2. f[1..i] = RemoveFound(f[(1..i) \ {Max(1..i)}], f[(1..i) \ {Max(1..i)}].at[l[Max(1..i)]], TRUE, e, seen[l[Max(1..i)]])
    BY <1>4, <2>1
  <2> QED BY <2>1, <2>2
<1>8. PICK g : g = [i \in 0..n |-> f[1..i]]
  OBVIOUS
<1>9. g[0] = f[1..0] /\ g[n] = f[1..n] /\ \A i \in 1..n : g[i] = f[1..i] /\ g[i - 1] = f[1..(i - 1)]
  BY <1>8
<1>10. ASSUME NEW i \in 1..n PROVE g[i] = RemoveFound(g[i - 1], g[i - 1].at[l[i]], TRUE, e, seen[l[i]])
  <2>1. g[i] = f[1..i] /\ g[i - 1] = f[1..(i - 1)]
    BY <1>9
  <2> QED BY <1>7, <2>1
<1>11. g[0] = s /\ g[n] = RemoveEach(s, l, e, seen)
  BY <1>5, <1>6, <1>9
<1> QED BY <1>10, <1>11 DEF RemoveEachRun

-----------------------------------------------------------------------------
(* Sets and lists                                                          *)

LEMMA ListOfSet ==
  ASSUME NEW S, IsFiniteSet(S), NEW l, l = SetToSeq(S)
  PROVE  /\ Cardinality(S) \in Nat /\ DOMAIN l = 1..Cardinality(S)
         /\ \A i \in 1..Cardinality(S) : l[i] \in S
         /\ \A i, j \in 1..Cardinality(S) : i # j => l[i] # l[j]
<1>1. PICK n \in Nat : n = Cardinality(S) /\ ExistsBijection(1..n, S)
  BY FS_CardinalityType
<1>2. \E f \in [1..n -> S] : IsInjective(f)
  BY <1>1 DEF ExistsBijection, Bijection, Injection
<1>3. l \in [1..n -> S] /\ IsInjective(l)
  BY <1>1, <1>2 DEF SetToSeq
<1> QED BY <1>1, <1>3 DEF IsInjective

\* The free bindings.
LEMMA SpareAre ==
  ASSUME NEW s
  PROVE  /\ IsFiniteSet(Unallocated(s)) /\ Cardinality(Unallocated(s)) \in Nat
         /\ Cardinality(Unallocated(s)) # 0 => Unallocated(s) # {}
<1>1. IsFiniteSet(Binding) /\ Unallocated(s) \in SUBSET Binding
  BY UpnpAssumption DEF Unallocated
<1>2. IsFiniteSet(Unallocated(s))
  BY <1>1, FS_Subset
<1> QED BY <1>2, FS_CardinalityType, FS_EmptySet

\* At most one binding more is in use.
LEMMA OneTaken ==
  ASSUME NEW s, NEW t, NEW b \in Binding,
         \A c \in Binding \ {b} : ~s.bind[c].used => ~t.bind[c].used
  PROVE  Cardinality(Unallocated(s)) <= Cardinality(Unallocated(t)) + 1
<1>1. Unallocated(s) \in SUBSET (Unallocated(t) \cup {b})
  BY DEF Unallocated
<1>2. IsFiniteSet(Unallocated(t)) /\ Cardinality(Unallocated(t)) \in Nat
      /\ Cardinality(Unallocated(s)) \in Nat
  BY SpareAre
<1>3. /\ IsFiniteSet(Unallocated(t) \cup {b})
      /\ Cardinality(Unallocated(t) \cup {b}) \in {Cardinality(Unallocated(t)), Cardinality(Unallocated(t)) + 1}
  BY <1>2, FS_AddElement
<1>4. Cardinality(Unallocated(s)) <= Cardinality(Unallocated(t) \cup {b})
  BY <1>1, <1>3, FS_Subset
<1> QED BY <1>2, <1>3, <1>4

LEMMA NoneTaken ==
  ASSUME NEW s, NEW t, SameUse(s, t)
  PROVE  Unallocated(t) = Unallocated(s)
BY DEF SameUse, Unallocated

\* What a step of the core leaves: references in order, one free binding less at most.
Works(s, t) ==
  /\ Even(t, NoBinding, NoBinding) /\ Stays(s, t)
  /\ Cardinality(Unallocated(s)) <= Cardinality(Unallocated(t)) + 1

LEMMA SendsWorks ==
  ASSUME NEW s, Even(s, NoBinding, NoBinding), NEW t, Sends(s, t)
  PROVE  Works(s, t)
<1>1. Even(t, NoBinding, NoBinding) /\ Stays(s, t) /\ SameUse(s, t)
  BY SendsEven, SendsStays
<1>2. Unallocated(t) = Unallocated(s) /\ Cardinality(Unallocated(s)) \in Nat
  BY <1>1, NoneTaken, SpareAre
<1> QED BY <1>1, <1>2 DEF Works

-----------------------------------------------------------------------------
(* The mappings of an earlier run                                          *)

LEMMA ForgetWorks ==
  ASSUME NEW s, Even(s, NoBinding, NoBinding), Unallocated(s) # {}, NEW key \in AnyKey,
         NEW e, Does(s, e), NEW t, t = ForgetOld(s, key, e)
  PROVE  Works(s, t) /\ t.at = s.at
<1> DEFINE owners == {b \in Attached(s) : s.bind[b].port = key[1]
                                          /\ s.bind[b].ext \in {AnyExt, key[2]}}
<1>1. s \in NatType /\ Attached(s) \subseteq Binding
  <2>1. s \in NatType
    BY DEF Even
  <2>2. \A x \in Slot : s.at[x] \in Binding \cup {NoBinding}
    BY <2>1 DEF NatType
  <2> QED BY <2>1, <2>2 DEF Attached
<1>2. CASE owners = {}
  <2>1. PICK old \in Unallocated(s) : old = CHOOSE c \in Unallocated(s) : TRUE
    OBVIOUS
  <2>2. old \in Binding /\ ~s.bind[old].used
    BY <2>1 DEF Unallocated
  <2>3. PICK new \in BindState : new = "ok"
    BY DEF BindState
  <2>4. PICK port \in AnyPort, ext \in Ext \cup {AnyExt} : port = key[1] /\ ext = key[2]
    BY DEF AnyKey
  <2>17. PICK y : y = NewBinding(port, ext, new)
    OBVIOUS
  <2>15. y = NewBinding(key[1], key[2], new)
    BY <2>4, <2>17
  <2>16. y \in BindType /\ y.ref = 1 /\ y.lost = 0 /\ y.used
    BY <2>17, NewBindingIs
  <2>5. PICK u : u = Rebind(s, old, y)
    OBVIOUS
  <2>6. /\ Even(u, old, NoBinding) /\ OnlyBindings(s, u) /\ u.bind[old].used
        /\ \A c \in Binding \ {old} : u.bind[c] = s.bind[c]
    BY <2>2, <2>5, <2>16, NewEven
  <2>7. PICK v : v = SendRemove(u, old, TRUE, e)
    OBVIOUS
  <2>8. Sends(u, v)
    <3>1. PICK retry \in BOOLEAN : retry = TRUE
      OBVIOUS
    <3>2. u \in NatType /\ Does(u, e)
      BY <2>6 DEF Even, Does, OnlyBindings
    <3> QED BY <2>2, <2>6, <2>7, <3>1, <3>2, RemoveSends DEF SendRemove
  <2>9. Even(v, old, NoBinding) /\ Stays(u, v) /\ SameUse(u, v) /\ v.at = u.at
    BY <2>6, <2>8, SendsEven, SendsStays
  <2>10. t = Release(v, old)
    BY <1>2, <2>1, <2>3, <2>5, <2>7, <2>15 DEF ForgetOld, Rebind
  <2>11. Even(t, NoBinding, NoBinding) /\ OnlyBindings(v, t) /\ Frees(v, t)
    BY <2>2, <2>9, <2>10, ReleaseEven
  <2>12. Stays(s, t) /\ t.at = s.at
    BY <2>6, <2>9, <2>11 DEF Stays, OnlyBindings
  <2>13. \A c \in Binding \ {old} : ~s.bind[c].used => ~t.bind[c].used
    BY <2>6, <2>9, <2>11 DEF SameUse, Frees
  <2>14. Cardinality(Unallocated(s)) <= Cardinality(Unallocated(t)) + 1
    BY <2>2, <2>13, OneTaken
  <2> QED BY <2>11, <2>12, <2>14 DEF Works
<1>3. CASE owners # {}
  <2>1. PICK b \in owners : b = CHOOSE c \in owners : TRUE
    BY <1>3
  <2>2. b \in Binding
    BY <1>1, <2>1
  <2>3. PICK new \in BindState : new = "ok"
    BY DEF BindState
  <2>4. t = SetBindState(s, b, new) \/ t = s
    BY <1>3, <2>1, <2>3 DEF ForgetOld, SetBindState
  <2>5. Sends(s, t)
    BY <1>1, <2>2, <2>4, FieldSends, SendsSelf
  <2> QED BY <2>5, SendsWorks, SendsStays
<1> QED BY <1>2, <1>3

\* linphone_upnp_update(), its first part.
LEMMA ForgetAllWorks ==
  ASSUME NEW s, Even(s, NoBinding, NoBinding), NEW K \in Config,
         Cardinality(K) <= Cardinality(Unallocated(s)), NEW e, Does(s, e),
         NEW t, t = ForgetAll(s, SetToSeq(K), e)
  PROVE  Even(t, NoBinding, NoBinding) /\ Stays(s, t) /\ t.at = s.at
<1>1. PICK l : l = SetToSeq(K)
  OBVIOUS
<1>2. PICK n \in Nat : n = Cardinality(K) /\ DOMAIN l = 1..n /\ \A i \in 1..n : l[i] \in AnyKey
  <2>1. IsFiniteSet(K) /\ K \subseteq AnyKey
    BY DEF Config
  <2> QED BY <1>1, <2>1, ListOfSet
<1>8. PICK g : ForgetRun(g, s, l, n, e)
  BY <1>2, ForgetFold
<1>3. /\ g[0] = s /\ g[n] = ForgetAll(s, l, e)
      /\ \A i \in 1..n : g[i] = ForgetOld(g[i - 1], l[i], e)
  BY <1>8 DEF ForgetRun
<1>4. PICK free \in Nat : free = Cardinality(Unallocated(s)) /\ n <= free
  BY <1>2, SpareAre
<1> DEFINE B == {i \in 0..n : /\ Even(g[i], NoBinding, NoBinding) /\ Stays(s, g[i]) /\ g[i].at = s.at
                              /\ free <= Cardinality(Unallocated(g[i])) + i}
<1>5. 0 \in B
  BY <1>3, <1>4 DEF Stays
<1>6. ASSUME NEW i \in 1..n, i - 1 \in B PROVE i \in B
  <2>1. PICK u : u = g[i - 1]
    OBVIOUS
  <2>2. /\ Even(u, NoBinding, NoBinding) /\ Stays(s, u) /\ u.at = s.at
        /\ free <= Cardinality(Unallocated(u)) + (i - 1)
    BY <1>6, <2>1
  <2>3. Unallocated(u) # {} /\ Cardinality(Unallocated(u)) \in Nat
    <3>1. PICK k \in Nat : k = Cardinality(Unallocated(u))
      BY SpareAre
    <3>2. k # 0
      BY <1>4, <2>2, <3>1
    <3> QED BY <3>1, <3>2, SpareAre
  <2>4. Does(u, e)
    BY <2>2 DEF Does, Stays
  <2>5. PICK v : v = ForgetOld(u, l[i], e) /\ v = g[i]
    BY <1>3, <2>1
  <2>6. Works(u, v) /\ v.at = u.at
    <3>1. PICK key \in AnyKey : key = l[i]
      BY <1>2
    <3>2. v = ForgetOld(u, key, e)
      BY <2>5, <3>1
    <3> QED BY <2>2, <2>3, <2>4, <3>2, ForgetWorks
  <2>7. Cardinality(Unallocated(v)) \in Nat
    BY SpareAre
  <2>8. free <= Cardinality(Unallocated(v)) + i
    BY <2>2, <2>3, <2>6, <2>7 DEF Works
  <2> QED BY <2>2, <2>5, <2>6, <2>8 DEF Works, Stays
<1>7. n \in B
  <2> HIDE DEF B
  <2> QED BY <1>5, <1>6, Counting
<1> QED BY <1>1, <1>3, <1>7

\* A step of a fold that only sends.
LEMMA SendsWorksOn ==
  ASSUME NEW s, Even(s, NoBinding, NoBinding), NEW u, Sends(s, u), NEW e, Does(s, e),
         NEW b \in Attached(s)
  PROVE  /\ u \in NatType /\ b \in Binding /\ u.bind[b].used /\ Does(u, e) /\ u.at = s.at
         /\ \A found : Sends(s, RemoveFound(u, b, TRUE, e, found))
         /\ Sends(s, SendRemove(u, b, TRUE, e))
         /\ Sends(s, SendAdd(SendRemove(u, b, TRUE, e), b, TRUE, e))
<1>1. s \in NatType /\ b \in Binding /\ s.bind[b].used
  <2>1. s \in NatType /\ b \in Binding /\ \E y \in Slot : s.at[y] = b
    BY DEF Even, Attached, NatType
  <2> QED BY <2>1, PointedUsed
<1>2. u \in NatType /\ u.bind[b].used /\ Does(u, e) /\ u.at = s.at
  BY <1>1 DEF Sends, SentFor, Does
<1>3. ASSUME NEW found PROVE Sends(s, RemoveFound(u, b, TRUE, e, found))
  <2>1. PICK retry \in BOOLEAN : retry = TRUE
    OBVIOUS
  <2>2. Sends(u, RemoveFound(u, b, retry, e, found))
    BY <1>1, <1>2, RemoveSends
  <2> QED BY <1>1, <2>1, <2>2, SendsOn
<1>4. PICK v : v = SendRemove(u, b, TRUE, e)
  OBVIOUS
<1>5. Sends(s, v)
  BY <1>3, <1>4 DEF SendRemove
<1>6. v \in NatType /\ v.bind[b].used /\ Does(v, e)
  BY <1>1, <1>5 DEF Sends, SentFor, Does
<1>7. Sends(s, SendAdd(v, b, TRUE, e))
  <2>1. PICK retry \in BOOLEAN : retry = TRUE
    OBVIOUS
  <2>2. Sends(v, SendAdd(v, b, retry, e))
    BY <1>1, <1>6, <2>1, AddSends
  <2> QED BY <1>1, <1>5, <2>1, <2>2, SendsOn
<1> QED BY <1>1, <1>2, <1>3, <1>4, <1>5, <1>7

LEMMA AttachedFinite ==
  ASSUME NEW s, NEW slots \in SUBSET Slot
  PROVE  /\ IsFiniteSet(Attached(s)) /\ IsFiniteSet({s.at[x] : x \in slots} \ {NoBinding})
         /\ IsFiniteSet({x \in slots : s.at[x] # NoBinding}) /\ IsFiniteSet(slots)
<1>1. IsFiniteSet(Slot)
  BY UpnpAssumption
<1> DEFINE S == {s.at[x] : x \in Slot}
<1>2. IsFiniteSet(S)
  <2>1. PICK f : f = [x \in Slot |-> s.at[x]]
    OBVIOUS
  <2>2. f \in Surjection(Slot, S)
    BY <2>1 DEF Surjection
  <2> HIDE DEF S
  <2> QED BY <1>1, <2>2, FS_Surjection
<1>3. Attached(s) \in SUBSET S /\ {s.at[x] : x \in slots} \ {NoBinding} \in SUBSET S
  BY DEF Attached
<1>4. IsFiniteSet(Attached(s)) /\ IsFiniteSet({s.at[x] : x \in slots} \ {NoBinding})
  <2> HIDE DEF S
  <2> QED BY <1>2, <1>3, FS_Subset
<1>5. {x \in slots : s.at[x] # NoBinding} \in SUBSET Slot
  OBVIOUS
<1>6. IsFiniteSet({x \in slots : s.at[x] # NoBinding}) /\ IsFiniteSet(slots)
  BY <1>1, <1>5, FS_Subset
<1> QED BY <1>4, <1>6

\* linphone_upnp_update(), its second part.
LEMMA RenewAllSends ==
  ASSUME NEW s, Even(s, NoBinding, NoBinding), NEW e, Does(s, e), NEW S, IsFiniteSet(S),
         S \subseteq Attached(s), NEW t, t = RenewAll(s, SetToSeq(S), e)
  PROVE  Sends(s, t)
<1>1. PICK l : l = SetToSeq(S)
  OBVIOUS
<1>2. PICK n \in Nat : DOMAIN l = 1..n /\ \A i \in 1..n : l[i] \in Attached(s)
  BY <1>1, ListOfSet
<1>7. PICK g : RenewRun(g, s, l, n, e)
  BY <1>2, RenewFold
<1>3. /\ g[0] = s /\ g[n] = RenewAll(s, l, e)
      /\ \A i \in 1..n : g[i] = SendAdd(SendRemove(g[i - 1], l[i], TRUE, e), l[i], TRUE, e)
  BY <1>7 DEF RenewRun
<1> DEFINE B == {i \in 0..n : Sends(s, g[i])}
<1>4. 0 \in B
  BY <1>3, SendsSelf DEF Even
<1>5. ASSUME NEW i \in 1..n, i - 1 \in B PROVE i \in B
  <2>1. PICK u : u = g[i - 1] /\ Sends(s, u)
    BY <1>5
  <2>2. PICK b \in Attached(s) : b = l[i]
    BY <1>2
  <2>3. Sends(s, SendAdd(SendRemove(u, b, TRUE, e), b, TRUE, e))
    BY <2>1, SendsWorksOn
  <2>4. g[i] = SendAdd(SendRemove(u, b, TRUE, e), b, TRUE, e)
    BY <1>3, <2>1, <2>2
  <2>6. Sends(s, g[i])
    BY <2>3, <2>4
  <2>5. Sends(s, g[i]) /\ i \in 0..n
    BY <2>6
  <2> QED BY <2>5
<1>6. n \in B
  <2> HIDE DEF B
  <2> QED BY <1>4, <1>5, Counting
<1> QED BY <1>1, <1>3, <1>6

LEMMA RemoveAllSends ==
  ASSUME NEW s, Even(s, NoBinding, NoBinding), NEW e, Does(s, e), NEW S, IsFiniteSet(S),
         S \subseteq Attached(s), NEW t, t = RemoveAll(s, SetToSeq(S), e)
  PROVE  Sends(s, t)
<1>1. PICK l : l = SetToSeq(S)
  OBVIOUS
<1>2. PICK n \in Nat : DOMAIN l = 1..n /\ \A i \in 1..n : l[i] \in Attached(s)
  BY <1>1, ListOfSet
<1>7. PICK g : RemoveRun(g, s, l, n, e)
  BY <1>2, RemoveFold
<1>3. /\ g[0] = s /\ g[n] = RemoveAll(s, l, e)
      /\ \A i \in 1..n : g[i] = SendRemove(g[i - 1], l[i], TRUE, e)
  BY <1>7 DEF RemoveRun
<1> DEFINE B == {i \in 0..n : Sends(s, g[i])}
<1>4. 0 \in B
  BY <1>3, SendsSelf DEF Even
<1>5. ASSUME NEW i \in 1..n, i - 1 \in B PROVE i \in B
  <2>1. PICK u : u = g[i - 1] /\ Sends(s, u)
    BY <1>5
  <2>2. PICK b \in Attached(s) : b = l[i]
    BY <1>2
  <2>3. Sends(s, SendRemove(u, b, TRUE, e))
    BY <2>1, SendsWorksOn
  <2>4. g[i] = SendRemove(u, b, TRUE, e)
    BY <1>3, <2>1, <2>2
  <2>6. Sends(s, g[i])
    BY <2>3, <2>4
  <2>5. Sends(s, g[i]) /\ i \in 0..n
    BY <2>6
  <2> QED BY <2>5
<1>6. n \in B
  <2> HIDE DEF B
  <2> QED BY <1>4, <1>5, Counting
<1> QED BY <1>1, <1>3, <1>6

\* The mappings of a session, whatever states were read.
LEMMA RemoveEachSends ==
  ASSUME NEW s, Even(s, NoBinding, NoBinding), NEW e, Does(s, e), NEW seen,
         NEW slots \in SUBSET Slot, NEW t, t = RemoveEach(s, Held(s, slots), e, seen)
  PROVE  Sends(s, t)
<1>1. PICK l : l = Held(s, slots)
  OBVIOUS
<1>2. PICK n \in Nat : DOMAIN l = 1..n /\ \A i \in 1..n : s.at[l[i]] \in Attached(s)
  <2>1. PICK S : S = {x \in slots : s.at[x] # NoBinding}
    OBVIOUS
  <2>2. IsFiniteSet(S) /\ l = SetToSeq(S)
    BY <1>1, <2>1, AttachedFinite DEF Held
  <2>3. PICK n \in Nat : DOMAIN l = 1..n /\ \A i \in 1..n : l[i] \in S
    BY <2>2, ListOfSet
  <2>4. \A x \in S : s.at[x] \in Attached(s)
    BY <2>1 DEF Attached
  <2> QED BY <2>3, <2>4
<1>7. PICK g : RemoveEachRun(g, s, l, n, e, seen)
  BY <1>2, RemoveEachFold
<1>3. /\ g[0] = s /\ g[n] = RemoveEach(s, l, e, seen)
      /\ \A i \in 1..n : g[i] = RemoveFound(g[i - 1], g[i - 1].at[l[i]], TRUE, e, seen[l[i]])
  BY <1>7 DEF RemoveEachRun
<1> DEFINE B == {i \in 0..n : Sends(s, g[i])}
<1>4. 0 \in B
  BY <1>3, SendsSelf DEF Even
<1>5. ASSUME NEW i \in 1..n, i - 1 \in B PROVE i \in B
  <2>1. PICK u : u = g[i - 1] /\ Sends(s, u)
    BY <1>5
  <2>2. PICK b \in Attached(s) : b = s.at[l[i]]
    BY <1>2
  <2>3. u.at = s.at /\ Sends(s, RemoveFound(u, b, TRUE, e, seen[l[i]]))
    BY <2>1, SendsWorksOn
  <2>4. g[i] = RemoveFound(u, b, TRUE, e, seen[l[i]])
    BY <1>3, <2>1, <2>2, <2>3
  <2>6. Sends(s, g[i])
    BY <2>3, <2>4
  <2>5. Sends(s, g[i]) /\ i \in 0..n
    BY <2>6
  <2> QED BY <2>5
<1>6. n \in B
  <2> HIDE DEF B
  <2> QED BY <1>4, <1>5, Counting
<1> QED BY <1>1, <1>3, <1>6

\* A slot gives its reference back.
LEMMA DetachEven ==
  ASSUME NEW s, Even(s, NoBinding, NoBinding), NEW x \in Slot, s.at[x] # NoBinding,
         NEW t, t = Detach(s, x)
  PROVE  /\ Even(t, NoBinding, NoBinding) /\ Stays(s, t)
         /\ \A z \in Slot \ {x} : t.at[z] = s.at[z]
<1>1. PICK b \in Binding : b = s.at[x]
  BY DEF Even, NatType
<1>2. PICK u : u = Point(s, x, NoBinding)
  OBVIOUS
<1>3. Even(u, b, NoBinding) /\ Stays(s, u) /\ \A z \in Slot \ {x} : u.at[z] = s.at[z]
  BY <1>1, <1>2, LeaveEven
<1>4. t = Release(u, b)
  BY <1>1, <1>2 DEF Detach, Point
<1>5. Even(t, NoBinding, NoBinding) /\ OnlyBindings(u, t)
  BY <1>3, <1>4, ReleaseEven
<1> QED BY <1>3, <1>5 DEF Stays, OnlyBindings

LEMMA DetachAllEven ==
  ASSUME NEW s, Even(s, NoBinding, NoBinding), NEW slots \in SUBSET Slot,
         NEW l, l = SetToSeq({x \in slots : s.at[x] # NoBinding}),
         NEW t, t = DetachAll(s, l)
  PROVE  Even(t, NoBinding, NoBinding) /\ Stays(s, t)
<1>1. PICK S : S = {x \in slots : s.at[x] # NoBinding}
  OBVIOUS
<1>2. PICK n \in Nat : /\ DOMAIN l = 1..n /\ \A i \in 1..n : l[i] \in Slot /\ s.at[l[i]] # NoBinding
                       /\ \A i, j \in 1..n : i # j => l[i] # l[j]
  <2>1. IsFiniteSet(S) /\ l = SetToSeq(S)
    BY <1>1, AttachedFinite
  <2>2. PICK n \in Nat : /\ DOMAIN l = 1..n /\ \A i \in 1..n : l[i] \in S
                         /\ \A i, j \in 1..n : i # j => l[i] # l[j]
    BY <2>1, ListOfSet
  <2>3. \A x \in S : x \in Slot /\ s.at[x] # NoBinding
    BY <1>1
  <2> QED BY <2>2, <2>3
<1>7. PICK g : DetachRun(g, s, l, n)
  BY <1>2, DetachFold
<1>3. g[0] = s /\ g[n] = DetachAll(s, l) /\ \A i \in 1..n : g[i] = Detach(g[i - 1], l[i])
  BY <1>7 DEF DetachRun
<1> DEFINE B == {i \in 0..n : /\ Even(g[i], NoBinding, NoBinding) /\ Stays(s, g[i])
                              /\ \A j \in (i + 1)..n : g[i].at[l[j]] = s.at[l[j]]}
<1>4. 0 \in B
  <2>1. 0 \in 0..n /\ Stays(s, s)
    BY DEF Stays
  <2> QED BY <1>3, <2>1
<1>5. ASSUME NEW i \in 1..n, i - 1 \in B PROVE i \in B
  <2>1. PICK u : u = g[i - 1]
    OBVIOUS
  <2>2. /\ Even(u, NoBinding, NoBinding) /\ Stays(s, u)
        /\ \A j \in ((i - 1) + 1)..n : u.at[l[j]] = s.at[l[j]]
    BY <1>5, <2>1
  <2>3. i \in ((i - 1) + 1)..n /\ \A j \in (i + 1)..n : j \in ((i - 1) + 1)..n /\ j \in 1..n /\ j # i
    OBVIOUS
  <2>4. PICK x \in Slot : x = l[i] /\ u.at[x] # NoBinding
    <3>1. PICK x : x = l[i]
      OBVIOUS
    <3>2. x \in Slot /\ s.at[x] # NoBinding
      BY <1>2, <3>1
    <3>3. u.at[x] = s.at[x]
      BY <2>2, <2>3, <3>1
    <3> QED BY <3>1, <3>2, <3>3
  <2>5. PICK v : v = Detach(u, x) /\ v = g[i]
    BY <1>3, <2>1, <2>4
  <2>6. Even(v, NoBinding, NoBinding) /\ Stays(u, v) /\ \A z \in Slot \ {x} : v.at[z] = u.at[z]
    <3>1. u.at[x] # NoBinding /\ v = Detach(u, x)
      BY <2>4, <2>5
    <3> QED BY <2>2, <3>1, DetachEven
  <2>7. ASSUME NEW j \in (i + 1)..n PROVE v.at[l[j]] = s.at[l[j]]
    <3>1. l[j] \in Slot \ {x} /\ u.at[l[j]] = s.at[l[j]]
      BY <1>2, <2>2, <2>3, <2>4
    <3> QED BY <2>6, <3>1
  <2>8. Stays(s, v)
    BY <2>2, <2>6 DEF Stays
  <2>9. i \in 0..n
    OBVIOUS
  <2> QED BY <2>5, <2>6, <2>7, <2>8, <2>9
<1>6. n \in B
  <2> HIDE DEF B
  <2> QED BY <1>4, <1>5, Counting
<1> QED BY <1>3, <1>6

\* linphone_upnp_context_destroy() releases what is left in the list.
LEMMA ReleaseAllCounts ==
  ASSUME NEW s \in NatType, CountedAt(s, Left(s), NoBinding), NEW t, t = ReleaseAll(s, s.pending)
  PROVE  /\ t \in NatType /\ OnlyBindings(s, t)
         /\ \A b \in Binding : /\ t.bind[b].ref = Cardinality(Slots(t, b)) + t.bind[b].lost
                               /\ t.bind[b].used <=> t.bind[b].ref # 0
<1>1. PICK q \in Seq(Binding) : q = s.pending
  BY DEF NatType
<1>2. PICK n \in Nat : n = Len(q) /\ DOMAIN q = 1..n /\ \A i \in 1..n : q[i] \in Binding
  OBVIOUS
<1>3. PICK g : ReleaseRun(g, s, q, n)
  BY <1>2, ReleaseFold
<1>4. g[0] = s /\ g[n] = ReleaseAll(s, q) /\ \A i \in 1..n : g[i] = Release(g[i - 1], q[i])
  BY <1>3 DEF ReleaseRun
<1> DEFINE After(i, b) == {j \in (i + 1)..n : q[j] = b}
           Rest(i) == [b \in Binding |-> After(i, b)]
           B == {i \in 0..n : g[i] \in NatType /\ OnlyBindings(s, g[i]) /\ CountedAt(g[i], Rest(i), NoBinding)}
<1>5. ASSUME NEW i \in 0..n, NEW b PROVE IsFiniteSet(After(i, b)) /\ Cardinality(After(i, b)) \in Nat
  <2>1. IsFiniteSet(Places(q, b))
    BY PlacesFinite
  <2>2. After(i, b) \in SUBSET Places(q, b)
    BY <1>2 DEF Places
  <2>3. IsFiniteSet(After(i, b))
    <3> HIDE DEF After
    <3> QED BY <2>1, <2>2, FS_Subset
  <2> HIDE DEF After
  <2> QED BY <2>3, FS_CardinalityType
<1>6. 0 \in B
  <2>1. \A b \in Binding : Rest(0)[b] = Left(s)[b]
    <3>1. (0 + 1)..n = 1..n
      OBVIOUS
    <3> QED BY <1>1, <1>2, <3>1 DEF Left, Places
  <2>2. CountedAt(s, Rest(0), NoBinding)
    <3> HIDE DEF Rest
    <3> QED BY <2>1 DEF CountedAt
  <2>3. 0 \in 0..n /\ OnlyBindings(s, s)
    BY DEF OnlyBindings
  <2> HIDE DEF Rest
  <2> QED BY <1>4, <2>2, <2>3
<1>7. ASSUME NEW i \in 1..n, i - 1 \in B PROVE i \in B
  <2>1. PICK u : u = g[i - 1]
    OBVIOUS
  <2>2. u \in NatType /\ OnlyBindings(s, u) /\ CountedAt(u, Rest(i - 1), NoBinding) /\ i - 1 \in 0..n /\ i \in 0..n
    BY <1>7, <2>1
  <2>3. PICK b \in Binding : b = q[i]
    BY <1>2
  <2>4. PICK v : v = Release(u, b) /\ v = g[i]
    BY <1>4, <2>1, <2>3
  <2>5. ASSUME NEW c \in Binding
        PROVE  /\ Cardinality(Rest(i - 1)[c]) \in Nat /\ Cardinality(Rest(i)[c]) \in Nat
               /\ Cardinality(Rest(i - 1)[c]) + One(NoBinding, c)
                    = Cardinality(Rest(i)[c]) + One(NoBinding, c) + One(b, c)
    <3>1. IsFiniteSet(After(i, c)) /\ Cardinality(After(i, c)) \in Nat /\ Cardinality(After(i - 1, c)) \in Nat
      BY <1>5, <2>2
    <3>2. i \notin After(i, c)
      OBVIOUS
    <3>3. After(i - 1, c) = IF b = c THEN After(i, c) \cup {i} ELSE After(i, c)
      <4>1. \A j : j \in ((i - 1) + 1)..n <=> j = i \/ j \in (i + 1)..n
        OBVIOUS
      <4> QED BY <2>3, <4>1
    <3>4. Rest(i - 1)[c] = After(i - 1, c) /\ Rest(i)[c] = After(i, c)
      OBVIOUS
    <3> HIDE DEF After, Rest
    <3>5. Cardinality(After(i, c) \cup {i}) = Cardinality(After(i, c)) + 1
      BY <3>1, <3>2, FS_AddElement
    <3>6. Cardinality(After(i - 1, c)) = Cardinality(After(i, c)) + One(b, c)
      BY <3>1, <3>3, <3>5 DEF One
    <3>7. One(NoBinding, c) = 0 /\ One(b, c) \in {0, 1}
      BY NoneIs, OneIs
    <3> QED BY <3>1, <3>4, <3>6, <3>7
  <2> HIDE DEF Rest
  <2>6. v \in NatType /\ OnlyBindings(u, v) /\ CountedAt(v, Rest(i), NoBinding)
    <3>1. PICK left, rest : left = Rest(i - 1) /\ rest = Rest(i)
      OBVIOUS
    <3>2. CountedAt(u, left, NoBinding) /\ v = Release(u, b)
      BY <2>2, <2>4, <3>1
    <3>3. \A c \in Binding :
            /\ Cardinality(left[c]) \in Nat /\ Cardinality(rest[c]) \in Nat
            /\ Cardinality(left[c]) + One(NoBinding, c)
                 = Cardinality(rest[c]) + One(NoBinding, c) + One(b, c)
      BY <2>5, <3>1
    <3>4. v \in NatType /\ OnlyBindings(u, v) /\ CountedAt(v, rest, NoBinding)
      BY <2>2, <3>2, <3>3, ReleaseCounts
    <3> QED BY <3>1, <3>4
  <2>7. OnlyBindings(s, v)
    BY <2>2, <2>6 DEF OnlyBindings
  <2>8. i \in 0..n
    BY <2>2
  <2>9. g[i] \in NatType /\ OnlyBindings(s, g[i]) /\ CountedAt(g[i], Rest(i), NoBinding)
    BY <2>4, <2>6, <2>7
  <2> QED BY <2>8, <2>9
<1>8. n \in B
  <2> HIDE DEF B
  <2> QED BY SMTT(60), <1>6, <1>7, Counting
<1>9. t \in NatType /\ OnlyBindings(s, t) /\ CountedAt(t, Rest(n), NoBinding)
  <2> HIDE DEF Rest
  <2> QED BY <1>1, <1>4, <1>8
<1>10. ASSUME NEW b \in Binding PROVE Cardinality(Rest(n)[b]) = 0 /\ One(NoBinding, b) = 0
  <2>1. (n + 1)..n = {}
    OBVIOUS
  <2>2. Rest(n)[b] = {}
    BY <2>1
  <2> QED BY <2>2, FS_EmptySet, NoneIs
<1>11. ASSUME NEW b \in Binding
       PROVE  t.bind[b].ref = Cardinality(Slots(t, b)) + t.bind[b].lost
              /\ (t.bind[b].used <=> t.bind[b].ref # 0)
  <2> HIDE DEF Rest
  <2>1. /\ t.bind[b].ref = Cardinality(Slots(t, b)) + Cardinality(Rest(n)[b]) + t.bind[b].lost + One(NoBinding, b)
        /\ t.bind[b].used <=> t.bind[b].ref # 0
    BY <1>9 DEF CountedAt
  <2>2. Cardinality(Slots(t, b)) \in Nat /\ t.bind[b].lost \in Nat
    BY <1>9, SlotsFinite DEF NatType, BindType
  <2> QED BY <1>10, <2>1, <2>2
<1> QED BY <1>9, <1>11

-----------------------------------------------------------------------------
(* A slot is updated                                                       *)

\* The place of a pending binding of the port.
LEMMA PendingIs ==
  ASSUME NEW s \in NatType, NEW port, NEW i, i = PendingFor(s, port)
  PROVE  i = 0 \/ (i \in DOMAIN s.pending /\ s.pending[i] \in Binding)
<1>1. PICK n \in Nat : n = Len(s.pending) /\ DOMAIN s.pending = 1..n /\ \A j \in 1..n : s.pending[j] \in Binding
  BY DEF NatType
<1> DEFINE I == {j \in 1..Len(s.pending) : s.bind[s.pending[j]].port = port}
<1>2. i = IF I # {} THEN Min(I) ELSE 0
  BY DEF PendingFor, SelectInSeq
<1>3. I \subseteq 1..n /\ I \subseteq Nat
  BY <1>1
<1> HIDE DEF I
<1>4. I # {} => Min(I) \in I
  BY <1>3, MinIs
<1> QED BY <1>1, <1>2, <1>3, <1>4

\* linphone_upnp_port_binding_new_or_collect()
LEMMA NewOrCollectWorks ==
  ASSUME NEW s, Even(s, NoBinding, NoBinding), NEW x \in Slot, s.at[x] = NoBinding,
         Unallocated(s) # {}, NEW port \in AnyPort, NEW t, t = NewOrCollect(s, x, port)
  PROVE  Works(s, t) /\ t.at[x] \in Binding
<1>1. PICK i : i = PendingFor(s, port)
  OBVIOUS
<1>2. s \in NatType
  BY DEF Even
<1>3. CASE i # 0 /\ s.bind[s.pending[i]].ref = 1
  <2>1. PICK b \in Binding : b = s.pending[i] /\ i \in DOMAIN s.pending
    BY <1>1, <1>2, <1>3, PendingIs
  <2>2. s.bind[b].used
    BY <2>1, PointedUsed
  <2>3. PICK u : u = Retain(s, b)
    OBVIOUS
  <2>4. Even(u, b, NoBinding) /\ OnlyBindings(s, u) /\ \A c \in Binding : u.bind[c].used = s.bind[c].used
    BY <2>2, <2>3, RetainEven
  <2>5. u.at[x] = NoBinding
    BY <2>4 DEF OnlyBindings
  <2>6. t = Point(u, x, b)
    BY <1>1, <1>3, <2>1, <2>3 DEF NewOrCollect, Point
  <2>7. Even(t, NoBinding, NoBinding) /\ t.bind = u.bind /\ Stays(u, t) /\ t.at[x] = b
    BY <2>4, <2>5, <2>6, AttachEven
  <2>8. Cardinality(Unallocated(s)) <= Cardinality(Unallocated(t)) + 1
    <3>1. \A c \in Binding \ {b} : ~s.bind[c].used => ~t.bind[c].used
      BY <2>4, <2>7
    <3> QED BY <3>1, OneTaken
  <2> QED BY <2>4, <2>7, <2>8 DEF Works, Stays, OnlyBindings
<1>4. CASE ~(i # 0 /\ s.bind[s.pending[i]].ref = 1)
  <2>1. PICK b \in Unallocated(s) : b = CHOOSE c \in Unallocated(s) : TRUE
    OBVIOUS
  <2>2. b \in Binding /\ ~s.bind[b].used
    BY <2>1 DEF Unallocated
  <2>3. PICK new \in BindState : new = "idle"
    BY DEF BindState
  <2>10. PICK any \in Ext \cup {AnyExt} : any = "same"
    BY DEF Ext
  <2>11. PICK y : y = NewBinding(port, any, new)
    OBVIOUS
  <2>12. y \in BindType /\ y.ref = 1 /\ y.lost = 0 /\ y.used
    BY <2>11, NewBindingIs
  <2>4. PICK u : u = Rebind(s, b, y)
    OBVIOUS
  <2>5. /\ Even(u, b, NoBinding) /\ OnlyBindings(s, u)
        /\ \A c \in Binding \ {b} : u.bind[c] = s.bind[c]
    BY <2>2, <2>4, <2>12, NewEven
  <2>6. u.at[x] = NoBinding
    BY <2>5 DEF OnlyBindings
  <2>7. t = Point(u, x, b)
    BY <1>1, <1>4, <2>1, <2>3, <2>4, <2>10, <2>11 DEF NewOrCollect, Point, Rebind
  <2>8. Even(t, NoBinding, NoBinding) /\ t.bind = u.bind /\ Stays(u, t) /\ t.at[x] = b
    BY <2>2, <2>5, <2>6, <2>7, AttachEven
  <2>9. Cardinality(Unallocated(s)) <= Cardinality(Unallocated(t)) + 1
    <3>1. \A c \in Binding \ {b} : ~s.bind[c].used => ~t.bind[c].used
      BY <2>5, <2>8
    <3> QED BY <2>2, <3>1, OneTaken
  <2> QED BY <2>2, <2>5, <2>8, <2>9 DEF Works, Stays, OnlyBindings
<1> QED BY <1>3, <1>4

\* linphone_upnp_update_port_binding()
LEMMA UpdatePortWorks ==
  ASSUME NEW s, Even(s, NoBinding, NoBinding), NEW x \in Slot, Unallocated(s) # {},
         NEW port \in AnyPort, NEW moved, NEW due, NEW e, Does(s, e),
         NEW r, r = UpdatePort(s, x, port, moved, due, e)
  PROVE  Works(s, r)
<1>1. s \in NatType /\ s.at[x] \in Binding \cup {NoBinding}
  BY DEF Even, NatType
<1>2. PICK t : t = IF s.at[x] # NoBinding /\ s.bind[s.at[x]].port # port THEN Drop(s, x, e) ELSE s
  OBVIOUS
<1>3. Even(t, NoBinding, NoBinding) /\ Stays(s, t) /\ SameUse(s, t)
      /\ t.at[x] \in Binding \cup {NoBinding}
  <2>1. CASE t = s
    BY <1>1, <2>1 DEF Stays, SameUse
  <2>2. CASE t = Drop(s, x, e) /\ s.at[x] # NoBinding
    <3>1. s.at[x] \in Binding
      BY <1>1, <2>2
    <3>2. Even(t, NoBinding, NoBinding) /\ Stays(s, t) /\ SameUse(s, t) /\ t.at[x] = NoBinding
      BY <2>2, <3>1, DropEven
    <3> QED BY <3>2
  <2> QED BY <1>2, <2>1, <2>2
<1>4. Unallocated(t) = Unallocated(s)
  BY <1>3, NoneTaken
<1>5. PICK u : u = IF t.at[x] = NoBinding THEN NewOrCollect(t, x, port) ELSE t
  OBVIOUS
<1>6. Works(t, u) /\ u.at[x] \in Binding
  <2>1. CASE t.at[x] = NoBinding
    <3>1. u = NewOrCollect(t, x, port) /\ Unallocated(t) # {}
      BY <1>4, <1>5, <2>1
    <3> QED BY <1>3, <2>1, <3>1, NewOrCollectWorks
  <2>2. CASE t.at[x] # NoBinding
    <3>1. u = t /\ t \in NatType
      BY <1>3, <1>5, <2>2 DEF Even
    <3> QED BY <1>3, <2>2, <3>1, SendsSelf, SendsWorks
  <2> QED BY <2>1, <2>2
<1>7. PICK b \in Binding : b = u.at[x]
  BY <1>6
<1>8. u \in NatType /\ u.bind[b].used /\ Even(u, NoBinding, NoBinding) /\ Does(u, e)
  <2>1. Even(u, NoBinding, NoBinding) /\ \E y \in Slot : u.at[y] = b
    BY <1>6, <1>7 DEF Works
  <2>2. u.bind[b].used
    BY <2>1, PointedUsed
  <2> QED BY <1>3, <1>6, <2>1, <2>2 DEF Works, Even, Does, Stays
<1>9. PICK retry \in BOOLEAN : retry = FALSE
  OBVIOUS
<1>10. PICK v : v = IF moved THEN SendRemove(u, b, FALSE, e) ELSE u
  OBVIOUS
<1>11. Sends(u, v)
  <2>1. Sends(u, SendRemove(u, b, retry, e)) /\ Sends(u, u)
    BY <1>8, RemoveSends, SendsSelf DEF SendRemove
  <2> QED BY <1>9, <1>10, <2>1
<1>12. Sends(u, SendAdd(v, b, FALSE, e))
  <2>1. v \in NatType /\ v.bind[b].used /\ Does(v, e)
    BY <1>8, <1>11 DEF Sends, SentFor, Does
  <2>2. Sends(v, SendAdd(v, b, retry, e))
    BY <2>1, AddSends
  <2> QED BY <1>8, <1>9, <1>11, <2>2, SendsOn
<1>13. r \in {t, SendAdd(v, b, FALSE, e), v}
  BY <1>2, <1>5, <1>7, <1>10 DEF UpdatePort
<1>14. CASE r = t
  <2>1. Cardinality(Unallocated(s)) \in Nat
    BY SpareAre
  <2> QED BY <1>3, <1>4, <1>14, <2>1 DEF Works
<1>15. CASE Sends(u, r)
  <2>1. Even(r, NoBinding, NoBinding) /\ Stays(u, r) /\ SameUse(u, r)
    BY <1>8, <1>15, SendsEven, SendsStays
  <2>2. Unallocated(r) = Unallocated(u)
    BY <2>1, NoneTaken
  <2> QED BY <1>3, <1>4, <1>6, <2>1, <2>2 DEF Works, Stays
<1> QED BY <1>11, <1>12, <1>13, <1>14, <1>15

\* linphone_upnp_update_port_binding() for each slot.
LEMMA UpdateSlotsEven ==
  ASSUME NEW s, Even(s, NoBinding, NoBinding), NEW slots \in SUBSET Slot,
         Cardinality(slots) <= Cardinality(Unallocated(s)),
         NEW port, \A x \in slots : port[x] \in AnyPort, NEW moved, NEW due, NEW e, Does(s, e),
         NEW t, t = UpdateSlots(s, slots, port, moved, due, e)
  PROVE  Even(t, NoBinding, NoBinding) /\ Stays(s, t)
<1>1. PICK l : l = SetToSeq(slots)
  OBVIOUS
<1>2. PICK n \in Nat : n = Cardinality(slots) /\ DOMAIN l = 1..n /\ \A i \in 1..n : l[i] \in slots
  BY <1>1, AttachedFinite, ListOfSet
<1>3. PICK g : UpdateRun(g, s, l, n, port, moved, due, e)
  BY <1>2, UpdateFold
<1>4. /\ g[0] = s /\ g[n] = UpdateEach(s, l, port, moved, due, e)
      /\ \A i \in 1..n : g[i] = UpdatePort(g[i - 1], l[i], port[l[i]], moved, due, e)
  BY <1>3 DEF UpdateRun
<1>5. PICK free \in Nat : free = Cardinality(Unallocated(s)) /\ n <= free
  BY <1>2, SpareAre
<1> DEFINE B == {i \in 0..n : /\ Even(g[i], NoBinding, NoBinding) /\ Stays(s, g[i])
                              /\ free <= Cardinality(Unallocated(g[i])) + i}
<1>6. 0 \in B
  BY <1>4, <1>5 DEF Stays
<1>7. ASSUME NEW i \in 1..n, i - 1 \in B PROVE i \in B
  <2>1. PICK u : u = g[i - 1]
    OBVIOUS
  <2>2. /\ Even(u, NoBinding, NoBinding) /\ Stays(s, u)
        /\ free <= Cardinality(Unallocated(u)) + (i - 1)
    BY <1>7, <2>1
  <2>3. Unallocated(u) # {} /\ Cardinality(Unallocated(u)) \in Nat
    <3>1. PICK k \in Nat : k = Cardinality(Unallocated(u))
      BY SpareAre
    <3>2. k # 0
      BY <1>5, <2>2, <3>1
    <3> QED BY <3>1, <3>2, SpareAre
  <2>4. Does(u, e)
    BY <2>2 DEF Does, Stays
  <2>5. PICK x \in Slot, p \in AnyPort : x = l[i] /\ p = port[l[i]]
    BY <1>2
  <2>6. PICK v : v = UpdatePort(u, x, p, moved, due, e) /\ v = g[i]
    BY <1>4, <2>1, <2>5
  <2>7. Works(u, v)
    BY <2>2, <2>3, <2>4, <2>6, UpdatePortWorks
  <2>8. Cardinality(Unallocated(v)) \in Nat
    BY SpareAre
  <2>9. free <= Cardinality(Unallocated(v)) + i
    BY <2>2, <2>3, <2>7, <2>8 DEF Works
  <2> QED BY <2>2, <2>6, <2>7, <2>9 DEF Works, Stays
<1>8. n \in B
  <2> HIDE DEF B
  <2> QED BY <1>6, <1>7, Counting
<1>9. t = g[n]
  BY <1>1, <1>4 DEF UpdateSlots
<1> QED BY <1>8, <1>9

\* What concerns neither a binding nor a request.
LEMMA EvenSame ==
  ASSUME NEW s, NEW h, NEW x, Even(s, h, x), NEW t \in NatType, t.bind = s.bind, t.at = s.at,
         t.pending = s.pending, t.flight = s.flight, t.faults = s.faults
  PROVE  Even(t, h, x)
<1>1. ASSUME NEW b \in Binding
      PROVE  /\ t.bind[b].ref = Cardinality(Slots(t, b)) + Pending(s, b) + t.bind[b].lost + One(h, b)
             /\ t.bind[b].used <=> t.bind[b].ref # 0
  <2>1. Slots(t, b) = Slots(s, b)
    BY DEF Slots
  <2>2. /\ s.bind[b].ref = Cardinality(Slots(s, b)) + Pending(s, b) + s.bind[b].lost + One(h, b)
        /\ s.bind[b].used <=> s.bind[b].ref # 0
    BY EvenAt
  <2> QED BY <2>1, <2>2
<1> QED BY <1>1, EvenAgain

-----------------------------------------------------------------------------
(* The configuration                                                       *)

LEMMA ConfigIs ==
  ASSUME NEW K \in Config, NEW L \in Config, NEW key \in AnyKey
  PROVE  K \cup {key} \in Config /\ K \ {key} \in Config /\ (K \cup L) \in Config /\ K \ L \in Config
         /\ {} \in Config
<1>1. IsFiniteSet(K) /\ IsFiniteSet(L) /\ K \subseteq AnyKey /\ L \subseteq AnyKey
  BY DEF Config
<1>2. IsFiniteSet(K \cup {key}) /\ IsFiniteSet(K \ {key})
  BY <1>1, FS_AddElement, FS_RemoveElement
<1>3. IsFiniteSet(K \cup L)
  BY <1>1, FS_Union
<1>4. IsFiniteSet(K \ L)
  <2>1. K \ L \in SUBSET K
    OBVIOUS
  <2> QED BY <1>1, <2>1, FS_Subset
<1>5. IsFiniteSet({})
  BY FS_EmptySet
<1> QED BY <1>1, <1>2, <1>3, <1>4, <1>5 DEF Config

SetConfig(s, file, adding, removing) ==
  [s EXCEPT !.file = file, !.adding = adding, !.removing = removing]

LEMMA SetConfigSends ==
  ASSUME NEW s \in NatType, NEW file \in Config, NEW adding \in Config, NEW removing \in Config,
         NEW t, t = SetConfig(s, file, adding, removing)
  PROVE  Sends(s, t)
<1>1. /\ t \in NatType /\ t.faults = s.faults /\ t.at = s.at /\ t.wait = s.wait /\ t.seen = s.seen
      /\ t.pending = s.pending /\ t.flight = s.flight /\ t.bind = s.bind
  BY DEF SetConfig, NatType
<1> QED BY <1>1, NothingSent DEF SameRefs

LEMMA ConfigSends ==
  ASSUME NEW s \in NatType, NEW key \in AnyKey
  PROVE  Sends(s, ConfigAdd(s, key)) /\ Sends(s, ConfigRemove(s, key)) /\ Sends(s, UpdateConfig(s))
<1>1. PICK f \in Config, a \in Config, r \in Config : f = s.file /\ a = s.adding /\ r = s.removing
  BY DEF NatType
<1>2. PICK g \in Config, o \in Config : g = (f \cup a) \ r /\ o = {}
  <2>1. f \cup a \in Config /\ {} \in Config
    BY ConfigIs
  <2> QED BY <2>1, ConfigIs
<1>3. PICK ak \in Config, rk \in Config, an \in Config, rn \in Config :
        ak = a \cup {key} /\ rk = r \cup {key} /\ an = a \ {key} /\ rn = r \ {key}
  BY ConfigIs
<1>4. /\ ConfigAdd(s, key) \in {SetConfig(s, f, a, rn), SetConfig(s, f, ak, r)}
      /\ ConfigRemove(s, key) \in {SetConfig(s, f, an, r), SetConfig(s, f, a, rk)}
      /\ UpdateConfig(s) = SetConfig(s, g, o, o)
  <2>1. s = [s EXCEPT !.file = f, !.adding = a, !.removing = r]
    BY <1>1 DEF NatType
  <2>2. ConfigAdd(s, key) \in {SetConfig(s, f, a, rn), SetConfig(s, f, ak, r)}
    BY <1>1, <1>3 DEF ConfigAdd, SetConfig, NatType
  <2>3. ConfigRemove(s, key) \in {SetConfig(s, f, an, r), SetConfig(s, f, a, rk)}
    BY <1>1, <1>3 DEF ConfigRemove, SetConfig, NatType
  <2>4. UpdateConfig(s) = SetConfig(s, g, o, o)
    BY <1>1, <1>2 DEF UpdateConfig, SetConfig, NatType
  <2> QED BY <2>2, <2>3, <2>4
<1>5. /\ Sends(s, SetConfig(s, f, a, rn)) /\ Sends(s, SetConfig(s, f, ak, r))
      /\ Sends(s, SetConfig(s, f, an, r)) /\ Sends(s, SetConfig(s, f, a, rk))
      /\ Sends(s, SetConfig(s, g, o, o))
  BY SetConfigSends
<1> QED BY <1>4, <1>5

\* What the router has, and what was given up.
SetMapped(s, K) == [s EXCEPT !.mapped = K]
SetGaveUp(s, K) == [s EXCEPT !.gaveUp = K]

LEMMA MappedSends ==
  ASSUME NEW s \in NatType, NEW K \in SUBSET AnyKey
  PROVE  Sends(s, SetMapped(s, K)) /\ Sends(s, SetGaveUp(s, K))
<1>1. PICK t : t = SetMapped(s, K)
  OBVIOUS
<1>2. PICK u : u = SetGaveUp(s, K)
  OBVIOUS
<1>3. /\ t \in NatType /\ t.faults = s.faults /\ t.at = s.at /\ t.wait = s.wait /\ t.seen = s.seen
      /\ t.pending = s.pending /\ t.flight = s.flight /\ t.bind = s.bind
  BY <1>1 DEF SetMapped, NatType
<1>4. /\ u \in NatType /\ u.faults = s.faults /\ u.at = s.at /\ u.wait = s.wait /\ u.seen = s.seen
      /\ u.pending = s.pending /\ u.flight = s.flight /\ u.bind = s.bind
  BY <1>2 DEF SetGaveUp, NatType
<1>5. Sends(s, t)
  BY <1>3, NothingSent DEF SameRefs
<1>6. Sends(s, u)
  BY <1>4, NothingSent DEF SameRefs
<1> QED BY <1>1, <1>2, <1>5, <1>6

-----------------------------------------------------------------------------
(* A reply is handled                                                      *)

\* What the router did.
LEMMA RepliedSends ==
  ASSUME NEW s \in NatType, NEW r \in Asked, s.bind[r.b].used, NEW ok \in BOOLEAN,
         NEW e, Does(s, e), NEW t, t = Replied(s, r, ok, e)
  PROVE  Sends(s, t)
<1>1. PICK b \in Binding, x \in BindType : b = r.b /\ x = s.bind[b] /\ r.ext \in Ext
  BY DEF Asked, NatType
<1>2. PICK key \in AnyKey, own \in AnyKey : key = <<x.port, r.ext>> /\ own = KeyOf(x)
  BY <1>1 DEF AnyKey, KeyOf, BindType
<1>3. PICK retry \in BOOLEAN : retry = TRUE
  OBVIOUS
<1>4. PICK again : again = SendRemove(s, b, TRUE, e)
  OBVIOUS
<1>5. Sends(s, again)
  BY <1>1, <1>3, <1>4, RemoveSends DEF SendRemove
<1>6. CASE r.op = "add" /\ ok
  <2>1. PICK new \in BindState, ext \in Ext \cup {AnyExt} : new = "ok" /\ ext = r.ext
    BY <1>1 DEF BindState
  <2>2. PICK u : u = SetExt(s, b, ext)
    OBVIOUS
  <2>11. Sends(s, u)
    BY <2>2, FieldSends
  <2>3. Sends(s, u) /\ u \in NatType
    BY <2>11 DEF Sends
  <2>4. PICK v : v = SetBindState(u, b, new)
    OBVIOUS
  <2>5. Sends(s, v) /\ v \in NatType
    <3>1. Sends(u, v)
      BY <2>3, <2>4, FieldSends
    <3> QED BY <2>3, <3>1, SendsOn DEF Sends
  <2>6. PICK K \in SUBSET AnyKey : K = v.mapped \cup {key}
    BY <2>5 DEF NatType
  <2>7. PICK w : w = SetMapped(v, K)
    OBVIOUS
  <2>8. Sends(s, w) /\ w \in NatType
    <3>1. Sends(v, w)
      BY <2>5, <2>7, MappedSends
    <3> QED BY <2>5, <3>1, SendsOn DEF Sends
  <2>9. t = ConfigAdd(w, key)
    <3>1. v.mapped = s.mapped
      BY <2>2, <2>4 DEF SetExt, SetBindState, NatType
    <3>2. w = [s EXCEPT !.bind[b].ext = r.ext, !.bind[b].state = "ok", !.mapped = @ \cup {key}]
      BY <2>1, <2>2, <2>4, <2>6, <2>7, <3>1 DEF SetExt, SetBindState, SetMapped, NatType
    <3> QED BY <1>1, <1>2, <1>6, <3>2 DEF Replied
  <2>10. Sends(w, t)
    BY <2>8, <2>9, ConfigSends
  <2> QED BY <2>8, <2>10, SendsOn
<1>7. CASE r.op = "add" /\ ~ok
  <2>1. PICK ext \in Ext \cup {AnyExt} : ext = AnyExt
    OBVIOUS
  <2>2. PICK u : u = SetExt(s, b, ext)
    OBVIOUS
  <2>10. Sends(s, u)
    BY <2>2, FieldSends
  <2>3. Sends(s, u) /\ u \in NatType
    BY <2>10 DEF Sends
  <2>4. u.bind[b].used /\ Does(u, e)
    BY <1>1, <2>3 DEF Sends, SentFor, Does
  <2>5. Sends(u, SendAdd(u, b, retry, e))
    BY <2>3, <2>4, AddSends
  <2>6. t = SendAdd(u, b, TRUE, e)
    BY <1>1, <1>7, <2>1, <2>2 DEF Replied, SetExt
  <2> QED BY <1>3, <2>3, <2>5, <2>6, SendsOn
<1>8. CASE r.op = "remove" /\ ok
  <2>1. PICK new \in BindState : new = "idle"
    BY DEF BindState
  <2>2. PICK v : v = SetBindState(s, b, new)
    OBVIOUS
  <2>9. Sends(s, v)
    BY <2>2, FieldSends
  <2>3. Sends(s, v) /\ v \in NatType
    BY <2>9 DEF Sends
  <2>4. PICK K \in SUBSET AnyKey : K = v.mapped \ {key}
    BY <2>3 DEF NatType
  <2>5. PICK w : w = SetMapped(v, K)
    OBVIOUS
  <2>6. Sends(s, w) /\ w \in NatType
    <3>1. Sends(v, w)
      BY <2>3, <2>5, MappedSends
    <3> QED BY <2>3, <3>1, SendsOn DEF Sends
  <2>7. t = ConfigRemove(w, own)
    <3>1. v.mapped = s.mapped
      BY <2>2 DEF SetBindState, NatType
    <3>2. w = [s EXCEPT !.bind[b].state = "idle", !.mapped = @ \ {key}]
      BY <2>1, <2>2, <2>4, <2>5, <3>1 DEF SetBindState, SetMapped, NatType
    <3> QED BY <1>1, <1>2, <1>8, <3>2 DEF Replied
  <2>8. Sends(w, t)
    BY <2>6, <2>7, ConfigSends
  <2> QED BY <2>6, <2>8, SendsOn
<1>9. CASE r.op = "remove" /\ ~ok
  <2>1. again \in NatType
    BY <1>5 DEF Sends
  <2>2. PICK K \in SUBSET AnyKey : K = again.gaveUp \cup {key}
    BY <2>1 DEF NatType
  <2>3. PICK w : w = SetGaveUp(again, K)
    OBVIOUS
  <2>4. Sends(s, w) /\ w \in NatType
    <3>1. Sends(again, w)
      BY <2>1, <2>3, MappedSends
    <3> QED BY <1>5, <3>1, SendsOn DEF Sends
  <2>5. t = ConfigRemove(w, own) \/ t = again
    <3>1. w = [again EXCEPT !.gaveUp = @ \cup {key}]
      BY <2>1, <2>2, <2>3 DEF SetGaveUp, NatType
    <3> QED BY <1>1, <1>2, <1>4, <1>9, <3>1 DEF Replied
  <2>6. Sends(w, ConfigRemove(w, own))
    BY <2>4, ConfigSends
  <2> QED BY <1>5, <2>4, <2>5, <2>6, SendsOn
<1> QED BY <1>6, <1>7, <1>8, <1>9 DEF Asked

\* What was asked for while the request was on its way.
LEMMA DelayedSends ==
  ASSUME NEW s \in NatType, NEW b \in Binding, s.bind[b].used, NEW e, Does(s, e),
         NEW t, t = Delayed(s, b, e)
  PROVE  Sends(s, t)
<1>1. PICK no \in BOOLEAN : no = FALSE
  OBVIOUS
<1>2. PICK cleared : cleared = SetRemove(s, b, no)
  OBVIOUS
<1>3. Sends(s, cleared) /\ Sends(s, s)
  BY <1>2, FieldSends, SendsSelf
<1>4. PICK removed : removed = SendRemove(cleared, b, no, e)
  OBVIOUS
<1>5. Sends(s, removed)
  <2>1. cleared \in NatType /\ cleared.bind[b].used /\ Does(cleared, e)
    BY <1>3 DEF Sends, SentFor, Does
  <2>2. Sends(cleared, removed)
    BY <1>4, <2>1, RemoveSends DEF SendRemove
  <2> QED BY <1>3, <2>2, SendsOn
<1>6. PICK u : u = CASE s.bind[b].toRemove /\ s.bind[b].state = "ok" -> removed
                     [] s.bind[b].toRemove /\ s.bind[b].state = "ko" -> cleared
                     [] OTHER -> s
  OBVIOUS
<1>7. Sends(s, u)
  BY <1>3, <1>5, <1>6
<1>8. PICK v : v = SetAdd(u, b, no)
  OBVIOUS
<1>9. Sends(s, v)
  <2>1. u \in NatType
    BY <1>7 DEF Sends
  <2>2. Sends(u, v)
    BY <1>8, <2>1, FieldSends
  <2> QED BY <1>7, <2>2, SendsOn
<1>10. Sends(s, SendAdd(v, b, no, e))
  <2>1. v \in NatType /\ v.bind[b].used /\ Does(v, e)
    BY <1>9 DEF Sends, SentFor, Does
  <2>2. Sends(v, SendAdd(v, b, no, e))
    BY <2>1, AddSends
  <2> QED BY <1>9, <2>2, SendsOn
<1>11. t = u \/ t = SendAdd(v, b, no, e)
  BY <1>1, <1>2, <1>4, <1>6, <1>8 DEF Delayed, SetRemove, SetAdd
<1> QED BY <1>7, <1>10, <1>11

\* The binding leaves the list of pending ones.
Unlisted(s, b) == [s EXCEPT !.pending = RemoveFirst(@, b)]

LEMMA UnlistedEven ==
  ASSUME NEW s, NEW b \in Binding, Even(s, NoBinding, b), NEW t, t = Unlisted(s, b)
  PROVE  Even(t, b, NoBinding) /\ Stays(s, t)
<1>1. s \in NatType /\ s.pending \in Seq(Binding)
  BY DEF Even, NatType
<1>2. Places(s.pending, b) # {}
  <2>1. Pending(s, b) \in Nat /\ Awaiting(s, b) \in Nat /\ Awaiting(s, b) + One(b, b) <= Pending(s, b)
    BY EvenAt
  <2>2. Pending(s, b) # 0
    BY <2>1, OneIs
  <2> QED BY <2>2, FS_EmptySet DEF Pending
<1>3. PICK q : q = RemoveFirst(s.pending, b)
  OBVIOUS
<1>4. /\ q \in Seq(Binding)
      /\ Cardinality(Places(q, b)) = Cardinality(Places(s.pending, b)) - 1
      /\ \A c : c # b => Cardinality(Places(q, c)) = Cardinality(Places(s.pending, c))
  BY <1>1, <1>2, <1>3, PlaceTaken
<1>5. t = [s EXCEPT !.pending = q]
  BY <1>3 DEF Unlisted
<1>6. /\ t \in NatType /\ t.pending = q /\ t.bind = s.bind /\ t.at = s.at /\ t.flight = s.flight
      /\ Stays(s, t)
  BY <1>1, <1>4, <1>5 DEF NatType, Stays
<1>7. ASSUME NEW c \in Binding
      PROVE  /\ t.bind[c].ref = Cardinality(Slots(t, c)) + Cardinality(Left(t)[c]) + t.bind[c].lost + One(b, c)
             /\ t.bind[c].used <=> t.bind[c].ref # 0
             /\ Awaiting(t, c) + One(NoBinding, c) <= Pending(t, c)
             /\ "unsent" \notin t.faults => Awaiting(t, c) + One(NoBinding, c) = Pending(t, c)
  <2>1. /\ s.bind[c].ref \in Nat /\ s.bind[c].lost \in Nat
        /\ Cardinality(Slots(s, c)) \in Nat /\ Pending(s, c) \in Nat /\ Awaiting(s, c) \in Nat
        /\ s.bind[c].ref = Cardinality(Slots(s, c)) + Pending(s, c) + s.bind[c].lost + One(NoBinding, c)
        /\ s.bind[c].used <=> s.bind[c].ref # 0
        /\ Awaiting(s, c) + One(b, c) <= Pending(s, c)
        /\ "unsent" \notin s.faults => Awaiting(s, c) + One(b, c) = Pending(s, c)
    BY EvenAt
  <2>2. Slots(t, c) = Slots(s, c) /\ Awaiting(t, c) = Awaiting(s, c) /\ t.bind[c] = s.bind[c] /\ t.faults = s.faults
    BY <1>6 DEF Slots, Awaiting, Stays
  <2>3. Cardinality(Left(t)[c]) = Pending(t, c) /\ Pending(t, c) = Pending(s, c) - One(b, c)
    <3>1. Cardinality(Left(t)[c]) = Pending(t, c)
      BY DEF Left, Pending
    <3>2. Pending(t, c) = Cardinality(Places(q, c)) /\ Pending(s, c) = Cardinality(Places(s.pending, c))
      BY <1>6 DEF Pending
    <3>3. One(b, c) = IF b = c THEN 1 ELSE 0
      BY DEF One
    <3> QED BY <1>4, <2>1, <3>1, <3>2, <3>3
  <2>4. One(NoBinding, c) = 0 /\ One(b, c) \in {0, 1}
    BY NoneIs, OneIs
  <2>5. PICK a \in Nat, l \in Nat, p \in Nat, w \in Nat, o \in {0, 1} :
          /\ a = Cardinality(Slots(s, c)) /\ l = s.bind[c].lost /\ p = Pending(s, c)
          /\ w = Awaiting(s, c) /\ o = One(b, c)
    BY <2>1, <2>4
  <2>6. t.bind[c].ref = a + (p - o) + l + o /\ Pending(t, c) = p - o
    BY <2>1, <2>2, <2>3, <2>4, <2>5
  <2>7. w + 0 <= p - o /\ ("unsent" \notin t.faults => w + 0 = p - o)
    BY <2>1, <2>2, <2>5
  <2> QED BY <2>1, <2>2, <2>3, <2>4, <2>5, <2>6, <2>7
<1> QED BY <1>6, <1>7 DEF Even, CountedAt

-----------------------------------------------------------------------------
(* The invariant                                                           *)

\* The destroyer waits only while something is pending, and no session is
\* being destroyed meanwhile.
Waiting(s) ==
  /\ s.wait = "waits" => s.pending # <<>>
  /\ s.seen # <<>> => s.wait = "no"

Good(s) == Even(s, NoBinding, NoBinding) /\ Waiting(s)

LEMMA SignalGood ==
  ASSUME NEW s, Even(s, NoBinding, NoBinding), s.seen # <<>> => s.wait = "no", NEW t, t = Signal(s)
  PROVE  Good(t)
<1>1. s \in NatType
  BY DEF Even
<1>2. CASE s.pending = <<>> /\ s.wait = "waits"
  <2>1. t = [s EXCEPT !.wait = "woken"]
    BY <1>2 DEF Signal
  <2>2. /\ t \in NatType /\ t.bind = s.bind /\ t.at = s.at /\ t.pending = s.pending
        /\ t.flight = s.flight /\ t.faults = s.faults /\ t.wait = "woken" /\ t.seen = s.seen
    BY <1>1, <2>1 DEF NatType
  <2>3. Even(t, NoBinding, NoBinding)
    BY <2>2, EvenSame
  <2> QED BY <1>2, <2>2, <2>3 DEF Good, Waiting
<1>3. CASE ~(s.pending = <<>> /\ s.wait = "waits")
  <2>1. t = s
    BY <1>3 DEF Signal
  <2> QED BY <1>3, <2>1 DEF Good, Waiting
<1> QED BY <1>2, <1>3

LEMMA EnvDoes ==
  ASSUME NEW s, NEW e \in Env(s)
  PROVE  Does(s, e)
BY DEF Env, Does

\* linphone_upnp_session_destroy().
LEMMA DestroySessionEven ==
  ASSUME NEW s, Even(s, NoBinding, NoBinding), NEW seen, NEW e, Does(s, e),
         NEW t, t = DestroySession(s, seen, e)
  PROVE  Even(t, NoBinding, NoBinding) /\ t.wait = s.wait /\ t.faults = s.faults /\ t.seen = <<>>
<1>1. PICK held : held = Held(s, CallSlot)
  OBVIOUS
<1>2. PICK u : u = IF s.link = "none" THEN s ELSE RemoveEach(s, held, e, seen)
  OBVIOUS
<1>3. CallSlot \in SUBSET Slot /\ s \in NatType
  BY DEF Slot, Even
<1>4. Sends(s, u)
  <2>1. PICK v : v = RemoveEach(s, Held(s, CallSlot), e, seen)
    OBVIOUS
  <2>2. Sends(s, v)
    BY <1>3, <2>1, RemoveEachSends
  <2>3. Sends(s, s)
    BY <1>3, SendsSelf
  <2> QED BY <1>1, <1>2, <2>1, <2>2, <2>3
<1>5. Even(u, NoBinding, NoBinding) /\ Stays(s, u) /\ u.at = s.at
  BY <1>4, SendsEven, SendsStays
<1>6. held = SetToSeq({x \in CallSlot : u.at[x] # NoBinding})
  BY <1>1, <1>5 DEF Held
<1>7. PICK v : v = DetachAll(u, held)
  OBVIOUS
<1>8. Even(v, NoBinding, NoBinding) /\ Stays(u, v)
  BY <1>3, <1>5, <1>6, <1>7, DetachAllEven
<1>9. t = [v EXCEPT !.session = "none", !.seen = <<>>]
  BY <1>1, <1>2, <1>7 DEF DestroySession
<1>10. v \in NatType
  BY <1>8 DEF Even
<1>11. /\ t \in NatType /\ t.bind = v.bind /\ t.at = v.at /\ t.pending = v.pending
       /\ t.flight = v.flight /\ t.faults = v.faults /\ t.wait = v.wait /\ t.seen = <<>>
  BY <1>9, <1>10 DEF NatType
<1>12. Even(t, NoBinding, NoBinding)
  BY <1>8, <1>11, EvenSame
<1> QED BY <1>5, <1>8, <1>11, <1>12 DEF Stays

\* The fields of a call are those of no binding.
SetCall(s, call)         == [s EXCEPT !.call = call]
SetSession(s, new, call) == [s EXCEPT !.session = new, !.call = call]

AnyCall    == {"none", "incoming", "outgoing", "updating", "runs"}
AnySession == {"none", "idle", "pending", "ok", "ko"}

LEMMA SetCallEven ==
  ASSUME NEW s, Even(s, NoBinding, NoBinding), NEW call \in AnyCall, NEW new \in AnySession
  PROVE  /\ Even(SetCall(s, call), NoBinding, NoBinding) /\ Stays(s, SetCall(s, call))
         /\ Even(SetSession(s, new, call), NoBinding, NoBinding) /\ Stays(s, SetSession(s, new, call))
<1>1. s \in NatType
  BY DEF Even
<1>2. PICK t : t = SetCall(s, call)
  OBVIOUS
<1>3. /\ t \in NatType /\ t.bind = s.bind /\ t.at = s.at /\ t.pending = s.pending
      /\ t.flight = s.flight /\ t.faults = s.faults /\ t.wait = s.wait /\ t.seen = s.seen
  BY <1>1, <1>2 DEF NatType, SetCall, AnyCall
<1>4. Even(t, NoBinding, NoBinding) /\ Stays(s, t)
  BY <1>3, EvenSame DEF Stays
<1>5. PICK u : u = SetSession(s, new, call)
  OBVIOUS
<1>6. /\ u \in NatType /\ u.bind = s.bind /\ u.at = s.at /\ u.pending = s.pending
      /\ u.flight = s.flight /\ u.faults = s.faults /\ u.wait = s.wait /\ u.seen = s.seen
  BY <1>1, <1>5 DEF NatType, SetSession, AnyCall, AnySession
<1>7. Even(u, NoBinding, NoBinding) /\ Stays(s, u)
  BY <1>6, EvenSame DEF Stays
<1> QED BY <1>2, <1>4, <1>5, <1>7

\* linphone_upnp_call_process().
LEMMA ProcessEven ==
  ASSUME NEW s, Even(s, NoBinding, NoBinding), NEW t, t = Process(s)
  PROVE  Even(t, NoBinding, NoBinding) /\ Stays(s, t)
<1>1. s \in NatType /\ s.call \in AnyCall
  BY DEF Even, NatType, AnyCall
<1>2. SessionState(s) \in AnySession
  BY DEF SessionState, AnySession
<1>3. PICK new \in AnySession : new = SessionState(s)
  BY <1>2
<1>4. PICK call \in AnyCall :
        call = IF (s.session \notin {"ok", "ko"} /\ new \in {"ok", "ko"}
                   /\ (s.call = "outgoing" => new = "ok")) /\ s.call \in Waits THEN "runs" ELSE s.call
  BY <1>1 DEF AnyCall
<1>5. t = s \/ t = SetSession(s, new, call)
  BY <1>3, <1>4 DEF Process, SetSession
<1>6. Stays(s, s)
  BY DEF Stays
<1> QED BY <1>5, <1>6, SetCallEven

\* linphone_core_update_upnp_audio_video().
LEMMA UpdateSessionEven ==
  ASSUME NEW s, Even(s, NoBinding, NoBinding), s.seen = <<>>, NEW call \in AnyCall,
         Cardinality(CallSlot) <= Cardinality(Unallocated(s)),
         NEW port, \A x \in CallSlot : port[x] \in AnyPort, NEW moved, NEW due, NEW e, Does(s, e),
         NEW t, t = UpdateSession(s, call, port, moved, due, e)
  PROVE  Even(t, NoBinding, NoBinding) /\ t.wait = s.wait /\ t.faults = s.faults /\ t.seen = <<>>
<1>1. CASE s.link # "ok"
  <2>1. PICK u : u = DestroySession(s, Found(s), e)
    OBVIOUS
  <2>2. Even(u, NoBinding, NoBinding) /\ u.wait = s.wait /\ u.faults = s.faults /\ u.seen = <<>>
    BY <2>1, DestroySessionEven
  <2>3. PICK new \in AnyCall : new = "runs"
    BY DEF AnyCall
  <2>4. t = SetCall(u, new)
    BY <1>1, <2>1, <2>3 DEF UpdateSession, SetCall
  <2>5. "none" \in AnySession
    BY DEF AnySession
  <2>6. Even(t, NoBinding, NoBinding) /\ Stays(u, t)
    BY <2>2, <2>4, <2>5, SetCallEven
  <2> QED BY <2>2, <2>6 DEF Stays
<1>2. CASE s.link = "ok"
  <2>1. PICK u : u = UpdateSlots(s, CallSlot, port, moved, due, e)
    OBVIOUS
  <2>2. CallSlot \in SUBSET Slot
    BY DEF Slot
  <2>3. Even(u, NoBinding, NoBinding) /\ Stays(s, u)
    BY <2>1, <2>2, UpdateSlotsEven
  <2>4. PICK v : v = SetCall(u, call)
    OBVIOUS
  <2>5. "none" \in AnySession
    BY DEF AnySession
  <2>6. Even(v, NoBinding, NoBinding) /\ Stays(u, v)
    BY <2>3, <2>4, <2>5, SetCallEven
  <2>7. t = Process(v)
    BY <1>2, <2>1, <2>4 DEF UpdateSession, SetCall
  <2>8. Even(t, NoBinding, NoBinding) /\ Stays(v, t)
    BY <2>6, <2>7, ProcessEven
  <2> QED BY <2>3, <2>6, <2>8 DEF Stays
<1> QED BY <1>1, <1>2

-----------------------------------------------------------------------------
(* The thread of libupnp                                                   *)

LEMMA DeviceChangedGood ==
  ASSUME Good(nat), NEW link \in {"pending", "down", "ok"}, NEW e, Does(nat, e),
         DeviceChanged(link, e)
  PROVE  Good(nat')
<1>1. Even(nat, NoBinding, NoBinding) /\ Waiting(nat) /\ nat \in NatType
  BY DEF Good, Even
<1>2. PICK losses \in Nat : losses = IF nat.link = "ok" THEN nat.losses + 1 ELSE nat.losses
  BY <1>1 DEF NatType
<1>3. PICK s : s = [nat EXCEPT !.link = link, !.losses = losses]
  OBVIOUS
<1>10. s \in NatType
  BY <1>1, <1>3, ZenonT(60) DEF NatType
<1>4. /\ s \in NatType /\ s.bind = nat.bind /\ s.at = nat.at /\ s.pending = nat.pending
      /\ s.flight = nat.flight /\ s.faults = nat.faults /\ s.wait = nat.wait /\ s.seen = nat.seen
      /\ s.file = nat.file
  BY <1>1, <1>3, <1>10, SMTT(30) DEF NatType
<1>5. Even(s, NoBinding, NoBinding) /\ Stays(nat, s)
  BY <1>1, <1>4, EvenSame DEF Stays
<1>6. PICK t : t = IF link = "ok" THEN UpdateMappings(s, e) ELSE s
  OBVIOUS
<1>7. nat' = Signal(t)
  BY <1>2, <1>3, <1>6 DEF DeviceChanged
<1>8. Even(t, NoBinding, NoBinding) /\ Stays(s, t)
  <2>1. CASE link = "ok"
    <3>1. PICK K \in Config : K = s.file
      BY <1>4 DEF NatType
    <3>2. Cardinality(K) <= Cardinality(Unallocated(s))
      <4>1. Cardinality(nat.file) <= Cardinality(Unallocated(nat))
        BY <2>1 DEF DeviceChanged
      <4>2. Unallocated(s) = Unallocated(nat)
        BY <1>4 DEF Unallocated
      <4> QED BY <1>4, <3>1, <4>1, <4>2
    <3>3. Does(s, e)
      BY <1>4 DEF Does
    <3>4. PICK u : u = ForgetAll(s, SetToSeq(K), e)
      OBVIOUS
    <3>5. Even(u, NoBinding, NoBinding) /\ Stays(s, u) /\ u.at = s.at
      BY <1>5, <3>2, <3>3, <3>4, ForgetAllWorks
    <3>6. PICK S : S = Attached(s)
      OBVIOUS
    <3>7. IsFiniteSet(S) /\ S \subseteq Attached(u) /\ Does(u, e)
      <4>1. Slot \in SUBSET Slot
        OBVIOUS
      <4>2. IsFiniteSet(Attached(s))
        BY <4>1, AttachedFinite
      <4>3. Attached(u) = Attached(s)
        BY <3>5 DEF Attached
      <4>4. Does(u, e)
        BY <3>3, <3>5 DEF Does, Stays
      <4> QED BY <3>6, <4>2, <4>3, <4>4
    <3>8. t = RenewAll(u, SetToSeq(S), e)
      <4>1. t = UpdateMappings(s, e)
        BY <1>6, <2>1
      <4>2. Attached(u) = S
        BY <3>5, <3>6 DEF Attached
      <4> QED BY <3>1, <3>4, <3>6, <4>1, <4>2 DEF UpdateMappings
    <3>9. Sends(u, t)
      BY <3>5, <3>7, <3>8, RenewAllSends
    <3>10. Even(t, NoBinding, NoBinding) /\ Stays(u, t)
      BY <3>5, <3>9, SendsEven, SendsStays
    <3> QED BY <3>5, <3>10 DEF Stays
  <2>2. CASE link # "ok"
    BY <1>5, <1>6, <2>2 DEF Stays
  <2> QED BY <2>1, <2>2
<1>9. t.seen # <<>> => t.wait = "no"
  BY <1>1, <1>5, <1>8 DEF Stays, Waiting
<1> QED BY <1>7, <1>8, <1>9, SignalGood

LEMMA ReplyGood ==
  ASSUME Good(nat), NEW r, NEW ok \in BOOLEAN, NEW e, Does(nat, e), Reply(r, ok, e)
  PROVE  Good(nat')
<1>1. Even(nat, NoBinding, NoBinding) /\ Waiting(nat) /\ nat \in NatType
  BY DEF Good, Even
<1>2. r \in DOMAIN nat.flight
  BY DEF Reply, BagIn, BagToSet
<1>3. PICK s : s = Taken(nat, r)
  OBVIOUS
<1>4. r \in Asked /\ Even(s, NoBinding, r.b) /\ Stays(nat, s)
  BY <1>1, <1>2, <1>3, TakenEven
<1>5. PICK b \in Binding : b = r.b
  BY <1>4 DEF Asked
<1>6. s \in NatType /\ s.bind[b].used
  BY <1>4, <1>5, PointedUsed DEF Even
<1>7. Does(s, e)
  BY <1>4 DEF Does, Stays
<1>8. PICK t : t = Replied(s, r, ok, e)
  OBVIOUS
<1>9. Sends(s, t)
  BY <1>4, <1>5, <1>6, <1>7, <1>8, RepliedSends
<1>10. /\ t \in NatType /\ t.bind[b].used /\ Does(t, e)
       /\ Even(t, NoBinding, b) /\ Stays(s, t)
  <2>1. Even(t, NoBinding, b)
    BY <1>4, <1>5, <1>9, SendsEven
  <2>2. Stays(s, t) /\ SameUse(s, t) /\ t \in NatType
    BY <1>9, SendsStays
  <2>3. Does(t, e)
    BY <1>7, <2>2 DEF Does, Stays
  <2> QED BY <1>6, <2>1, <2>2, <2>3 DEF SameUse
<1>11. PICK u : u = Delayed(t, b, e)
  OBVIOUS
<1>12. Sends(t, u)
  BY <1>10, <1>11, DelayedSends
<1>13. Even(u, NoBinding, b) /\ Stays(t, u)
  BY <1>10, <1>12, SendsEven, SendsStays
<1>14. PICK v : v = Unlisted(u, b)
  OBVIOUS
<1>15. Even(v, b, NoBinding) /\ Stays(u, v)
  BY <1>13, <1>14, UnlistedEven
<1>16. PICK w : w = Release(v, b)
  OBVIOUS
<1>17. Even(w, NoBinding, NoBinding) /\ Stays(v, w)
  <2>1. Even(w, NoBinding, NoBinding) /\ OnlyBindings(v, w)
    BY <1>15, <1>16, ReleaseEven
  <2> QED BY <2>1 DEF OnlyBindings, Stays
<1>18. nat' = Signal(w)
  BY <1>3, <1>5, <1>8, <1>11, <1>14, <1>16 DEF Reply, Taken, Unlisted
<1>19. w.seen # <<>> => w.wait = "no"
  BY <1>1, <1>4, <1>10, <1>13, <1>15, <1>17 DEF Stays, Waiting
<1> QED BY <1>17, <1>18, <1>19, SignalGood

-----------------------------------------------------------------------------
(* The main thread: the context                                            *)

\* While the main thread runs, nothing waits for a reply.
LEMMA RunsGood ==
  ASSUME NEW s, Even(s, NoBinding, NoBinding), s.wait = "no"
  PROVE  Good(s)
BY DEF Good, Waiting

LEMMA NewContextGood ==
  ASSUME Good(nat), NewContext
  PROVE  Good(nat')
<1>1. Even(nat, NoBinding, NoBinding) /\ nat \in NatType
  BY DEF Good, Even
<1>2. PICK t : t = nat'
  OBVIOUS
<1>6. PICK n \in Nat : n = nat.contexts + 1
  <2>1. nat.contexts \in Nat
    BY <1>1 DEF NatType
  <2> QED BY <2>1
<1>7. PICK link \in {"none", "pending", "down", "ok"} : link = "pending"
  OBVIOUS
<1>3. t = [nat EXCEPT !.link = link, !.contexts = n] /\ nat.wait = "no"
  BY <1>2, <1>6, <1>7 DEF NewContext, MainRuns
<1>4. /\ t \in NatType /\ t.bind = nat.bind /\ t.at = nat.at /\ t.pending = nat.pending
      /\ t.flight = nat.flight /\ t.faults = nat.faults /\ t.wait = "no"
  BY <1>1, <1>3 DEF NatType
<1>5. Even(t, NoBinding, NoBinding)
  BY <1>1, <1>4, EvenSame
<1> QED BY <1>2, <1>4, <1>5, RunsGood

\* A wish names a port for each slot.
LEMMA WishesAre ==
  ASSUME NEW slots \in SUBSET Slot, NEW port \in Wishes(slots)
  PROVE  \A x \in slots : port[x] \in AnyPort
<1>1. \A x \in slots : port[x] \in Wanted(nat, x)
  BY DEF Wishes
<1>2. \A x \in slots : port[x] \in PortsOf[x]
  BY <1>1 DEF Wanted
<1>3. ASSUME NEW x \in slots
      PROVE  port[x] \in AnyPort
  <2>1. PICK p : p = port[x]
    OBVIOUS
  <2>2. p \in PortsOf[x] /\ x \in Slot
    BY <1>2, <2>1
  <2>3. p \in UNION {PortsOf[y] : y \in Slot}
    BY <2>2
  <2>4. p \in AnyPort
    BY <2>3 DEF AnyPort
  <2> QED BY <2>1, <2>4
<1> QED BY <1>3

LEMMA UpdateConfigSends ==
  ASSUME NEW s \in NatType
  PROVE  Sends(s, UpdateConfig(s))
<1>1. PICK key \in AnyKey : key = <<NoPort, AnyExt>>
  BY DEF AnyKey, AnyPort
<1> QED BY <1>1, ConfigSends

LEMMA HookGood ==
  ASSUME Good(nat), NEW port \in Wishes(SipSlot), NEW moved, NEW due, NEW e, Does(nat, e),
         Hook(port, moved, due, e)
  PROVE  Good(nat')
<1>1. Even(nat, NoBinding, NoBinding) /\ nat.wait = "no"
  BY DEF Good, Hook, MainRuns
<1>2. PICK s : s = IF nat.link = "ok" THEN UpdateSlots(nat, SipSlot, port, moved, due, e) ELSE nat
  OBVIOUS
<1>3. Even(s, NoBinding, NoBinding) /\ Stays(nat, s)
  <2>1. SipSlot \in SUBSET Slot
    BY DEF Slot
  <2>2. \A x \in SipSlot : port[x] \in AnyPort
    BY <2>1, WishesAre
  <2>3. Cardinality(SipSlot) <= Cardinality(Unallocated(nat))
    BY DEF Hook, Room
  <2>4. PICK t : t = UpdateSlots(nat, SipSlot, port, moved, due, e)
    OBVIOUS
  <2>5. Even(t, NoBinding, NoBinding) /\ Stays(nat, t)
    BY <1>1, <2>1, <2>2, <2>3, <2>4, UpdateSlotsEven
  <2>6. Stays(nat, nat)
    BY DEF Stays
  <2> QED BY <1>1, <1>2, <2>4, <2>5, <2>6
<1>4. PICK t : t = UpdateConfig(s)
  OBVIOUS
<1>5. Sends(s, t)
  BY <1>3, <1>4, UpdateConfigSends DEF Even
<1>6. Even(t, NoBinding, NoBinding) /\ Stays(s, t)
  BY <1>3, <1>5, SendsEven, SendsStays
<1>7. t = nat'
  BY <1>2, <1>4 DEF Hook
<1> QED BY <1>1, <1>3, <1>6, <1>7, RunsGood DEF Stays

LEMMA DestroyContextGood ==
  ASSUME Good(nat), NEW reachable \in BOOLEAN, NEW e, Does(nat, e), DestroyContext(reachable, e)
  PROVE  Good(nat')
<1>1. Even(nat, NoBinding, NoBinding) /\ nat.wait = "no" /\ nat.seen = <<>> /\ nat \in NatType
  BY DEF Good, Even, DestroyContext, MainRuns
<1>2. PICK S : S = {nat.at[x] : x \in SipSlot} \ {NoBinding}
  OBVIOUS
<1>3. IsFiniteSet(S) /\ S \subseteq Attached(nat)
  <2>1. SipSlot \in SUBSET Slot
    BY DEF Slot
  <2> QED BY <1>2, <2>1, AttachedFinite DEF Attached
<1>4. PICK u : u = RemoveAll(nat, SetToSeq(S), e)
  OBVIOUS
<1>5. Sends(nat, u)
  BY <1>1, <1>3, <1>4, RemoveAllSends
<1>6. PICK s : s = IF reachable THEN u ELSE nat
  OBVIOUS
<1>7. Sends(nat, s)
  BY <1>1, <1>5, <1>6, SendsSelf
<1>8. Even(s, NoBinding, NoBinding) /\ Stays(nat, s) /\ s \in NatType
  BY <1>1, <1>7, SendsEven, SendsStays
<1>9. PICK t : t = nat'
  OBVIOUS
<1>10. t = [s EXCEPT !.wait = IF s.pending = <<>> THEN "woken" ELSE "waits"]
  BY <1>2, <1>4, <1>6, <1>9 DEF DestroyContext
<1>11. /\ t \in NatType /\ t.bind = s.bind /\ t.at = s.at /\ t.pending = s.pending
       /\ t.flight = s.flight /\ t.faults = s.faults /\ t.seen = s.seen
       /\ t.wait = "waits" => t.pending # <<>>
  BY <1>8, <1>10 DEF NatType
<1>12. Even(t, NoBinding, NoBinding)
  BY <1>8, <1>11, EvenSame
<1> QED BY <1>1, <1>8, <1>9, <1>11, <1>12 DEF Good, Waiting, Stays

LEMMA ContextGoneGood ==
  ASSUME Good(nat), ContextGone
  PROVE  Good(nat')
<1>1. Even(nat, NoBinding, NoBinding) /\ nat \in NatType
  BY DEF Good, Even
<1>2. PICK c : c = UpdateConfig(nat)
  OBVIOUS
<1>3. Sends(nat, c)
  BY <1>1, <1>2, UpdateConfigSends
<1>4. Even(c, NoBinding, NoBinding) /\ c.at = nat.at
  BY <1>1, <1>3, SendsEven, SendsStays
<1>5. PICK s : s = DetachAll(c, SetToSeq({x \in SipSlot : c.at[x] # NoBinding}))
  OBVIOUS
<1>6. Even(s, NoBinding, NoBinding)
  <2>1. SipSlot \in SUBSET Slot
    BY DEF Slot
  <2>2. PICK l : l = SetToSeq({x \in SipSlot : c.at[x] # NoBinding})
    OBVIOUS
  <2>3. s = DetachAll(c, l)
    BY <1>5, <2>2
  <2> QED BY <1>4, <2>1, <2>2, <2>3, DetachAllEven
<1>7. PICK u : u = ReleaseAll(s, s.pending)
  OBVIOUS
<1>8. /\ u \in NatType /\ OnlyBindings(s, u)
      /\ \A b \in Binding : /\ u.bind[b].ref = Cardinality(Slots(u, b)) + u.bind[b].lost
                            /\ u.bind[b].used <=> u.bind[b].ref # 0
  BY <1>6, <1>7, ReleaseAllCounts DEF Even
<1>9. PICK t : t = nat'
  OBVIOUS
<1>10. t = [u EXCEPT !.wait = "no", !.link = "none", !.pending = <<>>, !.flight = EmptyBag]
  BY <1>2, <1>4, <1>5, <1>7, <1>9 DEF ContextGone, Held
<1>11. EmptyBag \in Awaited /\ \A b : Answers(EmptyBag, b) = {}
  <2>1. PICK f : f = EmptyBag
    OBVIOUS
  <2>2. DOMAIN f = {} /\ f = [r \in DOMAIN f |-> f[r]]
    BY <2>1 DEF EmptyBag, SetToBag
  <2>3. f \in Awaited
    BY <2>2, AwaitedAre, FS_EmptySet
  <2>4. \A b : Answers(f, b) = {}
    BY <2>2 DEF Answers
  <2> QED BY <2>1, <2>3, <2>4
<1>17. <<>> \in Seq(Binding)
  BY EmptySeq
<1>16. PICK q \in Seq(Binding) : q = <<>>
  BY <1>17
<1>14. PICK f \in Awaited : f = EmptyBag
  BY <1>11
<1>15. t = [u EXCEPT !.wait = "no", !.link = "none", !.pending = q, !.flight = f]
  BY <1>10, <1>14, <1>16
<1>12. /\ t \in NatType /\ t.bind = u.bind /\ t.at = u.at /\ t.pending = <<>>
       /\ t.flight = EmptyBag /\ t.wait = "no"
  BY <1>8, <1>14, <1>15, <1>16 DEF NatType
<1>13. Even(t, NoBinding, NoBinding)
  <2>1. ASSUME NEW b \in Binding
        PROVE  /\ t.bind[b].ref = Cardinality(Slots(t, b)) + Cardinality(Left(t)[b]) + t.bind[b].lost + One(NoBinding, b)
               /\ t.bind[b].used <=> t.bind[b].ref # 0
               /\ Awaiting(t, b) + One(NoBinding, b) = Pending(t, b)
               /\ Awaiting(t, b) + One(NoBinding, b) <= Pending(t, b)
    <3>1. /\ Places(t.pending, b) = {} /\ Left(t)[b] = Places(t.pending, b)
          /\ Answers(t.flight, b) = {}
      BY <1>11, <1>12 DEF Places, Left
    <3>2. Cardinality({}) = 0
      BY FS_EmptySet
    <3>3. Cardinality(Left(t)[b]) = 0 /\ Pending(t, b) = 0 /\ Awaiting(t, b) = 0
      BY <3>1, <3>2 DEF Pending, Awaiting
    <3>4. One(NoBinding, b) = 0
      BY NoneIs
    <3>5. Slots(t, b) = Slots(u, b) /\ t.bind[b] = u.bind[b]
      BY <1>12 DEF Slots
    <3>6. Cardinality(Slots(u, b)) \in Nat /\ u.bind[b].lost \in Nat
      BY <1>8, SlotsFinite DEF NatType, BindType
    <3>7. /\ u.bind[b].ref = Cardinality(Slots(u, b)) + u.bind[b].lost
          /\ u.bind[b].used <=> u.bind[b].ref # 0
      BY <1>8
    <3> QED BY <3>3, <3>4, <3>5, <3>6, <3>7
  <2> QED BY <1>12, <2>1 DEF Even, CountedAt
<1> QED BY <1>9, <1>12, <1>13, RunsGood

-----------------------------------------------------------------------------
(* The main thread: the session of a call                                  *)

LEMMA StartCallGood ==
  ASSUME Good(nat), NEW call \in Waits, NEW port \in Wishes(CallSlot), NEW e, Does(nat, e),
         StartCall(call, port, e)
  PROVE  Good(nat')
<1>1. Even(nat, NoBinding, NoBinding) /\ nat.wait = "no" /\ nat.seen = <<>> /\ nat \in NatType
  BY DEF Good, Even, StartCall, MainRuns
<1>2. PICK new \in AnySession, old \in AnyCall, to \in AnyCall :
        new = "idle" /\ old = nat.call /\ to = call
  BY <1>1 DEF AnySession, AnyCall, NatType, Waits
<1>3. PICK s : s = SetSession(nat, new, old)
  OBVIOUS
<1>4. Even(s, NoBinding, NoBinding) /\ Stays(nat, s)
  BY <1>1, <1>3, SetCallEven
<1>5. s = [nat EXCEPT !.session = "idle"] /\ s.bind = nat.bind
  BY <1>1, <1>2, <1>3 DEF SetSession, NatType
<1>6. Cardinality(CallSlot) <= Cardinality(Unallocated(s))
  <2>1. Cardinality(CallSlot) <= Cardinality(Unallocated(nat))
    BY DEF StartCall, Room
  <2>2. Unallocated(s) = Unallocated(nat)
    BY <1>5 DEF Unallocated
  <2> QED BY <2>1, <2>2
<1>7. \A x \in CallSlot : port[x] \in AnyPort
  <2>1. CallSlot \in SUBSET Slot
    BY DEF Slot
  <2> QED BY <2>1, WishesAre
<1>8. Does(s, e)
  BY <1>4 DEF Does, Stays
<1>9. PICK t, no : t = nat' /\ no = FALSE
  OBVIOUS
<1>10. t = UpdateSession(s, to, port, no, no, e)
  BY <1>2, <1>5, <1>9 DEF StartCall
<1>11. Even(t, NoBinding, NoBinding) /\ t.wait = s.wait
  <2>1. s.seen = <<>>
    BY <1>1, <1>4 DEF Stays
  <2> QED BY <1>4, <1>6, <1>7, <1>8, <1>10, <2>1, UpdateSessionEven
<1> QED BY <1>1, <1>4, <1>9, <1>11, RunsGood DEF Stays

LEMMA UpdateCallGood ==
  ASSUME Good(nat), NEW call \in Waits, NEW port \in Wishes(CallSlot), NEW moved, NEW due,
         NEW e, Does(nat, e), UpdateCall(call, port, moved, due, e)
  PROVE  Good(nat')
<1>1. Even(nat, NoBinding, NoBinding) /\ nat.wait = "no" /\ nat.seen = <<>>
  BY DEF Good, UpdateCall, MainRuns
<1>2. Cardinality(CallSlot) <= Cardinality(Unallocated(nat))
  BY DEF UpdateCall, Room
<1>3. \A x \in CallSlot : port[x] \in AnyPort
  <2>1. CallSlot \in SUBSET Slot
    BY DEF Slot
  <2> QED BY <2>1, WishesAre
<1>4. PICK to \in AnyCall :
        to = IF \E x \in CallSlot : nat.at[x] = NoBinding /\ port[x] # NoPort THEN call ELSE "runs"
  BY DEF AnyCall, Waits
<1>5. PICK t : t = nat'
  OBVIOUS
<1>6. t = UpdateSession(nat, to, port, moved, due, e)
  BY <1>4, <1>5 DEF UpdateCall
<1>7. Even(t, NoBinding, NoBinding) /\ t.wait = nat.wait
  BY <1>1, <1>2, <1>3, <1>6, UpdateSessionEven
<1> QED BY <1>1, <1>5, <1>7, RunsGood

LEMMA BackgroundGood ==
  ASSUME Good(nat), Background
  PROVE  Good(nat')
<1>1. Even(nat, NoBinding, NoBinding) /\ nat.wait = "no"
  BY DEF Good, Background, MainRuns
<1>2. PICK t : t = nat'
  OBVIOUS
<1>3. t = Process(nat)
  BY <1>2 DEF Background
<1>4. Even(t, NoBinding, NoBinding) /\ Stays(nat, t)
  BY <1>1, <1>3, ProcessEven
<1> QED BY <1>1, <1>2, <1>4, RunsGood DEF Stays

\* The three ends of a session: the timer of the INVITE, the end of the call, and
\* the end of the call without the mutex.
LEMMA SessionEndsGood ==
  ASSUME Good(nat), nat.wait = "no", NEW seen, NEW e, Does(nat, e), NEW call \in AnyCall,
         nat' = [DestroySession(nat, seen, e) EXCEPT !.call = call]
  PROVE  Good(nat')
<1>1. Even(nat, NoBinding, NoBinding)
  BY DEF Good
<1>2. PICK u : u = DestroySession(nat, seen, e)
  OBVIOUS
<1>3. Even(u, NoBinding, NoBinding) /\ u.wait = nat.wait
  BY <1>1, <1>2, DestroySessionEven
<1>4. PICK t : t = nat'
  OBVIOUS
<1>5. t = SetCall(u, call) /\ "none" \in AnySession
  BY <1>2, <1>4 DEF SetCall, AnySession
<1>6. Even(t, NoBinding, NoBinding) /\ Stays(u, t)
  BY <1>3, <1>5, SetCallEven
<1> QED BY <1>3, <1>4, <1>6, RunsGood DEF Stays

LEMMA EndsGood ==
  ASSUME Good(nat), NEW e, Does(nat, e), DelayedTimeout(e) \/ EndCall(e) \/ SessionGone(e)
  PROVE  Good(nat')
<1>1. nat.wait = "no"
  BY DEF Good, Waiting, DelayedTimeout, EndCall, SessionGone, MainRuns
<1>2. \E call \in AnyCall : \E seen : nat' = [DestroySession(nat, seen, e) EXCEPT !.call = call]
  <2>1. "none" \in AnyCall /\ "runs" \in AnyCall
    BY DEF AnyCall
  <2> QED BY <2>1 DEF DelayedTimeout, EndCall, SessionGone
<1>3. PICK call \in AnyCall : \E seen : nat' = [DestroySession(nat, seen, e) EXCEPT !.call = call]
  BY <1>2
<1>4. PICK seen : nat' = [DestroySession(nat, seen, e) EXCEPT !.call = call]
  BY <1>3
<1> QED BY <1>1, <1>4, SessionEndsGood

LEMMA SessionSeenGood ==
  ASSUME Good(nat), SessionSeen
  PROVE  Good(nat')
<1>1. Even(nat, NoBinding, NoBinding) /\ nat.wait = "no" /\ nat \in NatType
  BY DEF Good, Even, SessionSeen, MainRuns
<1>2. PICK found \in [CallSlot -> BindState] : found = Found(nat)
  <2>1. ASSUME NEW x \in CallSlot, nat.at[x] # NoBinding
        PROVE  nat.bind[nat.at[x]].state \in BindState
    BY <1>1, <2>1 DEF NatType, BindType, Slot
  <2>2. "idle" \in BindState
    BY DEF BindState
  <2> QED BY <2>1, <2>2 DEF Found
<1>3. PICK t : t = nat'
  OBVIOUS
<1>4. t = [nat EXCEPT !.seen = found]
  BY <1>2, <1>3 DEF SessionSeen
<1>5. /\ t \in NatType /\ t.bind = nat.bind /\ t.at = nat.at /\ t.pending = nat.pending
      /\ t.flight = nat.flight /\ t.faults = nat.faults /\ t.wait = nat.wait
  BY <1>1, <1>4 DEF NatType
<1>6. Even(t, NoBinding, NoBinding)
  BY <1>1, <1>5, EvenSame
<1> QED BY <1>1, <1>3, <1>5, <1>6, RunsGood

-----------------------------------------------------------------------------
(* The specification                                                       *)

\* Whatever the router and the network may do, and whatever the user wants.
UpnpStart ==
  \E faults \in SUBSET UpnpFaults, transports \in SUBSET SipSlot, calls \in BOOLEAN :
    UpnpInit(faults, transports, calls)

UpnpSpec == UpnpStart /\ [][UpnpNext]_nat

LEMMA StartGood ==
  ASSUME UpnpStart
  PROVE  Good(nat)
<1>1. PICK faults \in SUBSET UpnpFaults, transports \in SUBSET SipSlot, calls \in BOOLEAN :
        UpnpInit(faults, transports, calls)
  BY DEF UpnpStart
<1>2. FreeBinding \in BindType /\ FreeBinding.ref = 0 /\ FreeBinding.lost = 0 /\ ~FreeBinding.used
  BY DEF FreeBinding, BindType, BindState, AnyPort
<1>3. PICK f \in Awaited : f = EmptyBag /\ DOMAIN f = {}
  <2>1. PICK f : f = EmptyBag
    OBVIOUS
  <2>2. DOMAIN f = {} /\ f = [r \in DOMAIN f |-> f[r]]
    BY <2>1 DEF EmptyBag, SetToBag
  <2>3. f \in Awaited
    BY <2>2, AwaitedAre, FS_EmptySet
  <2> QED BY <2>1, <2>2, <2>3
<1>4. PICK q \in Seq(Binding) : q = <<>>
  <2>1. <<>> \in Seq(Binding)
    BY EmptySeq
  <2> QED BY <2>1
<1>5. PICK K \in Config : K = {}
  BY FS_EmptySet DEF Config
<1>6. PICK bind \in [Binding -> BindType], at \in [Slot -> Binding \cup {NoBinding}] :
        /\ bind = [b \in Binding |-> FreeBinding] /\ at = [x \in Slot |-> NoBinding]
  BY <1>2
<1>7. nat = [ faults |-> faults, transports |-> transports, calls |-> calls, link |-> "none",
              contexts |-> 0, losses |-> 0, wait |-> "no", bind |-> bind, at |-> at,
              pending |-> q, flight |-> f, mapped |-> {}, file |-> K, adding |-> K,
              removing |-> K, gaveUp |-> {}, call |-> "none", session |-> "none", seen |-> <<>> ]
  BY <1>1, <1>3, <1>4, <1>5, <1>6 DEF UpnpInit
<1>8. /\ nat \in NatType /\ nat.bind = bind /\ nat.at = at /\ nat.pending = q /\ nat.flight = f
      /\ nat.wait = "no"
  BY <1>7 DEF NatType
<1>9. ASSUME NEW b \in Binding
      PROVE  /\ nat.bind[b].ref = Cardinality(Slots(nat, b)) + Cardinality(Left(nat)[b])
                                  + nat.bind[b].lost + One(NoBinding, b)
             /\ nat.bind[b].used <=> nat.bind[b].ref # 0
             /\ Awaiting(nat, b) + One(NoBinding, b) = Pending(nat, b)
             /\ Awaiting(nat, b) + One(NoBinding, b) <= Pending(nat, b)
  <2>1. nat.bind[b] = FreeBinding
    BY <1>6, <1>8
  <2>2. Slots(nat, b) = {}
    BY <1>6, <1>8, NoneIs DEF Slots
  <2>3. Places(nat.pending, b) = {} /\ Left(nat)[b] = Places(nat.pending, b) /\ Answers(nat.flight, b) = {}
    BY <1>3, <1>4, <1>8 DEF Places, Left, Answers
  <2>4. Cardinality({}) = 0 /\ One(NoBinding, b) = 0
    BY FS_EmptySet, NoneIs
  <2>5. Cardinality(Slots(nat, b)) = 0 /\ Cardinality(Left(nat)[b]) = 0 /\ Pending(nat, b) = 0 /\ Awaiting(nat, b) = 0
    BY <2>2, <2>3, <2>4 DEF Pending, Awaiting
  <2> QED BY <1>2, <2>1, <2>4, <2>5
<1>10. Even(nat, NoBinding, NoBinding)
  BY <1>8, <1>9 DEF Even, CountedAt
<1> QED BY <1>8, <1>10, RunsGood

LEMMA LibraryGood ==
  ASSUME Good(nat), LibraryThread
  PROVE  Good(nat')
<1>1. PICK e \in Env(nat) :
        \/ \E link \in {"pending", "down", "ok"} : DeviceChanged(link, e)
        \/ \E r \in BagToSet(nat.flight), ok \in BOOLEAN : Reply(r, ok, e)
  BY DEF LibraryThread
<1>2. Does(nat, e)
  BY EnvDoes
<1>3. CASE \E link \in {"pending", "down", "ok"} : DeviceChanged(link, e)
  BY <1>2, <1>3, DeviceChangedGood
<1>4. CASE \E r \in BagToSet(nat.flight), ok \in BOOLEAN : Reply(r, ok, e)
  BY <1>2, <1>4, ReplyGood
<1> QED BY <1>1, <1>3, <1>4

LEMMA MainGood ==
  ASSUME Good(nat), MainThread
  PROVE  Good(nat')
<1>1. CASE NewContext \/ ContextGone \/ Background \/ SessionSeen
  BY <1>1, NewContextGood, ContextGoneGood, BackgroundGood, SessionSeenGood
<1>2. CASE \E e \in Env(nat) :
             \/ DelayedTimeout(e) \/ EndCall(e) \/ SessionGone(e)
             \/ \E reachable \in BOOLEAN : DestroyContext(reachable, e)
             \/ \E port \in Wishes(SipSlot), moved \in Moved, due \in BOOLEAN :
                  Hook(port, moved, due, e)
             \/ \E port \in Wishes(CallSlot), call \in Waits :
                  \/ call \in {"incoming", "outgoing"} /\ StartCall(call, port, e)
                  \/ \E moved \in Moved, due \in BOOLEAN :
                       call = "updating" /\ UpdateCall(call, port, moved, due, e)
  <2>1. PICK e \in Env(nat) :
          \/ DelayedTimeout(e) \/ EndCall(e) \/ SessionGone(e)
          \/ \E reachable \in BOOLEAN : DestroyContext(reachable, e)
          \/ \E port \in Wishes(SipSlot), moved \in Moved, due \in BOOLEAN :
               Hook(port, moved, due, e)
          \/ \E port \in Wishes(CallSlot), call \in Waits :
               \/ call \in {"incoming", "outgoing"} /\ StartCall(call, port, e)
               \/ \E moved \in Moved, due \in BOOLEAN :
                    call = "updating" /\ UpdateCall(call, port, moved, due, e)
    BY <1>2
  <2>2. Does(nat, e)
    BY EnvDoes
  <2>3. CASE DelayedTimeout(e) \/ EndCall(e) \/ SessionGone(e)
    BY <2>2, <2>3, EndsGood
  <2>4. CASE \E reachable \in BOOLEAN : DestroyContext(reachable, e)
    BY <2>2, <2>4, DestroyContextGood
  <2>5. CASE \E port \in Wishes(SipSlot), moved \in Moved, due \in BOOLEAN :
               Hook(port, moved, due, e)
    BY <2>2, <2>5, HookGood
  <2>6. CASE \E port \in Wishes(CallSlot), call \in Waits :
               \/ call \in {"incoming", "outgoing"} /\ StartCall(call, port, e)
               \/ \E moved \in Moved, due \in BOOLEAN :
                    call = "updating" /\ UpdateCall(call, port, moved, due, e)
    BY <2>2, <2>6, StartCallGood, UpdateCallGood
  <2> QED BY <2>1, <2>3, <2>4, <2>5, <2>6
<1> QED BY <1>1, <1>2 DEF MainThread

LEMMA StaysGood ==
  Good(nat) /\ [UpnpNext]_nat => Good(nat)'
BY LibraryGood, MainGood DEF UpnpNext

-----------------------------------------------------------------------------
(* What the invariant says                                                 *)

LEMMA GoodCounts ==
  ASSUME Good(nat)
  PROVE  BindingsAreCounted
<1>1. Even(nat, NoBinding, NoBinding) /\ nat \in NatType
  BY DEF Good, Even
<1>2. ASSUME NEW b \in Binding
      PROVE  nat.bind[b].ref = Cardinality({x \in Slot : nat.at[x] = b}) + Pendings(b) + nat.bind[b].lost
  <2>1. One(NoBinding, b) = 0
    BY NoneIs
  <2>2. /\ nat.bind[b].ref = Cardinality(Slots(nat, b)) + Pending(nat, b) + nat.bind[b].lost + One(NoBinding, b)
        /\ Cardinality(Slots(nat, b)) \in Nat /\ Pending(nat, b) \in Nat /\ nat.bind[b].lost \in Nat
    BY <1>1, EvenAt
  <2>3. Pendings(b) = Pending(nat, b) /\ {x \in Slot : nat.at[x] = b} = Slots(nat, b)
    BY DEF Pendings, Pending, Places, Slots
  <2>4. PICK c \in Nat, p \in Nat, l \in Nat :
          c = Cardinality(Slots(nat, b)) /\ p = Pending(nat, b) /\ l = nat.bind[b].lost
    BY <2>2
  <2>5. nat.bind[b].ref = c + p + l
    BY <2>1, <2>2, <2>4
  <2> QED BY <2>3, <2>4, <2>5
<1>3. ASSUME NEW r \in BagToSet(nat.flight)
      PROVE  nat.bind[r.b].used
  <2>1. r \in DOMAIN nat.flight
    BY DEF BagToSet
  <2>2. PICK s : s = Taken(nat, r)
    OBVIOUS
  <2>3. r \in Asked /\ Even(s, NoBinding, r.b) /\ s.bind = nat.bind
    BY <1>1, <2>1, <2>2, TakenEven
  <2>4. r.b \in Binding
    BY <2>3 DEF Asked
  <2>5. s.bind[r.b].used
    BY <2>3, <2>4, PointedUsed
  <2> QED BY <2>3, <2>5
<1> QED BY <1>2, <1>3 DEF BindingsAreCounted

\* No request is awaited more often than the list is long, so the pairs of the
\* property are those of the invariant.
LEMMA AnswersAre ==
  ASSUME Good(nat), NEW b \in Binding
  PROVE  {p \in BagToSet(nat.flight) \X (1..Len(nat.pending)) : p[1].b = b /\ p[2] <= nat.flight[p[1]]}
           = Answers(nat.flight, b)
<1>1. nat \in NatType
  BY DEF Good, Even
<1>2. PICK n \in Nat : n = Len(nat.pending)
  BY <1>1 DEF NatType
<1>3. ASSUME NEW r \in DOMAIN nat.flight, r.b = b
      PROVE  nat.flight[r] \in Nat /\ nat.flight[r] <= n
  <2>1. PICK k \in Nat \ {0} : k = nat.flight[r]
    BY <1>1, AwaitedAre DEF NatType
  <2>2. PICK S : S = {r} \X (1..k)
    OBVIOUS
  <2>3. S \subseteq Answers(nat.flight, b)
    BY <1>3, <2>1, <2>2 DEF Answers
  <2>4. IsFiniteSet(Answers(nat.flight, b)) /\ Cardinality(Answers(nat.flight, b)) \in Nat
    BY <1>1, AnswersFinite DEF NatType
  <2>5. Cardinality(S) <= Cardinality(Answers(nat.flight, b))
    BY <2>3, <2>4, FS_Subset
  <2>6. Cardinality(S) = k
    <3>1. IsFiniteSet(1..k) /\ Cardinality(1..k) = k
      <4>1. 1 \in Int /\ k \in Int
        OBVIOUS
      <4> QED BY <4>1, FS_Interval
    <3>2. IsFiniteSet({r}) /\ Cardinality({r}) = 1
      BY FS_Singleton
    <3>3. Cardinality({r} \X (1..k)) = Cardinality({r}) * Cardinality(1..k)
      BY <3>1, <3>2, FS_Product
    <3> QED BY <2>2, <3>1, <3>2, <3>3
  <2>7. Cardinality(Answers(nat.flight, b)) <= Pending(nat, b) /\ Pending(nat, b) <= n
    <3>1. /\ Awaiting(nat, b) + One(NoBinding, b) <= Pending(nat, b)
          /\ Awaiting(nat, b) \in Nat /\ Pending(nat, b) \in Nat
      BY EvenAt DEF Good
    <3>2. One(NoBinding, b) = 0
      BY NoneIs
    <3>3. Pending(nat, b) <= n
      BY <1>1, <1>2, PlacesFinite DEF Pending, NatType
    <3> QED BY <3>1, <3>2, <3>3 DEF Awaiting
  <2>8. Pending(nat, b) \in Nat
    BY <1>1, CountsAre
  <2> QED BY <2>1, <2>4, <2>5, <2>6, <2>7, <2>8
<1>4. PICK S : S = {p \in (DOMAIN nat.flight) \X (1..n) : p[1].b = b /\ p[2] <= nat.flight[p[1]]}
  OBVIOUS
<1>5. S \subseteq Answers(nat.flight, b)
  BY <1>2, <1>4 DEF Answers
<1>6. ASSUME NEW p \in Answers(nat.flight, b)
      PROVE  p \in S
  <2>1. PICK r \in DOMAIN nat.flight, k \in Nat \ {0} : p = <<r, k>> /\ r.b = b /\ k <= nat.flight[r]
    BY <1>6 DEF Answers
  <2>2. nat.flight[r] \in Nat /\ nat.flight[r] <= n
    BY <1>3, <2>1
  <2>3. k \in 1..n
    BY <1>2, <2>1, <2>2
  <2> QED BY <1>4, <2>1, <2>3
<1>7. S = Answers(nat.flight, b)
  BY <1>5, <1>6
<1> QED BY <1>2, <1>4, <1>7 DEF BagToSet

LEMMA GoodWakes ==
  ASSUME Good(nat)
  PROVE  DestroyerIsWoken
<1>1. SUFFICES ASSUME nat.wait = "waits" /\ "unsent" \notin nat.faults
               PROVE  /\ nat.pending # <<>>
                      /\ \A b \in Binding :
                           Pendings(b) = Cardinality({p \in BagToSet(nat.flight) \X (1..Len(nat.pending)) :
                                                        p[1].b = b /\ p[2] <= nat.flight[p[1]]})
  BY DEF DestroyerIsWoken
<1>2. nat.pending # <<>>
  BY <1>1 DEF Good, Waiting
<1>3. ASSUME NEW b \in Binding
      PROVE  Pendings(b) = Cardinality({p \in BagToSet(nat.flight) \X (1..Len(nat.pending)) :
                                          p[1].b = b /\ p[2] <= nat.flight[p[1]]})
  <2>1. /\ Awaiting(nat, b) + One(NoBinding, b) = Pending(nat, b)
        /\ Awaiting(nat, b) \in Nat /\ Pending(nat, b) \in Nat
    BY <1>1, EvenAt DEF Good
  <2>2. Awaiting(nat, b) = Pending(nat, b)
    BY <2>1, NoneIs
  <2>3. Pendings(b) = Pending(nat, b) /\ Awaiting(nat, b) = Cardinality(Answers(nat.flight, b))
    BY DEF Pendings, Pending, Places, Awaiting
  <2> QED BY <2>2, <2>3, AnswersAre
<1> QED BY <1>2, <1>3

-----------------------------------------------------------------------------
(* Theorems                                                                *)

\* The references of a binding (linphone_upnp_port_binding_retain() and
\* _release(), called by both threads) are always those of its slot, of the list
\* of pending bindings and of pointers that were dropped, whatever the number of
\* bindings and slots and whatever the router does: no slot, list or reply points
\* to a binding that was freed.
THEOREM ReferencesAreCounted == UpnpSpec => []BindingsAreCounted
<1>1. UpnpStart => Good(nat)
  BY StartGood
<1>2. Good(nat) /\ [UpnpNext]_nat => Good(nat)'
  BY StaysGood
<1>3. Good(nat) => BindingsAreCounted
  BY GoodCounts
<1> QED BY <1>1, <1>2, <1>3, PTL DEF UpnpSpec

\* As long as linphone_upnp_context_destroy() waits, each pending binding has a
\* reply to come, if the library takes every request; so it is woken by the last.
THEOREM DestructionIsWoken == UpnpSpec => []DestroyerIsWoken
<1>1. UpnpStart => Good(nat)
  BY StartGood
<1>2. Good(nat) /\ [UpnpNext]_nat => Good(nat)'
  BY StaysGood
<1>3. Good(nat) => DestroyerIsWoken
  BY GoodWakes
<1> QED BY <1>1, <1>2, <1>3, PTL DEF UpnpSpec

=============================================================================
