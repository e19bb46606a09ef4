-------------------------- MODULE SalCallOpProofs ---------------------------
(***************************************************************************)
(* The references of a SIP operation (sal_op_ref() and sal_op_unref() by   *)
(* hand, all over the SAL) are exactly the pointers to it, whichever       *)
(* faults of the far end, of the transport and of the stack come together, *)
(* and however many transactions there are: OpIsCounted.                   *)
(*                                                                         *)
(* That the count is right after every handler is not enough: a handler    *)
(* that fails the call (Fails) reads through NULL when there is no call,   *)
(* so the invariant also says when an operation without a call can still   *)
(* be reached (Stray: it cannot), that a second BYE is not served (bye),   *)
(* and what a later release relies on.  A function of the operation is     *)
(* shown to keep Counted(s, k): k references are held by its caller.       *)
(*                                                                         *)
(* That the end of a call is carried out (EndIsCarriedOut) rests on two    *)
(* more invariants.  Ongoing says for each state of the dialog what will   *)
(* lead a call to call_released(): the INVITE that is still in course with *)
(* the CANCEL sent or to be sent, the BYE, the end of the dialog that is   *)
(* to be told, or the task it queued.  Settled says what the far end has   *)
(* of the operation at each state of the dialog: before the answer one     *)
(* INVITE in one direction, and none that is not answered when the dialog  *)
(* is over; and that the core gives the operation up in no other state.    *)
(***************************************************************************)
EXTENDS SalCallOp, FiniteSetTheorems, TLAPS

-----------------------------------------------------------------------------
(* Types                                                                   *)

\* The states a client transaction has in the stack.
TransactionState == {"calling", "proceeding", "challenged", "ended"}

\* Bags of client transactions.
Outstanding == UNION {[D -> Nat \ {0}] : D \in SUBSET (Method \X TransactionState)}

\* The operation.
SalType ==
  [ faults : SUBSET SalFaults, dir : {"none", "in", "out"},
    state : {"early", "active", "terminating", "terminated"}, ref : Int,
    app : {"none", "live", "over", "gone"},
    dialog : {"none", "null", "early", "confirmed", "terminated"}, linked : BOOLEAN,
    last : {"none", "null", "early", "confirmed"}, event : BOOLEAN, later : BOOLEAN,
    released : BOOLEAN, out : Outstanding, pending : Method \cup {"none"},
    asked : Method \cup {"none"}, invite : {"none", "open", "answered"}, servers : Nat,
    bye : BOOLEAN, lost : Nat, freed : BOOLEAN, dangling : BOOLEAN ]

-----------------------------------------------------------------------------
(* Bags of transactions                                                    *)

\* A bag of transactions by its elements.
LEMMA OutstandingAre ==
  ASSUME NEW b
  PROVE  b \in Outstanding <=>
           /\ DOMAIN b \subseteq Method \X TransactionState
           /\ b = [x \in DOMAIN b |-> b[x]]
           /\ \A x \in DOMAIN b : b[x] \in Nat \ {0}
BY DEF Outstanding

\* The transactions of a bag by their numbers.
LEMMA TransactionsAre ==
  ASSUME NEW b, NEW p
  PROVE  p \in Transactions(b) <=> \E x \in DOMAIN b : \E i \in 1..b[x] : p = <<x, i>>
BY DEF Transactions

\* There are finitely many transactions.
LEMMA TransactionsFinite ==
  ASSUME NEW b \in Outstanding
  PROVE  IsFiniteSet(Transactions(b)) /\ Cardinality(Transactions(b)) \in Nat
<1>1. IsFiniteSet(Method) /\ IsFiniteSet(TransactionState)
  <2>1. Method = ((({} \cup {"INVITE"}) \cup {"CANCEL"}) \cup {"BYE"}) \cup {"INFO"}
    BY DEF Method
  <2>2. TransactionState =
          ((({} \cup {"calling"}) \cup {"proceeding"}) \cup {"challenged"}) \cup {"ended"}
    BY DEF TransactionState
  <2> QED BY <2>1, <2>2, FS_EmptySet, FS_AddElement
<1>2. IsFiniteSet(DOMAIN b)
  BY <1>1, FS_Product, FS_Subset, OutstandingAre
<1>3. ASSUME NEW x \in DOMAIN b  PROVE IsFiniteSet({x} \X (1..b[x]))
  <2>1. b[x] \in Int /\ 1 \in Int
    BY OutstandingAre
  <2>2. IsFiniteSet({x}) /\ IsFiniteSet(1..b[x])
    BY <2>1, FS_Singleton, FS_Interval
  <2> QED BY <2>2, FS_Product
<1>4. IsFiniteSet({{x} \X (1..b[x]) : x \in DOMAIN b})
  <2> DEFINE T == {{x} \X (1..b[x]) : x \in DOMAIN b}
             f == [x \in DOMAIN b |-> {x} \X (1..b[x])]
  <2>1. f \in Surjection(DOMAIN b, T)
    BY DEF Surjection
  <2> QED BY <1>2, <2>1, FS_Surjection
<1> QED BY <1>3, <1>4, FS_UNION, FS_CardinalityType DEF Transactions

\* The stack starts a transaction: there is one more.
LEMMA AddOne ==
  ASSUME NEW b \in Outstanding, NEW x \in Method \X TransactionState
  PROVE  /\ b (+) SetToBag({x}) \in Outstanding
         /\ Cardinality(Transactions(b (+) SetToBag({x}))) = Cardinality(Transactions(b)) + 1
         /\ DOMAIN (b (+) SetToBag({x})) = DOMAIN b \cup {x}
<1> DEFINE c == b (+) SetToBag({x})
           n == IF x \in DOMAIN b THEN b[x] ELSE 0
<1>1. DOMAIN c = DOMAIN b \cup {x} /\ \A y \in DOMAIN c : c[y] = IF y = x THEN n + 1 ELSE b[y]
  BY OutstandingAre DEF (+), SetToBag
<1>2. c = [y \in DOMAIN c |-> c[y]]
  BY DEF (+)
<1>3. n \in Nat
  BY OutstandingAre
<1> HIDE DEF c
<1>4. c \in Outstanding
  BY <1>1, <1>2, <1>3, OutstandingAre
<1> HIDE DEF n
<1>5. Transactions(c) = Transactions(b) \cup {<<x, n + 1>>}
  <2>1. ASSUME NEW p, p \in Transactions(c)  PROVE p \in Transactions(b) \cup {<<x, n + 1>>}
    <3>1. PICK y \in DOMAIN c : \E i \in 1..c[y] : p = <<y, i>>
      BY <2>1, TransactionsAre
    <3>2. PICK i \in 1..c[y] : p = <<y, i>>
      BY <3>1
    <3>3. CASE y # x
      BY <1>1, <3>2, <3>3, TransactionsAre
    <3>4. CASE y = x /\ i = n + 1
      BY <3>2, <3>4
    <3>5. CASE y = x /\ i # n + 1
      <4>1. i \in 1..n /\ x \in DOMAIN b /\ n = b[x]
        BY <1>1, <1>3, <3>2, <3>5 DEF n
      <4> QED BY <3>2, <3>5, <4>1, TransactionsAre
    <3> QED BY <3>3, <3>4, <3>5
  <2>2. ASSUME NEW p, p \in Transactions(b) \cup {<<x, n + 1>>}  PROVE p \in Transactions(c)
    <3>1. CASE p = <<x, n + 1>>
      BY <1>1, <1>3, <3>1, TransactionsAre
    <3>2. CASE p \in Transactions(b)
      <4>1. PICK y \in DOMAIN b : \E i \in 1..b[y] : p = <<y, i>>
        BY <3>2, TransactionsAre
      <4>2. PICK i \in 1..b[y] : p = <<y, i>>
        BY <4>1
      <4>3. b[y] \in Nat
        BY OutstandingAre
      <4>4. y \in DOMAIN c /\ i \in 1..c[y]
        BY <1>1, <1>3, <4>2, <4>3 DEF n
      <4> QED BY <4>2, <4>4, TransactionsAre
    <3> QED BY <2>2, <3>1, <3>2
  <2> QED BY <2>1, <2>2
<1>6. <<x, n + 1>> \notin Transactions(b)
  <2>1. ASSUME NEW y \in DOMAIN b, NEW i \in 1..b[y], <<x, n + 1>> = <<y, i>>  PROVE FALSE
    BY <1>3, <2>1 DEF n
  <2> QED BY <2>1, TransactionsAre
<1>7. Cardinality(Transactions(c)) = Cardinality(Transactions(b)) + 1
  BY <1>5, <1>6, TransactionsFinite, FS_AddElement
<1> QED BY <1>1, <1>4, <1>7 DEF c

\* A transaction ends: there is one less.
LEMMA RemoveOne ==
  ASSUME NEW b \in Outstanding, NEW x \in DOMAIN b
  PROVE  /\ b (-) SetToBag({x}) \in Outstanding
         /\ Cardinality(Transactions(b (-) SetToBag({x}))) = Cardinality(Transactions(b)) - 1
         /\ DOMAIN b \ {x} \subseteq DOMAIN (b (-) SetToBag({x}))
<1> DEFINE c == b (-) SetToBag({x})
           n == b[x]
<1>1. /\ DOMAIN c = {y \in DOMAIN b : y # x \/ n > 1}
      /\ \A y \in DOMAIN c : c[y] = IF y = x THEN n - 1 ELSE b[y]
  BY OutstandingAre DEF (-), SetToBag
<1>2. c = [y \in DOMAIN c |-> c[y]]
  BY DEF (-)
<1>3. n \in Nat \ {0}
  BY OutstandingAre
<1> HIDE DEF c
<1>4. c \in Outstanding
  BY <1>1, <1>2, <1>3, OutstandingAre
<1> HIDE DEF n
<1>5. Transactions(c) = Transactions(b) \ {<<x, n>>}
  <2>1. ASSUME NEW p, p \in Transactions(c)  PROVE p \in Transactions(b) \ {<<x, n>>}
    <3>1. PICK y \in DOMAIN c : \E i \in 1..c[y] : p = <<y, i>>
      BY <2>1, TransactionsAre
    <3>2. PICK i \in 1..c[y] : p = <<y, i>>
      BY <3>1
    <3>3. y \in DOMAIN b /\ i \in 1..b[y] /\ (y = x => i # n)
      <4>1. CASE y = x
        BY <1>1, <1>3, <3>2, <4>1 DEF n
      <4>2. CASE y # x
        BY <1>1, <3>2, <4>2
      <4> QED BY <4>1, <4>2
    <3> QED BY <3>2, <3>3, TransactionsAre
  <2>2. ASSUME NEW p, p \in Transactions(b), p # <<x, n>>  PROVE p \in Transactions(c)
    <3>1. PICK y \in DOMAIN b : \E i \in 1..b[y] : p = <<y, i>>
      BY <2>2, TransactionsAre
    <3>2. PICK i \in 1..b[y] : p = <<y, i>>
      BY <3>1
    <3>3. y \in DOMAIN c /\ i \in 1..c[y]
      <4>1. CASE y = x
        <5>1. i \in 1..n /\ i # n
          BY <2>2, <3>2, <4>1 DEF n
        <5> QED BY <1>1, <1>3, <4>1, <5>1
      <4>2. CASE y # x
        BY <1>1, <3>2, <4>2
      <4> QED BY <4>1, <4>2
    <3> QED BY <3>2, <3>3, TransactionsAre
  <2> QED BY <2>1, <2>2
<1>6. <<x, n>> \in Transactions(b)
  BY <1>3, TransactionsAre DEF n
<1>7. Cardinality(Transactions(c)) = Cardinality(Transactions(b)) - 1
  BY <1>5, <1>6, TransactionsFinite, FS_RemoveElement
<1> QED BY <1>1, <1>4, <1>7 DEF c

\* A bag that is not empty has a transaction.
LEMMA SomeTransaction ==
  ASSUME NEW b \in Outstanding, DOMAIN b # {}
  PROVE  Cardinality(Transactions(b)) > 0
<1>1. PICK x \in DOMAIN b : TRUE
  OBVIOUS
<1>2. <<x, 1>> \in Transactions(b)
  BY TransactionsAre, OutstandingAre
<1> QED BY <1>2, TransactionsFinite, FS_EmptySet

-----------------------------------------------------------------------------
(* References                                                              *)

\* The references of s are its holders and k of whoever is at work on it; a freed one has none.
Counted(s, k) ==
  s \in SalType /\ s.ref = Holders(s) + k /\ ~s.dangling /\ (s.freed => s.ref = 0)

\* An operation without a call that was not released: its first INVITE was refused at once,
\* nothing is under way on it and its dialog is over.
Stray(s) == DOMAIN s.out = {} /\ s.asked = "none" /\ s.dialog = "terminated" /\ s.last # "confirmed"

\* What the handlers rely on: only an operation the call gave up is terminating, one without
\* a call is terminated or stray, a later release has something to release, and a BYE was
\* received in a dialog that is over with it.
Sound(s) ==
  /\ s.dir # "none"
  /\ s.state = "terminating" => s.app = "over"
  /\ ~HasCall(s) /\ s.state # "terminated" => Stray(s)
  /\ s.later => s.linked \/ DOMAIN s.out # {}
  /\ s.bye => s.dialog = "terminated"

\* Something but a client left alone points to the operation.
Pointed(s) ==
  HasCall(s) \/ s.linked \/ DOMAIN s.out # {} \/ s.invite # "none" \/ s.bye \/ s.servers > 0

\* The holders are counted, and what points to the operation is one of them.
LEMMA HoldersNat ==
  ASSUME NEW s \in SalType
  PROVE  Holders(s) \in Nat /\ (Pointed(s) => Holders(s) > 0)
<1>1. s.out \in Outstanding /\ s.servers \in Nat /\ s.lost \in Nat
  BY DEF SalType
<1>2. Cardinality(Transactions(s.out)) \in Nat
  BY <1>1, TransactionsFinite
<1>3. DOMAIN s.out # {} => Cardinality(Transactions(s.out)) > 0
  BY <1>1, SomeTransaction
<1> QED BY <1>1, <1>2, <1>3 DEF Holders, Pointed

\* An operation somebody holds is not freed.
LEMMA HeldIsNotFreed ==
  ASSUME NEW s, NEW k \in Nat, Counted(s, k), Pointed(s) \/ k > 0
  PROVE  ~s.freed /\ s.ref > 0
BY HoldersNat DEF Counted

\* The same but for the references.
Alike(s, t) ==
  /\ t.faults = s.faults /\ t.dir = s.dir /\ t.state = s.state /\ t.app = s.app
  /\ t.dialog = s.dialog /\ t.linked = s.linked /\ t.last = s.last /\ t.event = s.event
  /\ t.later = s.later /\ t.released = s.released /\ t.out = s.out /\ t.pending = s.pending
  /\ t.asked = s.asked /\ t.invite = s.invite /\ t.servers = s.servers /\ t.bye = s.bye
  /\ t.lost = s.lost

\* References tell nothing else.
LEMMA AlikeSound ==
  ASSUME NEW s, NEW t, Alike(s, t)
  PROVE  Holders(t) = Holders(s) /\ (Sound(s) => Sound(t)) /\ (Pointed(s) <=> Pointed(t))
BY DEF Alike, Holders, HasCall, Sound, Stray, Pointed

\* sal_op_ref() and sal_op_unref()
LEMMA RefCounted ==
  ASSUME NEW s, NEW k \in Nat, Counted(s, k), ~s.freed
  PROVE  Counted(RefOp(s), k + 1) /\ Alike(s, RefOp(s))
<1>1. RefOp(s) = [s EXCEPT !.ref = s.ref + 1]
  BY DEF RefOp, Counted, SalType
<1>2. /\ RefOp(s) \in SalType /\ Alike(s, RefOp(s))
      /\ RefOp(s).ref = s.ref + 1 /\ ~RefOp(s).dangling /\ ~RefOp(s).freed
  BY <1>1 DEF Counted, SalType, Alike
<1>3. Holders(RefOp(s)) = Holders(s) /\ Holders(s) \in Nat /\ s.ref = Holders(s) + k
  BY <1>2, AlikeSound, HoldersNat DEF Counted
<1> QED BY <1>2, <1>3 DEF Counted

\* A reference given back is one the caller had; the operation is freed with the last one.
LEMMA UnrefCounted ==
  ASSUME NEW s, NEW k \in Nat, Counted(s, k + 1)
  PROVE  Counted(UnrefOp(s), k) /\ Alike(s, UnrefOp(s))
<1>1. s.ref = Holders(s) + k + 1 /\ ~s.freed /\ ~s.dangling /\ Holders(s) \in Nat
  BY HoldersNat DEF Counted
<1>2. /\ UnrefOp(s) \in SalType /\ Alike(s, UnrefOp(s))
      /\ UnrefOp(s).ref = s.ref - 1 /\ ~UnrefOp(s).dangling
      /\ UnrefOp(s).freed => UnrefOp(s).ref = 0
  <2>1. CASE s.ref = 1
    <3> DEFINE x == [s EXCEPT !.ref = 0]
    <3>1. x \in SalType /\ Alike(s, x) /\ x.ref = 0 /\ ~x.dangling
      BY <1>1 DEF Counted, SalType, Alike
    <3>2. UnrefOp(s) = [s EXCEPT !.ref = 0, !.dangling = FALSE, !.freed = TRUE]
      <4>1. s.ref - 1 = 0 /\ (s.dangling \/ s.freed) = FALSE /\ (s.freed \/ s.ref = 1) = TRUE
        BY <1>1, <2>1
      <4> QED BY <4>1, Zenon DEF UnrefOp
    <3>3. s = [s EXCEPT !.dangling = FALSE]
      BY <1>1 DEF Counted, SalType
    <3>4. UnrefOp(s) = [x EXCEPT !.freed = TRUE]
      BY <3>2, <3>3 DEF Counted, SalType
    <3> HIDE DEF x
    <3> DEFINE y == [x EXCEPT !.freed = TRUE]
    <3>5. y \in SalType
      BY <3>1 DEF SalType
    <3>6. Alike(s, y)
      BY <3>1 DEF SalType, Alike
    <3>7. y.ref = 0 /\ ~y.dangling
      BY <3>1 DEF SalType
    <3> QED BY <1>1, <2>1, <3>4, <3>5, <3>6, <3>7
  <2>2. CASE s.ref # 1
    <3>1. UnrefOp(s) = [s EXCEPT !.ref = s.ref - 1]
      BY <1>1, <2>2 DEF UnrefOp, Counted, SalType
    <3> QED BY <1>1, <2>2, <3>1 DEF Counted, SalType, Alike
  <2> QED BY <2>1, <2>2
<1>3. Holders(UnrefOp(s)) = Holders(s)
  BY <1>2, AlikeSound
<1> QED BY <1>1, <1>2, <1>3 DEF Counted

\* set_or_update_dialog() and its like: the dialog has a reference as long as it is linked.
LEMMA LinkCounted ==
  ASSUME NEW s, NEW k \in Nat, NEW yes \in BOOLEAN, Counted(s, k), Pointed(s) \/ k > 0
  PROVE  /\ Counted(LinkDialog(s, yes), k)
         /\ Alike([s EXCEPT !.linked = yes], LinkDialog(s, yes))
<1> DEFINE t == RefOp(s)
           e == [s EXCEPT !.linked = yes]
<1>0. ~s.freed /\ s \in SalType
  BY HeldIsNotFreed DEF Counted
<1>1. Counted(t, k + 1) /\ Alike(s, t)
  BY <1>0, RefCounted
<1>2. e \in SalType /\ Alike(e, e)
  BY <1>0 DEF SalType, Alike
<1> HIDE DEF t, e
<1>3. ~t.freed /\ t \in SalType /\ t.linked = s.linked
  BY <1>1, HeldIsNotFreed DEF Counted, Alike
<1>4. CASE s.linked /\ ~yes
  <2> DEFINE v == UnrefOp(t)
             a == [v EXCEPT !.linked = FALSE]
  <2>1. Counted(v, k) /\ Alike(t, v)
    BY <1>1, UnrefCounted
  <2> HIDE DEF v
  <2>2. a \in SalType /\ a.ref = v.ref /\ a.freed = v.freed /\ a.dangling = v.dangling
    BY ZenonT(60), <2>1 DEF Counted, SalType
  <2>3. Alike(e, a)
    <3>1. e = [s EXCEPT !.linked = FALSE]
      BY <1>4 DEF e
    <3> QED BY <1>0, <1>1, <1>4, <2>1, <3>1 DEF Counted, Alike, SalType
  <2>3a. v.linked /\ ~a.linked /\ v.out = a.out
    BY <1>3, <1>4, <2>1 DEF Counted, Alike, SalType
  <2>3b. Holders(a) = Holders(v) - 1
    BY <2>1, <2>3a, TransactionsFinite DEF Counted, SalType, Holders, HasCall
  <2>4. Counted(a, k + 1)
    BY <2>1, <2>2, <2>3b, HoldersNat DEF Counted
  <2> HIDE DEF a
  <2>5. LinkDialog(s, yes) = UnrefOp(a)
    BY <1>4 DEF LinkDialog, a, v, t
  <2> QED BY <2>3, <2>4, <2>5, UnrefCounted DEF Alike, e
<1>5. CASE yes /\ ~s.linked
  <2> DEFINE v == RefOp(t)
             a == [v EXCEPT !.linked = TRUE]
  <2>1. Counted(v, k + 2) /\ Alike(t, v)
    BY <1>1, <1>3, RefCounted
  <2> HIDE DEF v
  <2>2. a \in SalType /\ a.ref = v.ref /\ a.freed = v.freed /\ a.dangling = v.dangling
    BY <2>1 DEF Counted, SalType
  <2>3. Alike(e, a)
    BY <1>0, <1>1, <1>5, <2>1 DEF Counted, Alike, SalType, e
  <2>3a. ~v.linked /\ a.linked /\ v.out = a.out
    BY <1>3, <1>5, <2>1 DEF Counted, Alike, SalType
  <2>3b. Holders(a) = Holders(v) + 1
    BY <2>1, <2>3a, TransactionsFinite DEF Counted, SalType, Holders, HasCall
  <2>4. Counted(a, k + 1)
    BY <2>1, <2>2, <2>3b, HoldersNat DEF Counted
  <2> HIDE DEF a
  <2>5. LinkDialog(s, yes) = UnrefOp(a)
    BY <1>5 DEF LinkDialog, a, v, t
  <2> QED BY <2>3, <2>4, <2>5, UnrefCounted DEF Alike, e
<1>6. CASE ~(s.linked /\ ~yes) /\ ~(yes /\ ~s.linked)
  <2>1. LinkDialog(s, yes) = UnrefOp(t)
    BY <1>6 DEF LinkDialog, t
  <2>2. Alike(e, t)
    BY <1>0, <1>1, <1>6 DEF Alike, SalType, e
  <2> QED BY <1>1, <2>1, <2>2, UnrefCounted DEF Alike, e
<1> QED BY <1>4, <1>5, <1>6

-----------------------------------------------------------------------------
(* Functions of an operation                                               *)

\* All that Sound speaks of, but for the dialog and the transactions.
Steady(s, t) ==
  /\ t.faults = s.faults /\ t.dir = s.dir /\ t.state = s.state /\ t.app = s.app
  /\ t.linked = s.linked /\ t.later = s.later /\ t.asked = s.asked /\ t.bye = s.bye

\* The same, with the dialog.
Kept(s, t) == Steady(s, t) /\ t.dialog = s.dialog /\ t.last = s.last

\* References are no more than what is kept.
LEMMA AlikeKept ==
  ASSUME NEW s, NEW t, Alike(s, t)
  PROVE  Kept(s, t) /\ t.out = s.out
BY DEF Alike, Kept, Steady

\* Two functions after each other.
LEMMA KeptTrans ==
  ASSUME NEW s, NEW t, NEW u, Kept(s, t), Kept(t, u)
  PROVE  Kept(s, u)
BY DEF Kept, Steady

\* The transactions may change, but for those of a stray operation.
LEMMA KeptSound ==
  ASSUME NEW s, NEW t, Kept(s, t), Sound(s), DOMAIN t.out # {}, HasCall(s) \/ s.state = "terminated"
  PROVE  Sound(t)
BY DEF Kept, Steady, Sound, Stray, HasCall

\* A transaction enters the bag with a reference.
LEMMA EnteringCounted ==
  ASSUME NEW s, NEW k \in Nat, Counted(s, k + 1), NEW m \in Method, NEW st \in TransactionState
  PROVE  /\ Counted(Entering(s, m, st), k) /\ Kept(s, Entering(s, m, st))
         /\ DOMAIN Entering(s, m, st).out # {}
<1> DEFINE b == s.out (+) SetToBag({<<m, st>>})
           t == Entering(s, m, st)
<1>1. /\ b \in Outstanding /\ DOMAIN b # {}
      /\ Cardinality(Transactions(b)) = Cardinality(Transactions(s.out)) + 1
  <2>1. s.out \in Outstanding /\ <<m, st>> \in Method \X TransactionState
    BY DEF Counted, SalType
  <2> QED BY ZenonT(60), <2>1, AddOne
<1>2. t = [s EXCEPT !.out = b]
  BY DEF Entering
<1> HIDE DEF b, t
<1>3. t \in SalType /\ Kept(s, t) /\ t.out = b /\ t.ref = s.ref /\ ~t.dangling
      /\ (t.freed => t.ref = 0)
  BY <1>1, <1>2 DEF Counted, SalType, Kept, Steady
<1>4. Holders(t) = Holders(s) + 1
  BY <1>1, <1>2, TransactionsFinite DEF Counted, SalType, Holders, HasCall
<1>5. Counted(t, k)
  BY <1>3, <1>4, HoldersNat DEF Counted
<1> QED BY <1>1, <1>3, <1>5 DEF t

\* A transaction leaves the bag, and leaves a reference to its handler.
LEMMA LeavingCounted ==
  ASSUME NEW s, NEW k \in Nat, Counted(s, k), NEW m, NEW st, HasState(s, m, st)
  PROVE  Counted(Leaving(s, m, st), k + 1) /\ Kept(s, Leaving(s, m, st))
<1> DEFINE b == s.out (-) SetToBag({<<m, st>>})
           t == Leaving(s, m, st)
<1>1. /\ b \in Outstanding
      /\ Cardinality(Transactions(b)) = Cardinality(Transactions(s.out)) - 1
  BY RemoveOne DEF Counted, SalType, HasState, BagIn, BagToSet
<1>2. t = [s EXCEPT !.out = b]
  BY DEF Leaving
<1> HIDE DEF b, t
<1>3. t \in SalType /\ Kept(s, t) /\ t.out = b /\ t.ref = s.ref /\ ~t.dangling
      /\ (t.freed => t.ref = 0)
  BY <1>1, <1>2 DEF Counted, SalType, Kept, Steady
<1>4. Holders(t) = Holders(s) - 1
  BY <1>1, <1>2, TransactionsFinite DEF Counted, SalType, Holders, HasCall
<1>5. Counted(t, k + 1)
  BY <1>3, <1>4, HoldersNat DEF Counted
<1> QED BY <1>3, <1>5 DEF t

\* A request is sent: its transaction has a reference of its own.
LEMMA SendCounted ==
  ASSUME NEW s, NEW k \in Nat, Counted(s, k), ~s.freed, NEW m \in Method
  PROVE  /\ Counted(SendRequest(s, m), k) /\ Kept(s, SendRequest(s, m))
         /\ DOMAIN SendRequest(s, m).out # {}
<1> DEFINE r == RefOp(s)
           e == Entering(r, m, "calling")
           t == [e EXCEPT !.pending = m]
<1>1. Counted(r, k + 1) /\ Kept(s, r)
  BY RefCounted, AlikeKept
<1> HIDE DEF r
<1>2. Counted(e, k) /\ Kept(r, e) /\ DOMAIN e.out # {}
  BY <1>1, EnteringCounted DEF TransactionState
<1> HIDE DEF e
<1>3. t \in SalType /\ Kept(e, t) /\ t.out = e.out /\ t.ref = e.ref /\ ~t.dangling
      /\ (t.freed => t.ref = 0)
  BY <1>2 DEF Counted, SalType, Kept, Steady
<1>4. Holders(t) = Holders(e)
  BY <1>2 DEF Counted, SalType, Holders, HasCall
<1>5. Counted(t, k)
  BY <1>2, <1>3, <1>4 DEF Counted
<1>6. SendRequest(s, m) = t
  BY DEF SendRequest, t, e, r
<1> HIDE DEF t
<1> QED BY <1>1, <1>2, <1>3, <1>5, <1>6, KeptTrans

DialogState == {"none", "null", "early", "confirmed", "terminated"}

\* The stack gives the dialog another state.
LEMMA DialogCounted ==
  ASSUME NEW s, NEW k \in Nat, Counted(s, k), NEW state \in DialogState
  PROVE  /\ Counted(DialogBecomes(s, state), k) /\ Steady(s, DialogBecomes(s, state))
         /\ DialogBecomes(s, state).out = s.out
         /\ Sound(s) => Sound(DialogBecomes(s, state))
<1> DEFINE t == DialogBecomes(s, state)
<1>1. CASE s.dialog \in {state, "terminated"}
  BY <1>1 DEF DialogBecomes, Counted, SalType, Steady
<1>2. CASE s.dialog \notin {state, "terminated"}
  <2>1. /\ t.dialog = state /\ t.last = s.dialog /\ t.out = s.out
        /\ t.ref = s.ref /\ t.freed = s.freed /\ t.dangling = s.dangling
        /\ t.servers = s.servers /\ t.lost = s.lost /\ t.invite = s.invite
    BY <1>2 DEF DialogBecomes, Counted, SalType
  <2>2. Steady(s, t)
    BY <1>2 DEF DialogBecomes, Counted, SalType, Steady
  <2>3. t \in SalType
    <3>1. PICK ends \in BOOLEAN : ends = (state = "terminated")
      OBVIOUS
    <3>2. t = [s EXCEPT !.dialog = state, !.last = s.dialog, !.event = ends]
      BY <1>2, <3>1, Zenon DEF DialogBecomes
    <3> DEFINE x == [s EXCEPT !.dialog = state]
               y == [x EXCEPT !.last = s.dialog]
    <3>3. x \in SalType
      BY DEF Counted, SalType, DialogState
    <3>4. t = [y EXCEPT !.event = ends]
      BY <3>2, Zenon
    <3>5. s.dialog \in {"none", "null", "early", "confirmed"}
      BY <1>2 DEF Counted, SalType
    <3> HIDE DEF t, x
    <3>6. y \in SalType
      BY <3>3, <3>5 DEF SalType
    <3> HIDE DEF y
    <3> QED BY <3>1, <3>4, <3>6 DEF SalType
  <2>4. Holders(t) = Holders(s)
    BY <2>1, <2>2 DEF Holders, HasCall, Steady
  <2>5. Sound(s) => Sound(t)
    BY <1>2, <2>1, <2>2 DEF Sound, Stray, HasCall, Steady
  <2> QED BY <2>1, <2>2, <2>3, <2>4, <2>5 DEF Counted
<1> QED BY <1>1, <1>2

\* sal_op_release()
LEMMA ReleaseCounted ==
  ASSUME NEW s, NEW k \in Nat, Counted(s, k), HasCall(s)
  PROVE  LET t == ReleaseOp(s)
         IN  /\ Counted(t, k) /\ t.out = s.out /\ t.linked = s.linked /\ t.later = s.later
             /\ t.dir = s.dir /\ t.app = "gone" /\ t.dialog = s.dialog /\ t.bye = s.bye
             /\ t.state = IF s.state = "terminating" THEN "terminating" ELSE "terminated"
<1> DEFINE st == IF s.state = "terminating" THEN "terminating" ELSE "terminated"
           e == [s EXCEPT !.state = st, !.app = "gone"]
<1>1. ReleaseOp(s) = UnrefOp(e)
  BY DEF ReleaseOp, Counted, SalType
<1>1a. st \in {"terminating", "terminated"}
  OBVIOUS
<1> HIDE DEF st
<1>2. /\ e \in SalType /\ e.ref = s.ref /\ ~e.dangling /\ (e.freed => e.ref = 0)
      /\ e.out = s.out /\ e.linked = s.linked /\ e.later = s.later /\ e.dir = s.dir
      /\ e.app = "gone" /\ e.dialog = s.dialog /\ e.bye = s.bye /\ e.state = st
      /\ e.servers = s.servers /\ e.lost = s.lost /\ e.invite = s.invite
  <2> DEFINE x == [s EXCEPT !.state = st]
  <2>1. x \in SalType /\ x.state = st
    BY <1>1a DEF Counted, SalType
  <2>2. e = [x EXCEPT !.app = "gone"]
    BY DEF Counted, SalType
  <2>3. e \in SalType
    <3> HIDE DEF x, e
    <3> QED BY <2>1, <2>2 DEF SalType
  <2>4. e.app = "gone" /\ e.state = st
    BY DEF Counted, SalType
  <2>5. /\ e.ref = s.ref /\ e.dangling = s.dangling /\ e.freed = s.freed
        /\ e.out = s.out /\ e.linked = s.linked /\ e.later = s.later /\ e.dir = s.dir
        /\ e.dialog = s.dialog /\ e.bye = s.bye
        /\ e.servers = s.servers /\ e.lost = s.lost /\ e.invite = s.invite
    BY DEF Counted, SalType
  <2> HIDE DEF e, x
  <2> QED BY <2>3, <2>4, <2>5 DEF Counted
<1>3. Holders(e) = Holders(s) - 1
  <2>1. /\ Cardinality(Transactions(s.out)) \in Nat /\ s.servers \in Nat /\ s.lost \in Nat
        /\ HasCall(s) /\ ~HasCall(e)
    BY <1>2, TransactionsFinite DEF HasCall, Counted, SalType
  <2> HIDE DEF e
  <2> QED BY <1>2, <2>1 DEF Holders
<1>4. Counted(e, k + 1)
  BY <1>2, <1>3, HoldersNat DEF Counted
<1> HIDE DEF e
<1> QED BY <1>1, <1>2, <1>4, UnrefCounted DEF Alike, st

\* call_set_released(): somebody besides the core still holds the operation.
LEMMA ReleasedCounted ==
  ASSUME NEW s, NEW k \in Nat, Counted(s, k), k > 0 \/ s.linked \/ DOMAIN s.out # {}
  PROVE  /\ Counted(CallSetReleased(s), k) /\ CallSetReleased(s).out = s.out
         /\ Sound(s) /\ (s.later => DOMAIN s.out # {}) => Sound(CallSetReleased(s))
<1>1. ~s.freed /\ ~s.dangling /\ s \in SalType
  BY HeldIsNotFreed DEF Pointed, Counted
<1>2. CASE s.released
  <2>1. CallSetReleased(s) = [s EXCEPT !.dangling = FALSE]
    <3>1. (s.dangling \/ s.freed) = FALSE
      BY <1>1
    <3> QED BY <1>2, <3>1, Zenon DEF CallSetReleased
  <2>2. CallSetReleased(s) = s
    BY <1>1, <2>1 DEF SalType
  <2> QED BY <2>2
<1>3. CASE ~s.released
  <2> DEFINE t == [s EXCEPT !.state = "terminated", !.dangling = s.dangling \/ s.freed]
             u == IF HasCall(t) THEN ReleaseOp(t) ELSE t
             v == [u EXCEPT !.released = TRUE]
  <2>1. t = [s EXCEPT !.state = "terminated"]
    <3>1. (s.dangling \/ s.freed) = FALSE
      BY <1>1
    <3>2. t = [s EXCEPT !.state = "terminated", !.dangling = FALSE]
      BY <3>1, Zenon
    <3> QED BY <1>1, <3>2 DEF SalType
  <2>2. CallSetReleased(s) = LinkDialog(v, FALSE)
    BY <1>3, <2>1 DEF CallSetReleased, HasCall, SalType, Counted
  <2> HIDE DEF t
  <2>3. /\ t \in SalType /\ t.ref = s.ref /\ t.freed = s.freed /\ ~t.dangling
        /\ t.state = "terminated" /\ t.app = s.app /\ t.dir = s.dir /\ t.linked = s.linked
        /\ t.later = s.later /\ t.out = s.out /\ t.dialog = s.dialog /\ t.bye = s.bye
        /\ t.servers = s.servers /\ t.lost = s.lost /\ t.invite = s.invite
    BY <1>1, <2>1 DEF SalType
  <2>4. Counted(t, k)
    BY <1>1, <2>3 DEF Counted, Holders, HasCall
  <2>5. /\ Counted(u, k) /\ u.out = s.out /\ u.linked = s.linked /\ u.later = s.later
        /\ u.dir = s.dir /\ u.state = "terminated" /\ u.dialog = s.dialog /\ u.bye = s.bye
        /\ u.app \notin {"live", "over"}
    BY <2>3, <2>4, ReleaseCounted DEF HasCall
  <2> HIDE DEF u
  <2>6. /\ v \in SalType /\ v.ref = u.ref /\ v.freed = u.freed /\ v.dangling = u.dangling
        /\ v.out = u.out /\ v.linked = u.linked /\ v.later = u.later /\ v.dir = u.dir
        /\ v.state = u.state /\ v.dialog = u.dialog /\ v.bye = u.bye /\ v.app = u.app
        /\ v.servers = u.servers /\ v.lost = u.lost /\ v.invite = u.invite
    BY <2>5 DEF Counted, SalType
  <2>7. Counted(v, k)
    BY <2>5, <2>6 DEF Counted, Holders, HasCall
  <2> HIDE DEF v
  <2>8. Pointed(v) \/ k > 0
    BY <2>5, <2>6 DEF Pointed
  <2> DEFINE w == LinkDialog(v, FALSE)
             x == [v EXCEPT !.linked = FALSE]
  <2>9. Counted(w, k) /\ Alike(x, w)
    BY <2>7, <2>8, LinkCounted
  <2> HIDE DEF w
  <2>10. /\ w.out = s.out /\ w.state = "terminated" /\ w.dir = s.dir /\ w.later = s.later
         /\ w.dialog = s.dialog /\ w.bye = s.bye
    BY <2>5, <2>6, <2>9 DEF Alike, SalType
  <2>11. Sound(s) /\ (s.later => DOMAIN s.out # {}) => Sound(w)
    BY <2>10 DEF Sound
  <2> QED BY <2>2, <2>9, <2>10, <2>11 DEF w
<1> QED BY <1>2, <1>3

\* call_terminated()
LEMMA OverCounted ==
  ASSUME NEW s, NEW k \in Nat, Counted(s, k)
  PROVE  LET t == CallOver(s)
         IN  /\ Counted(t, k) /\ t.out = s.out /\ t.dir = s.dir /\ t.state = s.state
             /\ t.linked = s.linked /\ t.later = s.later /\ t.asked = s.asked
             /\ t.dialog = s.dialog /\ t.last = s.last /\ t.bye = s.bye /\ t.faults = s.faults
             /\ t.invite = s.invite
             /\ HasCall(s) => t.app = "over"
             /\ HasCall(t) <=> HasCall(s)
             /\ Sound(s) => Sound(t)
<1> DEFINE t == CallOver(s)
<1>1. /\ t \in SalType /\ t.ref = s.ref /\ t.freed = s.freed /\ t.dangling = s.dangling
      /\ t.out = s.out /\ t.dir = s.dir /\ t.state = s.state
      /\ t.linked = s.linked /\ t.later = s.later /\ t.asked = s.asked
      /\ t.dialog = s.dialog /\ t.last = s.last /\ t.bye = s.bye /\ t.faults = s.faults
      /\ t.servers = s.servers /\ t.lost = s.lost /\ t.invite = s.invite
      /\ t.app = IF s.app = "live" THEN "over" ELSE s.app
  BY DEF CallOver, Counted, SalType
<1> HIDE DEF t
<1>2. Counted(t, k)
  BY <1>1 DEF Counted, Holders, HasCall
<1>3. Sound(s) => Sound(t)
  BY <1>1 DEF Sound, Stray, HasCall
<1> QED BY <1>1, <1>2, <1>3 DEF t, HasCall, Counted, SalType

\* call_failure()
LEMMA FailsCounted ==
  ASSUME NEW s, NEW k \in Nat, Counted(s, k), Sound(s), HasCall(s),
         NEW outcome \in FailureOutcome
  PROVE  LET t == Fails(s, outcome)
         IN  /\ Counted(t, k) /\ Sound(t) /\ t.out = s.out /\ t.linked = s.linked
             /\ t.later = s.later
<1>1. CASE s.app = "over" \/ outcome = "live"
  BY <1>1 DEF Fails, HasCall
<1>2. CASE s.app = "live" /\ outcome = "over"
  BY <1>2, OverCounted DEF Fails, HasCall
<1>3. CASE s.app = "live" /\ outcome = "gone"
  <2>1. Fails(s, outcome) = ReleaseOp(s)
    BY <1>3 DEF Fails, HasCall
  <2>2. s.state # "terminating"
    BY <1>3 DEF Sound
  <2> QED BY <2>1, <2>2, ReleaseCounted DEF Sound
<1> QED BY <1>1, <1>2, <1>3 DEF HasCall, FailureOutcome

\* sal_call_decline()
LEMMA DeclineCounted ==
  ASSUME NEW s, NEW k \in Nat, Counted(s, k)
  PROVE  /\ Counted(DeclineInvite(s), k) /\ Steady(s, DeclineInvite(s))
         /\ DeclineInvite(s).out = s.out
         /\ Sound(s) => Sound(DeclineInvite(s))
<1>1. CASE s.invite # "open"
  BY <1>1 DEF DeclineInvite, Steady
<1>2. CASE s.invite = "open"
  <2> DEFINE e == [s EXCEPT !.invite = "answered"]
             d == IF s.dialog = "confirmed" THEN "confirmed" ELSE "terminated"
  <2>1. DeclineInvite(s) = DialogBecomes(e, d)
    BY <1>2 DEF DeclineInvite
  <2>2. /\ e \in SalType /\ Kept(s, e) /\ e.out = s.out /\ e.ref = s.ref /\ e.freed = s.freed
        /\ e.dangling = s.dangling /\ e.servers = s.servers /\ e.lost = s.lost
        /\ e.invite = "answered"
    BY DEF Counted, SalType, Kept, Steady
  <2>3. d \in DialogState
    BY DEF DialogState
  <2> HIDE DEF e, d
  <2>4. Counted(e, k)
    BY <1>2, <2>2 DEF Counted, Holders, HasCall, Kept, Steady
  <2>5. Sound(s) => Sound(e)
    BY <2>2 DEF Sound, Stray, HasCall, Kept, Steady
  <2>6. Counted(DialogBecomes(e, d), k) /\ Steady(e, DialogBecomes(e, d))
        /\ DialogBecomes(e, d).out = e.out /\ (Sound(e) => Sound(DialogBecomes(e, d)))
    BY <2>3, <2>4, DialogCounted
  <2> QED BY <2>1, <2>2, <2>5, <2>6 DEF Kept, Steady
<1> QED BY <1>1, <1>2

\* An operation in another state.
LEMMA StateCounted ==
  ASSUME NEW s, NEW k \in Nat, Counted(s, k),
         NEW state \in {"early", "active", "terminating", "terminated"},
         NEW t, t = [s EXCEPT !.state = state]
  PROVE  /\ Counted(t, k) /\ t.out = s.out /\ t.state = state
         /\ t.faults = s.faults /\ t.dir = s.dir /\ t.app = s.app /\ t.linked = s.linked
         /\ t.later = s.later /\ t.asked = s.asked /\ t.bye = s.bye
         /\ t.dialog = s.dialog /\ t.last = s.last /\ t.freed = s.freed
<1>1. /\ t \in SalType /\ t.ref = s.ref /\ t.freed = s.freed /\ t.dangling = s.dangling
      /\ t.servers = s.servers /\ t.lost = s.lost /\ t.invite = s.invite
      /\ t.out = s.out /\ t.state = state
      /\ t.faults = s.faults /\ t.dir = s.dir /\ t.app = s.app /\ t.linked = s.linked
      /\ t.later = s.later /\ t.asked = s.asked /\ t.bye = s.bye
      /\ t.dialog = s.dialog /\ t.last = s.last
  BY DEF Counted, SalType
<1>2. Counted(t, k)
  BY <1>1 DEF Counted, Holders, HasCall
<1> QED BY <1>1, <1>2

\* cancelling_invite()
LEMMA CancellingCounted ==
  ASSUME NEW s, NEW k \in Nat, Counted(s, k), ~s.freed
  PROVE  LET t == CancellingInvite(s)
         IN  /\ Counted(t, k) /\ t.state = "terminating" /\ t.app = s.app /\ t.dir = s.dir
             /\ t.linked = s.linked /\ t.later = s.later /\ t.bye = s.bye
             /\ t.dialog = s.dialog /\ t.asked = s.asked
             /\ (DOMAIN s.out # {} => DOMAIN t.out # {})
<1> DEFINE u == IF s.pending = "INVITE" /\ HasState(s, "INVITE", "proceeding")
                THEN SendRequest(s, "CANCEL") ELSE s
<1>1. Counted(u, k) /\ Kept(s, u) /\ (DOMAIN s.out # {} => DOMAIN u.out # {})
  BY SendCounted DEF Method, Kept, Steady
<1>2. CancellingInvite(s) = [u EXCEPT !.state = "terminating"]
  BY DEF CancellingInvite
<1> HIDE DEF u
<1> QED BY <1>1, <1>2, StateCounted DEF Kept, Steady

\* sal_call_terminate() in the hands of the core, which ends the call
LEMMA HangUpCounted ==
  ASSUME NEW s, NEW k \in Nat, Counted(s, k), Sound(s), s.app = "live"
  PROVE  LET t == CallOver(TerminateOp(s))
         IN  /\ t = [TerminateOp(s) EXCEPT !.app = "over"]
             /\ Counted(t, k) /\ Sound(t) /\ HasCall(t)
             /\ (DOMAIN s.out # {} => DOMAIN t.out # {})
<1> DEFINE u == TerminateOp(s)
           dialog == DialogOf(s)
<1>0. ~s.freed /\ HasCall(s) /\ s \in SalType
  BY HeldIsNotFreed DEF Pointed, HasCall, Counted
<1>0a. s.state # "terminating" /\ s.dir \in {"in", "out"}
  BY <1>0 DEF Sound, SalType
<1>1. /\ Counted(u, k) /\ u.app = "live" /\ u.dir = s.dir /\ s.dir # "none" /\ u.linked = s.linked
      /\ u.later = s.later /\ (u.bye => u.dialog = "terminated")
      /\ (DOMAIN s.out # {} => DOMAIN u.out # {})
  <2>1. CASE s.state \in {"terminating", "terminated"} \/ dialog = "terminated"
    BY <2>1 DEF TerminateOp, Sound
  <2>2. CASE s.state \notin {"terminating", "terminated"} /\ dialog = "confirmed"
    <3> DEFINE v == SendRequest(s, "BYE")
    <3>1. Counted(v, k) /\ Kept(s, v) /\ DOMAIN v.out # {}
      BY <1>0, SendCounted DEF Method
    <3>2. u = [v EXCEPT !.state = "terminating"]
      BY <2>2 DEF TerminateOp
    <3> HIDE DEF v, u
    <3> QED BY <3>1, <3>2, StateCounted DEF Kept, Steady, Sound
  <2>3. CASE s.state \notin {"terminating", "terminated"} /\ dialog \notin {"confirmed", "terminated"}
             /\ s.dir = "in"
    <3> DEFINE v == DeclineInvite(s)
    <3>1. Counted(v, k) /\ Steady(s, v) /\ v.out = s.out /\ Sound(v)
      BY DeclineCounted
    <3>2. u = [v EXCEPT !.state = "terminated"]
      BY <2>3 DEF TerminateOp
    <3> HIDE DEF v, u
    <3> QED BY <3>1, <3>2, StateCounted DEF Steady, Sound
  <2>4. CASE s.state \notin {"terminating", "terminated"} /\ dialog \notin {"confirmed", "terminated"}
             /\ s.dir = "out"
    <3>1. \/ u = CancellingInvite(s)
          \/ u = [s EXCEPT !.state = "terminating"]
      BY <1>0, <2>4 DEF TerminateOp, SalType, DialogOf
    <3>2. CASE u = CancellingInvite(s)
      BY <1>0, <3>2, CancellingCounted DEF Sound
    <3>3. CASE u = [s EXCEPT !.state = "terminating"]
      BY <3>3, StateCounted DEF Sound
    <3> QED BY <3>1, <3>2, <3>3
  <2> QED BY <1>0a, <2>1, <2>2, <2>3, <2>4
<1> HIDE DEF u
<1> DEFINE t == [u EXCEPT !.app = "over"]
<1>2. t = CallOver(u)
  BY <1>1 DEF CallOver
<1>3. Counted(t, k) /\ t.out = u.out /\ t.dir = u.dir /\ t.app = "over" /\ t.linked = u.linked
      /\ t.later = u.later /\ t.bye = u.bye /\ t.dialog = u.dialog
  BY <1>1, <1>2, OverCounted DEF HasCall
<1> HIDE DEF t
<1>4. Sound(t)
  BY <1>1, <1>3 DEF Sound, HasCall
<1> QED BY <1>1, <1>2, <1>3, <1>4 DEF u, t, HasCall

-----------------------------------------------------------------------------
(* Responses                                                               *)

\* An operation that is called back still has its call.
Answerable(s) == Sound(s) /\ HasCall(s) /\ DOMAIN s.out # {}

\* What is kept can be answered.
LEMMA KeptAnswerable ==
  ASSUME NEW s, NEW t, Kept(s, t), Answerable(s), DOMAIN t.out # {}
  PROVE  Answerable(t)
BY KeptSound DEF Kept, Steady, Answerable, HasCall

\* call_process_response() without a confirmed dialog
LEMMA EarlyCounted ==
  ASSUME NEW s, NEW k \in Nat, k > 0, Counted(s, k), Answerable(s),
         NEW m \in Method, NEW code \in Code, NEW outcome \in FailureOutcome
  PROVE  Counted(EarlyResponse(s, m, code, outcome), k) /\ Sound(EarlyResponse(s, m, code, outcome))
<1>1. ASSUME NEW t, Counted(t, k), Sound(t), DOMAIN t.out # {}
      PROVE  Counted(CallSetReleased(t), k) /\ Sound(CallSetReleased(t))
  BY <1>1, ReleasedCounted
<1>2. CASE m # "INVITE"
  BY <1>2 DEF EarlyResponse, Answerable
<1>3. CASE m = "INVITE" /\ s.state = "terminating"
  <2>1. Counted(CancellingInvite(s), k) /\ Sound(CancellingInvite(s))
    <3>1. ~s.freed
      BY HeldIsNotFreed
    <3> QED BY <1>3, <3>1, CancellingCounted DEF Answerable, Sound, HasCall
  <2>2. EarlyResponse(s, m, code, outcome) \in {s, CallSetReleased(s), CancellingInvite(s)}
    BY <1>3 DEF EarlyResponse
  <2> QED BY <1>1, <2>1, <2>2 DEF Answerable
<1>4. CASE m = "INVITE" /\ s.state # "terminating"
  <2> DEFINE f == Fails(s, outcome)
  <2>1. Counted(f, k) /\ Sound(f) /\ f.out = s.out
    BY FailsCounted DEF Answerable
  <2>2. EarlyResponse(s, m, code, outcome) \in {s, f, CallSetReleased(f)}
    BY <1>4 DEF EarlyResponse
  <2> HIDE DEF f
  <2> QED BY <1>1, <2>1, <2>2 DEF Answerable
<1> QED BY <1>2, <1>3, <1>4

\* call_accepted(), in which the application may hang up
LEMMA AcceptedCounted ==
  ASSUME NEW s, NEW k \in Nat, Counted(s, k), Answerable(s), NEW hangup \in BOOLEAN
  PROVE  /\ Counted(CallAcceptedBy(s, hangup), k) /\ Answerable(CallAcceptedBy(s, hangup))
<1>1. CASE hangup /\ s.app = "live"
  <2> DEFINE t == CallOver(TerminateOp(s))
  <2>1. /\ t = [TerminateOp(s) EXCEPT !.app = "over"]
        /\ Counted(t, k) /\ Sound(t) /\ HasCall(t) /\ DOMAIN t.out # {}
    BY <1>1, HangUpCounted DEF Answerable
  <2>2. CallAcceptedBy(s, hangup) = t
    BY <1>1, <2>1, Zenon DEF CallAcceptedBy
  <2> HIDE DEF t
  <2> QED BY <2>1, <2>2 DEF Answerable
<1>2. CASE ~(hangup /\ s.app = "live")
  BY <1>2 DEF CallAcceptedBy
<1> QED BY <1>1, <1>2

\* call_process_response() in a confirmed dialog
LEMMA ConfirmedCounted ==
  ASSUME NEW s, NEW k \in Nat, k > 0, Counted(s, k), Answerable(s), s.state # "terminated",
         NEW m \in Method, NEW code \in Code, NEW outcome \in FailureOutcome,
         NEW hangup \in BOOLEAN, NEW built \in BOOLEAN
  PROVE  LET t == ConfirmedResponse(s, m, code, outcome, hangup, built)
         IN  Counted(t, k) /\ Sound(t)
<1> DEFINE t == ConfirmedResponse(s, m, code, outcome, hangup, built)
<1>0. ~s.freed
  BY HeldIsNotFreed
<1>1. CASE s.state = "terminating"
  <2>1. t = SendRequest(s, "BYE")
    BY <1>1 DEF ConfirmedResponse
  <2> QED BY <1>0, <2>1, SendCounted, KeptAnswerable DEF Answerable, Method
<1>2. CASE s.state # "terminating" /\ m = "INVITE" /\ code = "ok" /\ built
  <2> DEFINE a == CallAcceptedBy(s, hangup)
  <2>1. Counted(a, k) /\ Answerable(a)
    BY AcceptedCounted
  <2>2. t = [a EXCEPT !.state = "active"]
    BY <1>2 DEF ConfirmedResponse
  <2> HIDE DEF a, t
  <2>3. Counted(t, k) /\ t.out = a.out /\ t.state = "active" /\ t.dir = a.dir /\ t.app = a.app
        /\ t.linked = a.linked /\ t.later = a.later /\ t.bye = a.bye /\ t.dialog = a.dialog
    BY <2>1, <2>2, StateCounted
  <2>4. Sound(t)
    BY <2>1, <2>3 DEF Sound, Answerable, HasCall
  <2> QED BY <2>3, <2>4 DEF t
<1>3. CASE s.state # "terminating" /\ m = "INVITE" /\ code = "ok" /\ ~built
  <2> DEFINE r == RefOp(s)
  <2>1. Counted(r, k + 1) /\ Kept(s, r) /\ r.out = s.out
    BY <1>0, RefCounted, AlikeKept
  <2>2. t = [r EXCEPT !.lost = r.lost + 1]
    BY <1>3, <2>1 DEF ConfirmedResponse, Counted, SalType
  <2> HIDE DEF r, t
  <2>3. /\ t \in SalType /\ Kept(r, t) /\ t.out = r.out /\ t.lost = r.lost + 1 /\ t.ref = r.ref
        /\ t.freed = r.freed /\ t.dangling = r.dangling /\ t.servers = r.servers
        /\ t.invite = r.invite
    BY <2>1, <2>2 DEF Counted, SalType, Kept, Steady
  <2>4. Holders(t) = Holders(r) + 1
    BY <2>1, <2>3, TransactionsFinite DEF Counted, SalType, Holders, HasCall, Kept, Steady
  <2>5. Counted(t, k)
    BY <2>1, <2>3, <2>4, HoldersNat DEF Counted
  <2> QED BY <2>1, <2>3, <2>5, KeptTrans, KeptAnswerable DEF Answerable, t
<1>4. CASE s.state # "terminating" /\ m = "INVITE" /\ code \in {"error", "challenge"}
  <2>1. t = Fails(s, outcome)
    BY <1>4 DEF ConfirmedResponse
  <2> QED BY <2>1, FailsCounted DEF Answerable
<1>5. CASE s.state # "terminating" /\ (m # "INVITE" \/ code \notin {"ok", "error", "challenge"})
  <2>1. t = s
    BY <1>5 DEF ConfirmedResponse
  <2> QED BY <2>1 DEF Answerable
<1> QED BY <1>1, <1>2, <1>3, <1>4, <1>5

\* call_process_response()
LEMMA ResponseCounted ==
  ASSUME NEW s, Counted(s, 0), Sound(s), s.state # "terminated", DOMAIN s.out # {},
         NEW m \in Method, NEW code \in Code, NEW outcome \in FailureOutcome,
         NEW hangup \in BOOLEAN, NEW built \in BOOLEAN
  PROVE  LET t == ProcessResponse(s, m, code, outcome, hangup, built)
         IN  Counted(t, 0) /\ Sound(t)
<1> DEFINE yes == m # "CANCEL" /\ s.dialog # "none"
           l == LinkDialog(s, yes)
           t == RefOp(l)
<1>1. PICK linked \in BOOLEAN : linked = yes
  OBVIOUS
<1>2. HasCall(s) /\ Pointed(s)
  BY DEF Sound, Stray, Pointed
<1> DEFINE e == [s EXCEPT !.linked = linked]
<1>3. Counted(l, 0) /\ Alike(e, l)
  BY <1>1, <1>2, LinkCounted
<1>4. /\ l.out = s.out /\ l.state = s.state /\ l.app = s.app /\ l.dir = s.dir
      /\ l.later = s.later /\ l.bye = s.bye /\ l.dialog = s.dialog /\ l.linked = linked
  BY <1>3 DEF Alike, Counted, SalType
<1> HIDE DEF l
<1>5. Answerable(l) /\ ~l.freed
  <2>1. Sound(l) /\ HasCall(l)
    BY <1>2, <1>4 DEF Sound, HasCall
  <2> QED BY <1>3, <1>4, <2>1, HeldIsNotFreed DEF Answerable, Pointed
<1>6. Counted(t, 1) /\ Kept(l, t) /\ t.out = l.out
  <2>1. Counted(t, 0 + 1) /\ Alike(l, t)
    BY <1>3, <1>5, RefCounted
  <2> QED BY <2>1, AlikeKept
<1> HIDE DEF t
<1>7. Answerable(t) /\ t.state # "terminated" /\ (t.linked => t.dialog # "none")
  BY <1>1, <1>4, <1>5, <1>6, KeptAnswerable DEF Kept, Steady, Answerable
<1> DEFINE u == CASE ~t.linked \/ t.dialog \in {"null", "early"} -> EarlyResponse(t, m, code, outcome)
                  [] t.linked /\ t.dialog = "confirmed" ->
                       ConfirmedResponse(t, m, code, outcome, hangup, built)
                  [] t.linked /\ t.dialog = "terminated" ->
                       IF code \in {"ok"} \cup Provisional THEN t ELSE Fails(t, outcome)
<1> HIDE DEF u
<1>8. Counted(u, 1) /\ Sound(u)
  <2>1. CASE ~t.linked \/ t.dialog \in {"null", "early"}
    <3>1. u = EarlyResponse(t, m, code, outcome)
      BY <2>1 DEF u
    <3> QED BY <1>6, <1>7, <3>1, EarlyCounted
  <2>2. CASE t.linked /\ t.dialog = "confirmed"
    <3>1. u = ConfirmedResponse(t, m, code, outcome, hangup, built)
      BY <2>2 DEF u
    <3> QED BY <1>6, <1>7, <3>1, ConfirmedCounted
  <2>3. CASE t.linked /\ t.dialog = "terminated"
    <3>1. u \in {t, Fails(t, outcome)}
      BY <2>3 DEF u
    <3> QED BY <1>6, <1>7, <3>1, FailsCounted DEF Answerable
  <2> QED BY <1>6, <1>7, <2>1, <2>2, <2>3 DEF Counted, SalType
<1>9. ProcessResponse(s, m, code, outcome, hangup, built) = UnrefOp(u)
  BY DEF ProcessResponse, u, t, l
<1>10. Counted(UnrefOp(u), 0) /\ Alike(u, UnrefOp(u))
  <2>1. Counted(u, 0 + 1)
    BY <1>8
  <2> QED BY <2>1, UnrefCounted
<1> QED BY <1>8, <1>9, <1>10, AlikeSound

-----------------------------------------------------------------------------
(* The inductive invariant                                                 *)

\* Before the call.
Untouched(s) ==
  /\ s.dir = "none" /\ s.state = "early" /\ s.dialog = "none" /\ s.app = "none"
  /\ s.asked = "none" /\ s.lost = 0 /\ ~s.event /\ ~s.later /\ ~s.freed /\ ~Pointed(s)

IInv == Counted(sal, 0) /\ (Untouched(sal) \/ Sound(sal))

\* What the steps lead to.
Upheld == Counted(sal, 0)' /\ Sound(sal)'

\* A transaction is proceeding.
LEMMA ProgressSound ==
  ASSUME NEW s, Counted(s, 0), Sound(s), NEW m \in Method, NEW from, HasState(s, m, from),
         NEW to \in TransactionState, NEW dialog \in DialogState
  PROVE  LET e == Entering(Leaving(s, m, from), m, to)
         IN  /\ Counted(e, 0) /\ Sound(e) /\ DOMAIN e.out # {} /\ Kept(s, e)
             /\ Counted(DialogBecomes(e, dialog), 0) /\ Sound(DialogBecomes(e, dialog))
             /\ DOMAIN DialogBecomes(e, dialog).out # {}
<1> DEFINE l == Leaving(s, m, from)
           e == Entering(l, m, to)
           d == DialogBecomes(e, dialog)
<1>1. Counted(l, 0 + 1) /\ Kept(s, l)
  BY LeavingCounted
<1> HIDE DEF l
<1>2. Counted(e, 0) /\ Kept(l, e) /\ DOMAIN e.out # {}
  BY <1>1, EnteringCounted
<1> HIDE DEF e
<1>3. Kept(s, e)
  BY <1>1, <1>2, KeptTrans
<1>4. HasCall(s) \/ s.state = "terminated"
  BY DEF Sound, Stray, HasState, BagIn, BagToSet
<1>5. Sound(e)
  BY <1>2, <1>3, <1>4, KeptSound
<1>6. Counted(d, 0) /\ Sound(d) /\ d.out = e.out
  BY <1>2, <1>5, DialogCounted
<1> QED BY <1>2, <1>3, <1>5, <1>6 DEF d, e, l

\* A password is asked for.
LEMMA AskedCounted ==
  ASSUME NEW s, Counted(s, 0), Sound(s), HasCall(s), NEW m \in Method
  PROVE  Counted([s EXCEPT !.asked = m], 0) /\ Sound([s EXCEPT !.asked = m])
<1> DEFINE t == [s EXCEPT !.asked = m]
<1>1. /\ t \in SalType /\ t.ref = s.ref /\ t.freed = s.freed /\ t.dangling = s.dangling
      /\ t.servers = s.servers /\ t.lost = s.lost /\ t.invite = s.invite
      /\ t.out = s.out /\ t.state = s.state /\ t.dir = s.dir /\ t.app = s.app
      /\ t.linked = s.linked /\ t.later = s.later /\ t.bye = s.bye /\ t.dialog = s.dialog
  BY DEF Counted, SalType
<1> HIDE DEF t
<1>2. Counted(t, 0)
  BY <1>1 DEF Counted, Holders, HasCall
<1>3. Sound(t)
  BY <1>1 DEF Sound, HasCall
<1> QED BY <1>2, <1>3 DEF t

\* 401 or 407: the request is sent again or a password is asked for.
LEMMA ChallengedCounted ==
  ASSUME NEW s, Counted(s, 0), Sound(s), s.state # "terminated", DOMAIN s.out # {},
         NEW m \in Method, NEW outcome \in FailureOutcome, NEW hangup \in BOOLEAN,
         NEW t \in Challenged(s, m, outcome, hangup)
  PROVE  Counted(t, 0) /\ Sound(t)
<1>1. HasCall(s) /\ ~s.freed
  BY HeldIsNotFreed DEF Sound, Stray, Pointed
<1> DEFINE p == ProcessResponse(s, m, "challenge", outcome, hangup, TRUE)
<1>2. Counted(p, 0) /\ Sound(p)
  BY ResponseCounted DEF Code
<1> HIDE DEF p
<1>3. t = p \/ t = SendRequest(s, m) \/ t = [s EXCEPT !.asked = m]
  BY DEF Challenged, p
<1>4. CASE t = SendRequest(s, m)
  BY <1>1, <1>4, SendCounted, KeptSound
<1>5. CASE t = [s EXCEPT !.asked = m]
  BY <1>1, <1>5, AskedCounted
<1> QED BY <1>2, <1>3, <1>4, <1>5

\* Every response, to whichever request.
LEMMA ResponseStep ==
  ASSUME IInv, NEW m \in Method, NEW code \in Code, Response(m, code)
  PROVE  Upheld
<1> DEFINE to == CASE code \in Provisional             -> "proceeding"
                   [] code = "challenge" /\ m = "BYE"   -> "challenged"
                   [] OTHER                            -> "ended"
<1>1. to \in TransactionState
  BY DEF TransactionState
<1> HIDE DEF to
<1>2. PICK from \in {"calling", "proceeding"} :
        /\ HasState(sal, m, from)
        /\ LET s == DialogBecomes(Entering(Leaving(sal, m, from), m, to),
                                  DialogAfter(sal, m, code))
           IN  IF s.state = "terminated" THEN sal' = s
               ELSE \E outcome \in Outcomes(s), hangup \in BOOLEAN :
                      IF code = "challenge"
                      THEN sal' \in Challenged(s, m, outcome, hangup)
                      ELSE \E built \in IF "noack" \in s.faults THEN BOOLEAN ELSE {TRUE} :
                             sal' = ProcessResponse(s, m, code, outcome, hangup, built)
  BY DEF Response, to
<1>3. Counted(sal, 0) /\ Sound(sal)
  BY <1>2 DEF IInv, Untouched, Pointed, HasState, BagIn, BagToSet
<1>4. DialogAfter(sal, m, code) \in DialogState
  BY <1>3 DEF DialogAfter, DialogState, Counted, SalType
<1> DEFINE s == DialogBecomes(Entering(Leaving(sal, m, from), m, to), DialogAfter(sal, m, code))
<1>5. Counted(s, 0) /\ Sound(s) /\ DOMAIN s.out # {}
  BY <1>1, <1>2, <1>3, <1>4, ProgressSound
<1>6. IF s.state = "terminated" THEN sal' = s
      ELSE \E outcome \in Outcomes(s), hangup \in BOOLEAN :
             IF code = "challenge"
             THEN sal' \in Challenged(s, m, outcome, hangup)
             ELSE \E built \in BOOLEAN :
                    sal' = ProcessResponse(s, m, code, outcome, hangup, built)
  BY <1>2
<1> HIDE DEF s
<1>7. CASE s.state = "terminated"
  BY <1>5, <1>6, <1>7 DEF Upheld
<1>8. CASE s.state # "terminated"
  <2>1. PICK outcome \in Outcomes(s), hangup \in BOOLEAN :
             IF code = "challenge"
             THEN sal' \in Challenged(s, m, outcome, hangup)
             ELSE \E built \in BOOLEAN :
                    sal' = ProcessResponse(s, m, code, outcome, hangup, built)
    BY <1>6, <1>8
  <2>2. outcome \in FailureOutcome
    BY DEF Outcomes, FailureOutcome
  <2>3. CASE code = "challenge"
    BY <1>5, <1>8, <2>1, <2>2, <2>3, ChallengedCounted DEF Upheld
  <2>4. CASE code # "challenge"
    <3>1. PICK built \in BOOLEAN : sal' = ProcessResponse(s, m, code, outcome, hangup, built)
      BY <2>1, <2>4
    <3> QED BY <1>5, <1>8, <2>2, <3>1, ResponseCounted DEF Upheld
  <2> QED BY <2>3, <2>4
<1> QED BY <1>7, <1>8

\* process_timeout(): the request was never answered.
LEMMA GivesUpStep ==
  ASSUME IInv, NEW m \in Method, GivesUp(m)
  PROVE  Upheld
<1> DEFINE s == Entering(Leaving(sal, m, "calling"), m, "ended")
           ended == IF s.dialog = "none" THEN s ELSE DialogBecomes(s, "terminated")
           f == Fails(ended, "over")
<1>1. HasState(sal, m, "calling")
  BY DEF GivesUp
<1>2. Counted(sal, 0) /\ Sound(sal)
  BY <1>1 DEF IInv, Untouched, Pointed, HasState, BagIn, BagToSet
<1>3. /\ Counted(s, 0) /\ Sound(s) /\ DOMAIN s.out # {}
      /\ Counted(DialogBecomes(s, "terminated"), 0) /\ Sound(DialogBecomes(s, "terminated"))
      /\ DOMAIN DialogBecomes(s, "terminated").out # {}
      /\ Steady(s, DialogBecomes(s, "terminated"))
  <2>1. "ended" \in TransactionState /\ "terminated" \in DialogState
    BY DEF TransactionState, DialogState
  <2> QED BY <1>1, <1>2, <2>1, ProgressSound, DialogCounted
<1>4. sal' = IF s.state = "terminated" \/ s.linked THEN ended ELSE CallSetReleased(f)
  BY DEF GivesUp
<1> HIDE DEF s
<1>5. /\ Counted(ended, 0) /\ Sound(ended) /\ DOMAIN ended.out # {} /\ ended.state = s.state
  BY <1>3 DEF Steady
<1> HIDE DEF ended
<1>6. CASE s.state = "terminated" \/ s.linked
  BY <1>4, <1>5, <1>6 DEF Upheld
<1>7. CASE ~(s.state = "terminated" \/ s.linked)
  <2>1. HasCall(ended)
    BY <1>5, <1>7 DEF Sound, Stray
  <2>2. Counted(f, 0) /\ Sound(f) /\ DOMAIN f.out # {}
    BY <1>5, <2>1, FailsCounted DEF FailureOutcome
  <2> HIDE DEF f
  <2>3. sal' = CallSetReleased(f)
    BY <1>4, <1>7
  <2> QED BY <2>2, <2>3, ReleasedCounted DEF Upheld
<1> QED BY <1>6, <1>7

\* call_process_transaction_terminated(): the transaction still has its reference.
LEMMA AfterCounted ==
  ASSUME NEW s, Counted(s, 1), Sound(s), s.later => s.linked, NEW ofBye \in BOOLEAN
  PROVE  Counted(AfterTransaction(s, ofBye), 0) /\ Sound(AfterTransaction(s, ofBye))
<1> DEFINE u == IF s.state = "terminating" /\ ofBye /\ ~s.linked THEN CallSetReleased(s) ELSE s
<1>1. Counted(u, 0 + 1) /\ Sound(u)
  BY ReleasedCounted
<1>2. AfterTransaction(s, ofBye) = UnrefOp(u)
  BY DEF AfterTransaction
<1> HIDE DEF u
<1> QED BY <1>1, <1>2, UnrefCounted, AlikeSound

\* process_transaction_terminated() of a client transaction gives its reference back.
LEMMA TransactionEndsStep ==
  ASSUME IInv, NEW m \in Method, NEW st, TransactionEnds(m, st)
  PROVE  Upheld
<1> DEFINE s == Leaving(sal, m, st)
<1>1. /\ HasState(sal, m, st) /\ (sal.later => sal.linked)
      /\ \E ofBye \in BOOLEAN : sal' = AfterTransaction(s, ofBye)
  BY DEF TransactionEnds
<1>2. Counted(sal, 0) /\ Sound(sal)
  BY <1>1 DEF IInv, Untouched, Pointed, HasState, BagIn, BagToSet
<1>3. HasCall(sal) \/ sal.state = "terminated"
  BY <1>1, <1>2 DEF Sound, Stray, HasState, BagIn, BagToSet
<1>4. Counted(s, 0 + 1) /\ Kept(sal, s)
  BY <1>1, <1>2, LeavingCounted
<1> HIDE DEF s
<1>5. Sound(s) /\ (s.later => s.linked)
  BY <1>1, <1>2, <1>3, <1>4 DEF Sound, Kept, Steady, HasCall
<1> QED BY <1>1, <1>4, <1>5, AfterCounted DEF Upheld

\* The reference of a server transaction passes to the handler of its end.
LEMMA ServerGone ==
  ASSUME NEW s, Counted(s, 0), Sound(s), NEW t,
         \/ s.invite # "none" /\ t = [s EXCEPT !.invite = "none"]
         \/ s.servers > 0 /\ t = [s EXCEPT !.servers = s.servers - 1]
         \/ s.bye /\ t = [s EXCEPT !.bye = FALSE]
  PROVE  Counted(t, 1) /\ Sound(t) /\ t.linked = s.linked /\ t.later = s.later
<1>1. /\ t \in SalType /\ t.ref = s.ref /\ t.freed = s.freed /\ t.dangling = s.dangling
      /\ t.lost = s.lost /\ t.out = s.out /\ t.app = s.app /\ t.linked = s.linked
      /\ t.state = s.state /\ t.dir = s.dir /\ t.dialog = s.dialog /\ t.last = s.last
      /\ t.later = s.later /\ t.asked = s.asked /\ (t.bye => s.bye)
      /\ \/ t.invite = "none" /\ s.invite # "none" /\ t.servers = s.servers /\ t.bye = s.bye
         \/ t.invite = s.invite /\ t.servers = s.servers - 1 /\ t.bye = s.bye
         \/ t.invite = s.invite /\ t.servers = s.servers /\ s.bye /\ ~t.bye
  <2>1. CASE s.invite # "none" /\ t = [s EXCEPT !.invite = "none"]
    BY <2>1 DEF Counted, SalType
  <2>2. CASE s.servers > 0 /\ t = [s EXCEPT !.servers = s.servers - 1]
    BY <2>2 DEF Counted, SalType
  <2>3. CASE s.bye /\ t = [s EXCEPT !.bye = FALSE]
    BY <2>3 DEF Counted, SalType
  <2> QED BY <2>1, <2>2, <2>3
<1>2. Holders(t) = Holders(s) - 1
  <2>1. Cardinality(Transactions(s.out)) \in Int /\ s.servers \in Int /\ s.lost \in Int
    BY TransactionsFinite DEF Counted, SalType
  <2> QED BY <1>1, <2>1 DEF Holders, HasCall
<1>3. Counted(t, 1)
  BY <1>1, <1>2, HoldersNat DEF Counted
<1>4. Sound(t)
  BY <1>1 DEF Sound, Stray, HasCall
<1> QED BY <1>1, <1>3, <1>4

\* process_transaction_terminated() of a server transaction.
LEMMA ServerTransactionEndsStep ==
  ASSUME IInv, ServerTransactionEnds
  PROVE  Upheld
<1>1. Counted(sal, 0) /\ Sound(sal) /\ (sal.later => sal.linked)
  BY DEF ServerTransactionEnds, IInv, Untouched, Pointed
<1>2. CASE sal.invite = "answered" /\ sal' = AfterTransaction([sal EXCEPT !.invite = "none"], FALSE)
  BY <1>1, <1>2, ServerGone, AfterCounted DEF Upheld
<1>3. CASE sal.servers > 0 /\ sal' = AfterTransaction([sal EXCEPT !.servers = @ - 1], FALSE)
  <2> DEFINE t == [sal EXCEPT !.servers = sal.servers - 1]
  <2>1. Counted(t, 1) /\ Sound(t) /\ (t.later => t.linked)
    BY <1>1, <1>3, ServerGone
  <2>2. sal' = AfterTransaction(t, FALSE)
    BY <1>3
  <2> HIDE DEF t
  <2> QED BY <2>1, <2>2, AfterCounted DEF Upheld
<1>4. CASE sal.bye /\ sal' = AfterTransaction([sal EXCEPT !.bye = FALSE], TRUE)
  BY <1>1, <1>4, ServerGone, AfterCounted DEF Upheld
<1> QED BY <1>1, <1>2, <1>3, <1>4 DEF ServerTransactionEnds

\* process_dialog_terminated(): the reference of the dialog, and call_released().
LEMMA DialogEndsStep ==
  ASSUME IInv, DialogEnds
  PROVE  Upheld
<1> DEFINE s == [sal EXCEPT !.event = FALSE]
           byBye == s.last = "confirmed" /\ s.state \notin {"terminating", "terminated"}
           c == IF byBye THEN [CallOver(s) EXCEPT !.state = "terminating"] ELSE s
<1>1. Counted(sal, 0) /\ Sound(sal)
  BY DEF DialogEnds, IInv, Untouched
<1>2. sal' = IF ~s.linked THEN s ELSE [c EXCEPT !.later = TRUE]
  BY DEF DialogEnds
<1>3. Counted(s, 0) /\ Sound(s)
  <2>1. /\ s \in SalType /\ s.ref = sal.ref /\ s.freed = sal.freed /\ s.dangling = sal.dangling
        /\ s.servers = sal.servers /\ s.lost = sal.lost /\ s.invite = sal.invite
        /\ s.out = sal.out /\ Kept(sal, s)
    BY <1>1 DEF Counted, SalType, Kept, Steady
  <2> QED BY <1>1, <2>1 DEF Counted, Holders, HasCall, Sound, Stray, Kept, Steady
<1> HIDE DEF s
<1>4. Counted(c, 0) /\ Sound(c) /\ c.linked = s.linked
  <2>1. CASE byBye
    <3>1. HasCall(s)
      BY <1>3, <2>1 DEF Sound, Stray
    <3> DEFINE o == CallOver(s)
    <3>2. Counted(o, 0) /\ Sound(o) /\ o.app = "over" /\ o.linked = s.linked
      BY <1>3, <3>1, OverCounted
    <3> HIDE DEF o
    <3>3. c = [o EXCEPT !.state = "terminating"]
      BY <2>1 DEF o
    <3> HIDE DEF c
    <3>4. /\ Counted(c, 0) /\ c.out = o.out /\ c.dir = o.dir /\ c.app = o.app
          /\ c.linked = o.linked /\ c.later = o.later /\ c.bye = o.bye /\ c.dialog = o.dialog
          /\ c.state = "terminating"
      BY <3>2, <3>3, StateCounted
    <3> QED BY <3>2, <3>4 DEF Sound, HasCall
  <2>2. CASE ~byBye
    BY <1>3, <2>2
  <2> QED BY <2>1, <2>2
<1> HIDE DEF c
<1>5. CASE ~s.linked
  BY <1>2, <1>3, <1>5 DEF Upheld
<1>6. CASE s.linked
  <2> DEFINE t == [c EXCEPT !.later = TRUE]
  <2>1. /\ t \in SalType /\ t.ref = c.ref /\ t.freed = c.freed /\ t.dangling = c.dangling
        /\ t.servers = c.servers /\ t.lost = c.lost /\ t.invite = c.invite /\ t.last = c.last
        /\ t.out = c.out /\ t.state = c.state /\ t.dir = c.dir /\ t.app = c.app
        /\ t.linked = c.linked /\ t.bye = c.bye /\ t.dialog = c.dialog /\ t.asked = c.asked
    BY <1>4 DEF Counted, SalType
  <2> HIDE DEF t
  <2>2. Counted(t, 0)
    BY <1>4, <2>1 DEF Counted, Holders, HasCall
  <2>3. Sound(t)
    BY <1>4, <1>6, <2>1 DEF Sound, Stray, HasCall
  <2> QED BY <1>2, <1>6, <2>2, <2>3 DEF Upheld, t
<1> QED BY <1>5, <1>6

\* The release left to the main loop.
LEMMA LaterReleasedStep ==
  ASSUME IInv, LaterReleased
  PROVE  Upheld
<1> DEFINE s == [sal EXCEPT !.later = FALSE]
<1>1. Counted(sal, 0) /\ Sound(sal) /\ (sal.linked \/ DOMAIN sal.out # {})
  BY DEF LaterReleased, IInv, Untouched, Sound
<1>2. sal' = CallSetReleased(s)
  BY DEF LaterReleased
<1>3. /\ s \in SalType /\ s.ref = sal.ref /\ s.freed = sal.freed /\ s.dangling = sal.dangling
      /\ s.servers = sal.servers /\ s.lost = sal.lost /\ s.invite = sal.invite /\ s.last = sal.last
      /\ s.out = sal.out /\ s.state = sal.state /\ s.dir = sal.dir /\ s.app = sal.app
      /\ s.linked = sal.linked /\ s.bye = sal.bye /\ s.dialog = sal.dialog /\ s.asked = sal.asked
      /\ ~s.later
  BY <1>1 DEF Counted, SalType
<1> HIDE DEF s
<1>4. Counted(s, 0) /\ Sound(s)
  BY <1>1, <1>3 DEF Counted, Holders, Sound, Stray, HasCall
<1> QED BY <1>1, <1>2, <1>3, <1>4, ReleasedCounted DEF Upheld

\* The requests of the far end.
LEMMA ReachedHas ==
  ASSUME IInv, Reached
  PROVE  Counted(sal, 0) /\ Sound(sal) /\ ~sal.freed /\ (sal.dialog # "terminated" => HasCall(sal))
BY HeldIsNotFreed DEF IInv, Reached, Untouched, Pointed, Sound, Stray

\* A server transaction takes a reference for itself, or passes the one of the INVITE on.
LEMMA InviteCounted ==
  ASSUME NEW s, NEW k \in Nat, Counted(s, k), ~s.freed, s.invite # "open"
  PROVE  LET t == InviteArrives(s)
         IN  Counted(t, k) /\ Kept(s, t) /\ t.out = s.out /\ t.invite = "open"
<1> DEFINE r == RefOp(s)
           n == r.servers + IF s.invite = "answered" THEN 1 ELSE 0
           t == [r EXCEPT !.invite = "open", !.servers = n]
<1>1. Counted(r, k + 1) /\ Alike(s, r) /\ Kept(s, r)
  BY RefCounted, AlikeKept
<1>2. InviteArrives(s) = t
  BY <1>1 DEF InviteArrives, Counted, SalType
<1> HIDE DEF r
<1>3. n \in Nat
  BY <1>1 DEF Counted, SalType
<1>4. r.invite = s.invite
  BY <1>1 DEF Alike
<1> HIDE DEF n
<1>5. /\ t \in SalType /\ Kept(r, t) /\ t.out = r.out /\ t.lost = r.lost /\ t.ref = r.ref
      /\ t.freed = r.freed /\ t.dangling = r.dangling /\ t.servers = n /\ t.invite = "open"
  <2>1. t \in SalType
    <3> DEFINE x == [r EXCEPT !.invite = "open"]
    <3>1. x \in SalType
      BY <1>1 DEF Counted, SalType
    <3>2. t = [x EXCEPT !.servers = n]
      BY <1>1 DEF Counted, SalType
    <3> HIDE DEF x, t
    <3> QED BY <1>3, <3>1, <3>2 DEF SalType
  <2>2. Kept(r, t)
    BY <1>1 DEF Counted, SalType, Kept, Steady
  <2> QED BY <1>1, <1>3, <2>1, <2>2 DEF Counted, SalType
<1>6. Holders(t) = Holders(r) + 1
  <2>1. Cardinality(Transactions(r.out)) \in Int /\ r.servers \in Int /\ r.lost \in Int
        /\ r.invite \in {"none", "answered"} /\ n = r.servers + IF r.invite = "answered" THEN 1 ELSE 0
    BY <1>1, <1>4, TransactionsFinite DEF Counted, SalType, n
  <2> QED BY <1>1, <1>5, <2>1 DEF Holders, HasCall, Kept, Steady
<1>7. Counted(t, k)
  BY <1>1, <1>5, <1>6, HoldersNat DEF Counted
<1> HIDE DEF t
<1> QED BY <1>1, <1>2, <1>5, <1>7, KeptTrans DEF Alike, t

\* The INVITE is answered.
LEMMA AnsweredCounted ==
  ASSUME NEW s, NEW k \in Nat, Counted(s, k), s.invite = "open"
  PROVE  LET t == [s EXCEPT !.invite = "answered"]
         IN  Counted(t, k) /\ Kept(s, t) /\ t.out = s.out
<1> DEFINE t == [s EXCEPT !.invite = "answered"]
<1>1. /\ t \in SalType /\ t.ref = s.ref /\ t.freed = s.freed /\ t.dangling = s.dangling
      /\ t.servers = s.servers /\ t.lost = s.lost /\ t.out = s.out /\ t.invite = "answered"
      /\ Kept(s, t)
  BY DEF Counted, SalType, Kept, Steady
<1> HIDE DEF t
<1>2. Counted(t, k)
  BY <1>1 DEF Counted, Holders, HasCall, Kept, Steady
<1> QED BY <1>1, <1>2 DEF t

\* Kept, with the transactions.
LEMMA KeptAll ==
  ASSUME NEW s, NEW t, Kept(s, t), t.out = s.out, Sound(s)
  PROVE  Sound(t)
BY DEF Kept, Steady, Sound, Stray, HasCall

\* A re-INVITE.
LEMMA ReinviteStep ==
  ASSUME IInv, ReinviteReceived
  PROVE  Upheld
<1> DEFINE s == InviteArrives(sal)
<1>1. Counted(sal, 0) /\ Sound(sal) /\ ~sal.freed /\ sal.invite # "open"
  BY ReachedHas DEF ReinviteReceived
<1>2. Counted(s, 0) /\ Sound(s) /\ s.invite = "open"
  BY <1>1, InviteCounted, KeptAll
<1>3. sal' \in {s, DeclineInvite(s), [s EXCEPT !.invite = "answered"]}
  BY DEF ReinviteReceived
<1> HIDE DEF s
<1>4. Counted(DeclineInvite(s), 0) /\ Sound(DeclineInvite(s))
  BY <1>2, DeclineCounted
<1>5. Counted([s EXCEPT !.invite = "answered"], 0) /\ Sound([s EXCEPT !.invite = "answered"])
  BY <1>2, AnsweredCounted, KeptAll
<1> QED BY <1>2, <1>3, <1>4, <1>5 DEF Upheld

\* CANCEL before the answer.
LEMMA CancelStep ==
  ASSUME IInv, CancelReceived
  PROVE  Upheld
<1> DEFINE r == RefOp(sal)
           s == ServedAtOnce(sal)
           o == CallOver(s)
<1>1. Counted(sal, 0) /\ Sound(sal) /\ ~sal.freed
  BY ReachedHas DEF CancelReceived
<1>2. Counted(r, 0 + 1) /\ Kept(sal, r) /\ r.out = sal.out
  BY <1>1, RefCounted, AlikeKept
<1>3. s = [r EXCEPT !.servers = r.servers + 1]
  BY <1>2 DEF ServedAtOnce, Counted, SalType
<1> HIDE DEF r, s
<1>4. /\ s \in SalType /\ Kept(r, s) /\ s.out = r.out /\ s.lost = r.lost /\ s.ref = r.ref
      /\ s.freed = r.freed /\ s.dangling = r.dangling /\ s.servers = r.servers + 1
      /\ s.invite = r.invite
  BY <1>2, <1>3 DEF Counted, SalType, Kept, Steady
<1>5. Holders(s) = Holders(r) + 1
  BY <1>2, <1>4, TransactionsFinite DEF Counted, SalType, Holders, HasCall, Kept, Steady
<1>6. Counted(s, 0)
  BY <1>2, <1>4, <1>5, HoldersNat DEF Counted
<1>7. Sound(s)
  BY <1>1, <1>2, <1>4, KeptAll
<1>8. Counted(o, 0) /\ Sound(o)
  BY <1>6, <1>7, OverCounted
<1>9. sal' = DeclineInvite(o)
  BY DEF CancelReceived, s
<1> HIDE DEF o
<1> QED BY <1>8, <1>9, DeclineCounted DEF Upheld

\* BYE: the dialog is over, the transaction stays.
LEMMA ByeStep ==
  ASSUME IInv, ByeReceived
  PROVE  Upheld
<1> DEFINE r == RefOp(sal)
           o == CallOver(r)
           t == [o EXCEPT !.state = "terminating", !.bye = TRUE]
<1>1. Counted(sal, 0) /\ Sound(sal) /\ ~sal.freed /\ HasCall(sal) /\ sal.dialog = "confirmed"
  BY ReachedHas DEF ByeReceived
<1>2. Counted(r, 0 + 1) /\ Kept(sal, r) /\ r.out = sal.out
  BY <1>1, RefCounted, AlikeKept
<1>3. sal' = DialogBecomes(t, "terminated")
  BY DEF ByeReceived
<1> HIDE DEF r
<1>4. /\ Counted(o, 1) /\ o.out = sal.out /\ o.dir = sal.dir /\ o.app = "over"
      /\ o.linked = sal.linked /\ o.later = sal.later /\ o.bye = sal.bye /\ o.dialog = "confirmed"
  BY <1>1, <1>2, OverCounted DEF Kept, Steady, HasCall
<1> HIDE DEF o
<1>5. /\ t \in SalType /\ t.ref = o.ref /\ t.freed = o.freed /\ t.dangling = o.dangling
      /\ t.servers = o.servers /\ t.lost = o.lost /\ t.invite = o.invite
      /\ t.out = o.out /\ t.state = "terminating" /\ t.bye /\ t.dir = o.dir /\ t.app = o.app
      /\ t.linked = o.linked /\ t.later = o.later /\ t.dialog = o.dialog
  BY <1>4 DEF Counted, SalType
<1> HIDE DEF t
<1>6. ~o.bye
  BY <1>1, <1>4 DEF Sound
<1>7. Holders(t) = Holders(o) + 1
  BY <1>4, <1>5, <1>6, TransactionsFinite DEF Counted, SalType, Holders, HasCall
<1>8. Counted(t, 0)
  BY <1>4, <1>5, <1>7, HoldersNat DEF Counted
<1> DEFINE d == DialogBecomes(t, "terminated")
<1>9. Counted(d, 0) /\ Steady(t, d) /\ d.out = t.out
  BY <1>8, DialogCounted DEF DialogState
<1>10. d.dialog = "terminated"
  BY <1>4, <1>5 DEF DialogBecomes, SalType
<1>11. Sound(d)
  BY <1>1, <1>4, <1>5, <1>9, <1>10 DEF Sound, Steady, HasCall
<1> QED BY <1>3, <1>9, <1>11 DEF Upheld

\* The first INVITE, out of nothing: the call, or nobody, takes the reference of sal_op_new().
LEMMA InviteReceivedStep ==
  ASSUME IInv, InviteReceived
  PROVE  Upheld
<1> DEFINE r == RefOp(sal)
           e == [r EXCEPT !.dir = "in"]
           i == InviteArrives(e)
           d == DialogBecomes(i, "null")
           s == LinkDialog(d, TRUE)
           c == DeclineInvite(s)
<1>1. Counted(sal, 0) /\ Untouched(sal)
  BY DEF InviteReceived, IInv, Sound
<1>2. Counted(r, 0 + 1) /\ Alike(sal, r)
  BY <1>1, RefCounted DEF Untouched
<1>3. sal' \in { [s EXCEPT !.app = "live"], ReleaseOp(c), [c EXCEPT !.lost = 1, !.app = "gone"],
                 ReleaseOp(s) }
  BY DEF InviteReceived
<1> HIDE DEF r
<1>4. /\ e \in SalType /\ e.ref = r.ref /\ e.freed = r.freed /\ e.dangling = r.dangling
      /\ e.dir = "in" /\ e.state = "early" /\ e.app = "none" /\ e.dialog = "none"
      /\ e.linked = r.linked /\ e.asked = "none" /\ ~e.later /\ e.lost = 0 /\ e.bye = r.bye
      /\ e.invite = r.invite /\ e.servers = r.servers /\ e.out = r.out /\ e.last = r.last
  BY <1>1, <1>2 DEF Counted, SalType, Alike, Untouched
<1>4a. e.invite = "none" /\ ~e.bye /\ DOMAIN e.out = {} /\ ~e.linked
  BY <1>1, <1>2, <1>4 DEF Alike, Untouched, Pointed
<1>5. Counted(e, 1) /\ ~e.freed
  <2>1. Counted(e, 1)
    BY <1>1, <1>2, <1>4 DEF Counted, Holders, HasCall, Alike, Untouched
  <2> HIDE DEF e
  <2>2. 1 \in Nat /\ 1 > 0
    OBVIOUS
  <2> QED BY <2>1, <2>2, HeldIsNotFreed
<1> HIDE DEF e
<1>6. Counted(i, 1) /\ Kept(e, i) /\ i.out = e.out /\ i.invite = "open" /\ i.lost = 0
  <2>1. i.lost = e.lost
    BY <1>5 DEF InviteArrives, RefOp, Counted, SalType
  <2> QED BY <1>4, <1>4a, <1>5, <2>1, InviteCounted
<1> HIDE DEF i
<1>7. /\ Counted(d, 1) /\ Steady(i, d) /\ d.out = i.out /\ d.dialog = "null" /\ d.last = "none"
      /\ d.invite = "open" /\ d.lost = 0
  <2>1. 1 \in Nat /\ "null" \in DialogState
    BY DEF DialogState
  <2>2. Counted(d, 1) /\ Steady(i, d) /\ d.out = i.out
    BY <1>6, <2>1, DialogCounted
  <2>3. i \in SalType /\ i.dialog = "none"
    BY <1>4, <1>6 DEF Counted, Kept
  <2>4. d = [i EXCEPT !.dialog = "null", !.last = "none", !.event = ("null" = "terminated")]
    BY <2>3 DEF DialogBecomes
  <2>5. d.dialog = "null" /\ d.last = "none" /\ d.invite = i.invite /\ d.lost = i.lost
    BY <2>3, <2>4 DEF SalType
  <2> QED BY <1>6, <2>2, <2>5
<1> HIDE DEF d
<1>8. Counted(s, 1) /\ Alike([d EXCEPT !.linked = TRUE], s)
  <2>1. 1 \in Nat /\ 1 > 0 /\ TRUE \in BOOLEAN
    OBVIOUS
  <2> QED BY <1>7, <2>1, LinkCounted
<1> HIDE DEF s
<1>9. /\ s.dir = "in" /\ s.state = "early" /\ s.app = "none" /\ s.dialog = "null" /\ s.linked
      /\ s.asked = "none" /\ ~s.later /\ ~s.bye /\ s.lost = 0 /\ DOMAIN s.out = {}
      /\ s.last = "none" /\ s.invite = "open"
  BY <1>4, <1>4a, <1>6, <1>7, <1>8 DEF Alike, Counted, SalType, Kept, Steady
<1>10. /\ Counted(c, 1) /\ c.dir = "in" /\ c.state = "early" /\ c.app = "none" /\ c.linked
       /\ c.asked = "none" /\ ~c.later /\ ~c.bye /\ DOMAIN c.out = {} /\ c.lost = 0
       /\ c.dialog = "terminated" /\ c.last = "null"
  <2>1. Counted(c, 1) /\ Steady(s, c) /\ c.out = s.out
    BY <1>8, DeclineCounted
  <2>2. c.lost = 0 /\ c.dialog = "terminated" /\ c.last = "null"
    BY <1>8, <1>9 DEF DeclineInvite, DialogBecomes, Counted, SalType
  <2> QED BY <1>9, <2>1, <2>2 DEF Steady
<1>11. ASSUME NEW x, Counted(x, 1), x.app = "none", x.state = "early", x.dir = "in",
              ~x.later, ~x.bye
       PROVE  Counted(ReleaseOp(x), 0) /\ Sound(ReleaseOp(x))
  <2> DEFINE y == [x EXCEPT !.state = "terminated", !.app = "gone"]
  <2>1. ReleaseOp(x) = UnrefOp(y)
    BY <1>11 DEF ReleaseOp, Counted, SalType
  <2>2. /\ y \in SalType /\ y.ref = x.ref /\ y.freed = x.freed /\ y.dangling = x.dangling
        /\ y.out = x.out /\ y.linked = x.linked /\ ~y.later /\ y.dir = "in"
        /\ y.app = "gone" /\ ~y.bye /\ y.bye = x.bye /\ y.state = "terminated"
        /\ y.servers = x.servers /\ y.lost = x.lost /\ y.invite = x.invite
    BY <1>11 DEF Counted, SalType
  <2> HIDE DEF y
  <2>3. Counted(y, 0 + 1) /\ Sound(y)
    BY <1>11, <2>2 DEF Counted, Holders, HasCall, Sound
  <2> QED BY <2>1, <2>3, UnrefCounted, AlikeSound
<1>12. CASE sal' = [s EXCEPT !.app = "live"]
  <2> DEFINE t == [s EXCEPT !.app = "live"]
  <2>1. /\ t \in SalType /\ t.ref = s.ref /\ t.freed = s.freed /\ t.dangling = s.dangling
        /\ t.out = s.out /\ t.linked = s.linked /\ ~t.later /\ t.dir = "in"
        /\ t.app = "live" /\ t.bye = s.bye /\ t.state = "early"
        /\ t.servers = s.servers /\ t.lost = s.lost /\ t.invite = s.invite
    BY <1>8, <1>9 DEF Counted, SalType
  <2> HIDE DEF t
  <2>2. Holders(t) = Holders(s) + 1
    BY <1>8, <1>9, <2>1, TransactionsFinite DEF Counted, SalType, Holders, HasCall
  <2>3. Counted(t, 0)
    BY <1>8, <2>1, <2>2, HoldersNat DEF Counted
  <2>4. Sound(t)
    BY <1>9, <2>1 DEF Sound, HasCall
  <2> QED BY <1>12, <2>3, <2>4 DEF Upheld, t
<1>13. CASE sal' = [c EXCEPT !.lost = 1, !.app = "gone"]
  <2> DEFINE t == [c EXCEPT !.lost = 1, !.app = "gone"]
  <2>1. /\ t \in SalType /\ t.ref = c.ref /\ t.freed = c.freed /\ t.dangling = c.dangling
        /\ t.out = c.out /\ t.linked = c.linked /\ ~t.later /\ t.dir = "in"
        /\ t.app = "gone" /\ t.bye = c.bye /\ t.state = "early" /\ t.last = "null"
        /\ t.servers = c.servers /\ t.lost = 1 /\ t.invite = c.invite
        /\ t.dialog = "terminated" /\ t.asked = "none"
    BY <1>10 DEF Counted, SalType
  <2> HIDE DEF t
  <2>2. Holders(t) = Holders(c) + 1
    BY <1>10, <2>1, TransactionsFinite DEF Counted, SalType, Holders, HasCall
  <2>3. Counted(t, 0)
    BY <1>10, <2>1, <2>2, HoldersNat DEF Counted
  <2>4. Sound(t)
    BY <1>10, <2>1 DEF Sound, Stray, HasCall
  <2> QED BY <1>13, <2>3, <2>4 DEF Upheld, t
<1> HIDE DEF c
<1> QED BY <1>3, <1>8, <1>9, <1>10, <1>11, <1>12, <1>13 DEF Upheld

-----------------------------------------------------------------------------
(* The application                                                         *)

\* sal_call(): a new operation with the first INVITE.
LEMMA PlaceStep ==
  ASSUME IInv, PlaceCall
  PROVE  Upheld
<1> DEFINE r == RefOp(sal)
           e == [r EXCEPT !.dir = "out", !.app = "live"]
           t == SendRequest(e, "INVITE")
<1>1. Counted(sal, 0) /\ Untouched(sal)
  BY DEF PlaceCall, IInv, Sound
<1>2. Counted(r, 0 + 1) /\ Alike(sal, r)
  BY <1>1, RefCounted DEF Untouched
<1>3. sal' = t
  BY DEF PlaceCall
<1> HIDE DEF r
<1>4. /\ e \in SalType /\ e.ref = r.ref /\ e.freed = r.freed /\ e.dangling = r.dangling
      /\ e.dir = "out" /\ e.state = "early" /\ e.app = "live" /\ ~e.later
      /\ e.bye = r.bye /\ e.linked = r.linked /\ e.servers = r.servers /\ e.lost = r.lost
      /\ e.invite = r.invite /\ e.out = r.out
  BY <1>1, <1>2 DEF Counted, SalType, Alike, Untouched
<1>5. r.app = "none" /\ ~r.bye
  BY <1>1, <1>2 DEF Alike, Untouched, Pointed
<1> HIDE DEF e
<1>6. Holders(e) = Holders(r) + 1
  BY <1>2, <1>4, <1>5, TransactionsFinite DEF Counted, SalType, Holders, HasCall
<1>7. Counted(e, 0) /\ HasCall(e)
  BY <1>2, <1>4, <1>6, HoldersNat DEF Counted, HasCall
<1>8. Counted(t, 0) /\ Kept(e, t) /\ DOMAIN t.out # {}
  BY <1>7, HeldIsNotFreed, SendCounted DEF Method, Pointed
<1>9. Sound(t)
  BY <1>4, <1>5, <1>8 DEF Sound, Kept, Steady, HasCall
<1> QED BY <1>3, <1>8, <1>9 DEF Upheld

\* The application has the call.
LEMMA LiveHas ==
  ASSUME IInv, sal.app = "live"
  PROVE  Counted(sal, 0) /\ Sound(sal) /\ ~sal.freed /\ HasCall(sal)
BY HeldIsNotFreed DEF IInv, Untouched, Pointed, HasCall

\* 180, 200 or a refusal.
LEMMA AnswerStep ==
  ASSUME IInv, NotifyRinging \/ AcceptInvite \/ RefuseInvite
  PROVE  Upheld
<1>1. Counted(sal, 0) /\ Sound(sal) /\ sal.invite = "open"
  BY LiveHas DEF NotifyRinging, AcceptInvite, RefuseInvite
<1>2. CASE NotifyRinging
  BY <1>1, <1>2, DialogCounted DEF NotifyRinging, DialogState, Upheld
<1>3. CASE AcceptInvite
  <2> DEFINE e == [sal EXCEPT !.invite = "answered"]
  <2>1. Counted(e, 0) /\ Sound(e)
    BY <1>1, AnsweredCounted, KeptAll
  <2>2. sal' = DialogBecomes(e, "confirmed")
    BY <1>3 DEF AcceptInvite
  <2> HIDE DEF e
  <2> QED BY <2>1, <2>2, DialogCounted DEF DialogState, Upheld
<1>4. CASE RefuseInvite
  <2> DEFINE e == DeclineInvite(sal)
  <2>1. Counted(e, 0) /\ Sound(e)
    BY <1>1, DeclineCounted
  <2>2. sal' \in {e, CallOver(e)}
    BY <1>4 DEF RefuseInvite
  <2> HIDE DEF e
  <2> QED BY <2>1, <2>2, OverCounted DEF Upheld
<1> QED BY <1>2, <1>3, <1>4

\* The user hangs up.
LEMMA HangUpStep ==
  ASSUME IInv, HangUp
  PROVE  Upheld
<1>1. Counted(sal, 0) /\ Sound(sal) /\ sal.app = "live" /\ sal' = CallOver(TerminateOp(sal))
  BY LiveHas DEF HangUp
<1> DEFINE t == CallOver(TerminateOp(sal))
<1>2. Counted(t, 0) /\ Sound(t)
  BY <1>1, HangUpCounted
<1> HIDE DEF t
<1>3. sal' = t
  BY <1>1 DEF t
<1> QED BY <1>2, <1>3 DEF Upheld

\* re-INVITE and INFO.
LEMMA RequestStep ==
  ASSUME IInv, UpdateOp \/ SendInfo
  PROVE  Upheld
<1>1. Counted(sal, 0) /\ Sound(sal) /\ ~sal.freed /\ HasCall(sal)
  BY LiveHas DEF UpdateOp, SendInfo
<1>2. \E m \in Method : sal' = SendRequest(sal, m)
  BY DEF UpdateOp, SendInfo, Method
<1> QED BY <1>1, <1>2, SendCounted, KeptSound DEF Upheld

\* sal_op_authenticate(): the operation may be terminated by now, but not stray.
LEMMA AuthenticateStep ==
  ASSUME IInv, Authenticate
  PROVE  Upheld
<1> DEFINE e == [sal EXCEPT !.asked = "none"]
<1>1. Counted(sal, 0) /\ Sound(sal) /\ ~sal.freed /\ sal.asked \in Method
  BY DEF Authenticate, IInv, Untouched, Counted, SalType
<1>2. HasCall(sal) \/ sal.state = "terminated"
  BY <1>1 DEF Sound, Stray, Method
<1>3. /\ e \in SalType /\ e.ref = sal.ref /\ e.freed = sal.freed /\ e.dangling = sal.dangling
      /\ e.servers = sal.servers /\ e.lost = sal.lost /\ e.invite = sal.invite
      /\ e.out = sal.out /\ e.state = sal.state /\ e.dir = sal.dir /\ e.app = sal.app
      /\ e.linked = sal.linked /\ e.later = sal.later /\ e.bye = sal.bye /\ e.dialog = sal.dialog
  BY <1>1 DEF Counted, SalType
<1>4. sal' = SendRequest(e, sal.asked)
  BY DEF Authenticate
<1> HIDE DEF e
<1>5. Counted(e, 0) /\ Sound(e) /\ (HasCall(e) \/ e.state = "terminated")
  BY <1>1, <1>2, <1>3 DEF Counted, Holders, HasCall, Sound
<1> QED BY <1>1, <1>3, <1>4, <1>5, SendCounted, KeptSound DEF Upheld

-----------------------------------------------------------------------------
(* The theorem                                                             *)

\* Every step keeps the inductive invariant, and leaves an operation in use.
LEMMA SalStepUpheld ==
  ASSUME IInv, SalStep
  PROVE  Upheld
<1>1. CASE Responds
  <2>1. \E m \in Method, code \in Code : Response(m, code)
    BY <1>1 DEF Responds, Method, Code
  <2> QED BY <2>1, ResponseStep
<1>2. CASE \E m \in Method, st \in {"ended", "challenged"} : TransactionEnds(m, st)
  BY <1>2, TransactionEndsStep
<1>3. CASE \E m \in Method : GivesUp(m)
  BY <1>3, GivesUpStep
<1> QED
  BY <1>1, <1>2, <1>3, ServerTransactionEndsStep, DialogEndsStep, LaterReleasedStep,
     InviteReceivedStep, ReinviteStep, CancelStep, ByeStep, PlaceStep, AnswerStep, HangUpStep,
     RequestStep, AuthenticateStep
     DEF SalStep, MessageRead

\* The empty bag.
LEMMA NoTransaction == EmptyBag \in Outstanding /\ Cardinality(Transactions(EmptyBag)) = 0
<1>1. EmptyBag = [x \in {} |-> 1]
  BY DEF EmptyBag, SetToBag
<1>2. DOMAIN EmptyBag = {}
  BY <1>1
<1>3. EmptyBag \in Outstanding
  BY <1>1, <1>2 DEF Outstanding
<1>4. Transactions(EmptyBag) = {}
  BY <1>2, TransactionsAre
<1> QED BY <1>3, <1>4, FS_EmptySet

\* An operation not yet made.
LEMMA SalInitSound ==
  ASSUME NEW faults \in SUBSET SalFaults, SalInit(faults)
  PROVE  IInv
<1>1. /\ sal \in SalType /\ sal.out = EmptyBag /\ sal.servers = 0 /\ sal.lost = 0
      /\ sal.app = "none" /\ ~sal.linked /\ sal.invite = "none" /\ ~sal.bye
      /\ sal.ref = 0 /\ ~sal.dangling /\ ~sal.freed /\ sal.dir = "none" /\ sal.state = "early"
      /\ sal.dialog = "none" /\ sal.asked = "none" /\ ~sal.event /\ ~sal.later
  BY NoTransaction DEF SalInit, SalType
<1>2. Holders(sal) = 0
  BY <1>1, NoTransaction DEF Holders, HasCall
<1>3. ~Pointed(sal)
  BY <1>1, <1>2, HoldersNat
<1> QED BY <1>1, <1>2, <1>3 DEF IInv, Counted, Untouched

\* The operation, with any faults.
SalSpec == (\E faults \in SUBSET SalFaults : SalInit(faults)) /\ [][SalNext]_sal

\* Every pointer to a SIP operation has its reference (sal_op_ref() and sal_op_unref() by
\* hand), no handler runs on an operation that is freed or reports to a call the core has
\* given up, for every set of faults and any number of transactions.
THEOREM OperationIsCounted == SalSpec => []OpIsCounted
<1>1. (\E faults \in SUBSET SalFaults : SalInit(faults)) => IInv
  BY SalInitSound
<1>2. IInv /\ [SalNext]_sal => IInv'
  <2>1. CASE SalNext
    BY <2>1, SalStepUpheld DEF SalNext, Upheld, IInv
  <2>2. CASE UNCHANGED sal
    BY <2>2 DEF IInv
  <2> QED BY <2>1, <2>2
<1>3. IInv => OpIsCounted
  BY HoldersNat DEF IInv, OpIsCounted, Counted
<1> QED BY <1>1, <1>2, <1>3, PTL DEF SalSpec

-----------------------------------------------------------------------------
(* What the functions of an operation leave as it was                      *)

\* The first INVITE is one: no two of them are in course, and none twice.
Single(s) ==
  \A x, y \in {"calling", "proceeding"} :
    HasState(s, "INVITE", x) /\ HasState(s, "INVITE", y) => x = y /\ s.out[<<"INVITE", x>>] = 1

\* The same but for the transactions.
Close(s, t) ==
  Kept(s, t) /\ t.event = s.event /\ t.released = s.released /\ t.invite = s.invite

\* The same but for the call and the link to the dialog.
Below(s, t) ==
  /\ t.faults = s.faults /\ t.dir = s.dir /\ t.dialog = s.dialog /\ t.last = s.last
  /\ t.event = s.event /\ t.later = s.later /\ t.out = s.out /\ t.pending = s.pending
  /\ t.asked = s.asked /\ t.invite = s.invite /\ t.bye = s.bye

\* A transaction by its place in the bag.
LEMMA StateIs ==
  ASSUME NEW s, NEW m, NEW st
  PROVE  HasState(s, m, st) <=> <<m, st>> \in DOMAIN s.out
BY DEF HasState, BagIn, BagToSet

\* References change nothing else.
LEMMA RefAlike ==
  ASSUME NEW s \in SalType
  PROVE  RefOp(s) \in SalType /\ Alike(s, RefOp(s))
<1>1. PICK d \in BOOLEAN : d = (s.dangling \/ s.freed)
  OBVIOUS
<1>2. s.dangling \in BOOLEAN /\ s.freed \in BOOLEAN /\ s.ref \in Int
  BY DEF SalType
<1>3. RefOp(s) = [s EXCEPT !.ref = s.ref + 1, !.dangling = d]
  BY <1>1, Zenon DEF RefOp
<1> DEFINE x == [s EXCEPT !.ref = s.ref + 1]
<1>4. x \in SalType /\ Alike(s, x)
  BY <1>2 DEF SalType, Alike
<1>5. RefOp(s) = [x EXCEPT !.dangling = d]
  BY <1>3 DEF SalType
<1> HIDE DEF x
<1> DEFINE y == [x EXCEPT !.dangling = d]
<1>6. y \in SalType
  BY <1>4 DEF SalType
<1>7. Alike(s, y)
  BY <1>4 DEF SalType, Alike
<1> QED BY <1>5, <1>6, <1>7

\* A reference given back changes nothing else.
LEMMA UnrefAlike ==
  ASSUME NEW s \in SalType
  PROVE  UnrefOp(s) \in SalType /\ Alike(s, UnrefOp(s))
<1>1. PICK d \in BOOLEAN : d = (s.dangling \/ s.freed)
  OBVIOUS
<1>2. PICK f \in BOOLEAN : f = (s.freed \/ s.ref = 1)
  OBVIOUS
<1>3. s.dangling \in BOOLEAN /\ s.freed \in BOOLEAN /\ s.ref \in Int
  BY DEF SalType
<1>4. UnrefOp(s) = [s EXCEPT !.ref = s.ref - 1, !.dangling = d, !.freed = f]
  BY <1>1, <1>2, Zenon DEF UnrefOp
<1> DEFINE x == [s EXCEPT !.ref = s.ref - 1]
           y == [x EXCEPT !.dangling = d]
           z == [y EXCEPT !.freed = f]
<1>5. UnrefOp(s) = z
  BY <1>4 DEF SalType
<1>6. x \in SalType /\ Alike(s, x)
  BY <1>3 DEF SalType, Alike
<1> HIDE DEF x
<1>7. y \in SalType
  BY <1>6 DEF SalType
<1>8. Alike(s, y)
  BY <1>6 DEF SalType, Alike
<1> HIDE DEF y
<1>9. z \in SalType
  BY <1>7 DEF SalType
<1>10. Alike(s, z)
  BY <1>7, <1>8 DEF SalType, Alike
<1> QED BY <1>5, <1>9, <1>10

\* What is alike one after another.
LEMMA AlikeTrans ==
  ASSUME NEW s, NEW t, NEW u, Alike(s, t), Alike(t, u)
  PROVE  Alike(s, u)
BY DEF Alike

\* The same link on what is alike leaves it alike.
LEMMA LinkSet ==
  ASSUME NEW s \in SalType, NEW t \in SalType, Alike(s, t), NEW yes \in BOOLEAN
  PROVE  /\ [t EXCEPT !.linked = yes] \in SalType
         /\ Alike([s EXCEPT !.linked = yes], [t EXCEPT !.linked = yes])
<1>1. [t EXCEPT !.linked = yes] \in SalType
  BY ZenonT(60) DEF SalType
<1>2. Alike([s EXCEPT !.linked = yes], [t EXCEPT !.linked = yes])
  BY SMTT(60) DEF SalType, Alike
<1> QED BY <1>1, <1>2

\* set_or_update_dialog() changes the link.
LEMMA LinkAlike ==
  ASSUME NEW s \in SalType, NEW yes \in BOOLEAN
  PROVE  LinkDialog(s, yes) \in SalType /\ Alike([s EXCEPT !.linked = yes], LinkDialog(s, yes))
<1> DEFINE t == RefOp(s)
           v == UnrefOp(t)
           w == RefOp(t)
           u == CASE s.linked /\ ~yes -> [v EXCEPT !.linked = FALSE]
                  [] yes /\ ~s.linked -> [w EXCEPT !.linked = TRUE]
                  [] OTHER            -> t
           e == [s EXCEPT !.linked = yes]
<1>1. t \in SalType /\ Alike(s, t)
  BY RefAlike
<1> HIDE DEF t
<1>2. v \in SalType /\ Alike(s, v) /\ w \in SalType /\ Alike(s, w)
  BY <1>1, RefAlike, UnrefAlike, AlikeTrans
<1> HIDE DEF v, w
<1>3. u \in SalType /\ Alike(e, u)
  <2>1. CASE s.linked /\ ~yes
    <3>1. u = [v EXCEPT !.linked = yes]
      BY <2>1
    <3> QED BY <1>2, <3>1, LinkSet
  <2>2. CASE yes /\ ~s.linked
    <3>1. u = [w EXCEPT !.linked = yes]
      BY <2>2
    <3> QED BY <1>2, <3>1, LinkSet
  <2>3. CASE (s.linked <=> yes)
    <3>1. u = t
      BY <2>3
    <3>2. s.linked = yes
      BY <2>3 DEF SalType
    <3> QED BY <1>1, <3>1, <3>2 DEF SalType, Alike
  <2> QED BY <2>1, <2>2, <2>3
<1>4. LinkDialog(s, yes) = UnrefOp(u)
  BY DEF LinkDialog, t, v, w
<1> HIDE DEF u
<1> QED BY <1>3, <1>4, UnrefAlike, AlikeTrans

\* A transaction enters the bag.
LEMMA EnteringShape ==
  ASSUME NEW s \in SalType, NEW m \in Method, NEW st \in TransactionState
  PROVE  LET t == Entering(s, m, st)
         IN  /\ t \in SalType /\ Close(s, t) /\ t.pending = s.pending
             /\ DOMAIN t.out = DOMAIN s.out \cup {<<m, st>>}
             /\ Single(s) /\ (m # "INVITE" \/ st \notin {"calling", "proceeding"} \/ ~InCourse(s, "INVITE"))
                => Single(t)
<1> DEFINE t == Entering(s, m, st)
           b == s.out (+) SetToBag({<<m, st>>})
<1>1. s.out \in Outstanding /\ <<m, st>> \in Method \X TransactionState
  BY DEF SalType
<1>2. b \in Outstanding /\ DOMAIN b = DOMAIN s.out \cup {<<m, st>>}
  BY <1>1, AddOne
<1>3. \A y \in DOMAIN b : b[y] = IF y = <<m, st>>
                                 THEN (IF y \in DOMAIN s.out THEN s.out[y] ELSE 0) + 1
                                 ELSE s.out[y]
  BY <1>1, OutstandingAre DEF (+), SetToBag
<1>4. t = [s EXCEPT !.out = b]
  BY DEF Entering
<1> HIDE DEF b
<1>5. t \in SalType /\ t.out = b /\ Close(s, t) /\ t.pending = s.pending
  BY <1>2, <1>4 DEF SalType, Close, Kept, Steady
<1> HIDE DEF t
<1>6. ASSUME Single(s), m # "INVITE" \/ st \notin {"calling", "proceeding"} \/ ~InCourse(s, "INVITE")
      PROVE  Single(t)
  <2>1. SUFFICES ASSUME NEW x \in {"calling", "proceeding"}, NEW y \in {"calling", "proceeding"},
                        <<"INVITE", x>> \in DOMAIN b, <<"INVITE", y>> \in DOMAIN b
                 PROVE  x = y /\ b[<<"INVITE", x>>] = 1
    BY <1>5, StateIs DEF Single
  <2>2. \A z \in {"calling", "proceeding"} :
          <<"INVITE", z>> \in DOMAIN s.out => x = z /\ y = z /\ s.out[<<"INVITE", z>>] = 1
    <3>1. CASE InCourse(s, "INVITE")
      <4>1. <<"INVITE", x>> \in DOMAIN s.out /\ <<"INVITE", y>> \in DOMAIN s.out
        BY <1>2, <1>6, <2>1, <3>1
      <4> QED BY <1>6, <4>1, StateIs DEF Single
    <3>2. CASE ~InCourse(s, "INVITE")
      BY <3>2, StateIs DEF InCourse
    <3> QED BY <3>1, <3>2
  <2>3. CASE <<"INVITE", x>> \in DOMAIN s.out
    <3>1. InCourse(s, "INVITE")
      BY <2>3, StateIs DEF InCourse
    <3>2. <<"INVITE", x>> # <<m, st>> /\ <<"INVITE", y>> # <<m, st>>
      BY <1>6, <3>1
    <3> QED BY <1>2, <1>3, <2>1, <2>2, <2>3, <3>2
  <2>4. CASE <<"INVITE", x>> \notin DOMAIN s.out
    <3>1. <<"INVITE", x>> = <<m, st>>
      BY <1>2, <2>1, <2>4
    <3>2. <<"INVITE", y>> \notin DOMAIN s.out
      BY <2>2, <2>4
    <3>3. <<"INVITE", y>> = <<m, st>>
      BY <1>2, <2>1, <3>2
    <3> QED BY <1>3, <2>1, <2>4, <3>1, <3>3
  <2> QED BY <2>3, <2>4
<1> QED BY <1>2, <1>5, <1>6 DEF t

\* A transaction leaves the bag.
LEMMA LeavingShape ==
  ASSUME NEW s \in SalType, NEW m, NEW st, HasState(s, m, st)
  PROVE  LET t == Leaving(s, m, st)
         IN  /\ t \in SalType /\ Close(s, t) /\ t.pending = s.pending
             /\ DOMAIN t.out \subseteq DOMAIN s.out
             /\ DOMAIN s.out \ {<<m, st>>} \subseteq DOMAIN t.out
             /\ Single(s) => Single(t)
             /\ Single(s) /\ m = "INVITE" /\ st \in {"calling", "proceeding"} => ~InCourse(t, "INVITE")
<1> DEFINE t == Leaving(s, m, st)
           b == s.out (-) SetToBag({<<m, st>>})
<1>1. s.out \in Outstanding /\ <<m, st>> \in DOMAIN s.out
  BY StateIs DEF SalType
<1>2. b \in Outstanding
  BY <1>1, RemoveOne
<1>3. /\ DOMAIN b = {y \in DOMAIN s.out : y # <<m, st>> \/ s.out[y] > 1}
      /\ \A y \in DOMAIN b : b[y] = IF y = <<m, st>> THEN s.out[y] - 1 ELSE s.out[y]
  BY <1>1, OutstandingAre DEF (-), SetToBag
<1>4. t = [s EXCEPT !.out = b]
  BY DEF Leaving
<1> HIDE DEF b
<1>5. t \in SalType /\ t.out = b /\ Close(s, t) /\ t.pending = s.pending
  BY <1>2, <1>4 DEF SalType, Close, Kept, Steady
<1> HIDE DEF t
<1>6. ASSUME Single(s)  PROVE Single(t)
  <2>1. SUFFICES ASSUME NEW x \in {"calling", "proceeding"}, NEW y \in {"calling", "proceeding"},
                        <<"INVITE", x>> \in DOMAIN b, <<"INVITE", y>> \in DOMAIN b
                 PROVE  x = y /\ b[<<"INVITE", x>>] = 1
    BY <1>5, StateIs DEF Single
  <2>2. x = y /\ s.out[<<"INVITE", x>>] = 1
    BY <1>3, <1>6, <2>1, StateIs DEF Single
  <2> QED BY <1>3, <2>1, <2>2
<1>7. ASSUME Single(s), m = "INVITE", st \in {"calling", "proceeding"}
      PROVE  ~InCourse(t, "INVITE")
  <2>1. SUFFICES ASSUME NEW x \in {"calling", "proceeding"}, <<"INVITE", x>> \in DOMAIN b
                 PROVE  FALSE
    BY <1>5, StateIs DEF InCourse
  <2>2. <<"INVITE", x>> \in DOMAIN s.out
    BY <1>3, <2>1
  <2>3. x = st /\ s.out[<<"INVITE", x>>] = 1
    BY <1>1, <1>7, <2>2, StateIs DEF Single
  <2> QED BY <1>3, <1>7, <2>1, <2>3
<1> QED BY <1>3, <1>5, <1>6, <1>7 DEF t

\* A request is sent.
LEMMA SendShape ==
  ASSUME NEW s \in SalType, NEW m \in Method
  PROVE  LET t == SendRequest(s, m)
         IN  /\ t \in SalType /\ Close(s, t) /\ t.pending = m
             /\ DOMAIN t.out = DOMAIN s.out \cup {<<m, "calling">>}
             /\ Single(s) /\ (m # "INVITE" \/ ~InCourse(s, "INVITE")) => Single(t)
<1> DEFINE r == RefOp(s)
           e == Entering(r, m, "calling")
           t == [e EXCEPT !.pending = m]
<1>1. r \in SalType /\ Alike(s, r)
  BY RefAlike
<1> HIDE DEF r
<1>2. Close(s, r) /\ r.out = s.out
  BY <1>1 DEF Alike, Close, Kept, Steady
<1>3. "calling" \in TransactionState
  BY DEF TransactionState
<1>4. /\ e \in SalType /\ Close(r, e) /\ DOMAIN e.out = DOMAIN r.out \cup {<<m, "calling">>}
      /\ Single(r) /\ (m # "INVITE" \/ ~InCourse(r, "INVITE")) => Single(e)
  BY <1>1, <1>3, EnteringShape
<1>5. SendRequest(s, m) = t
  BY DEF SendRequest, e, r
<1> HIDE DEF e
<1>6. t \in SalType /\ Close(e, t) /\ t.pending = m /\ t.out = e.out
  BY <1>4 DEF SalType, Close, Kept, Steady
<1> HIDE DEF t
<1>7. Close(s, t)
  BY <1>2, <1>4, <1>6 DEF Close, Kept, Steady
<1>8. ASSUME Single(s), m # "INVITE" \/ ~InCourse(s, "INVITE")  PROVE Single(t)
  <2>1. Single(r) /\ (m # "INVITE" \/ ~InCourse(r, "INVITE"))
    BY <1>2, <1>8 DEF Single, InCourse, HasState
  <2>2. Single(e)
    BY <1>4, <2>1
  <2> QED BY <1>6, <2>2 DEF Single, HasState
<1> QED BY <1>2, <1>4, <1>5, <1>6, <1>7, <1>8

\* The stack gives the dialog another state.
LEMMA DialogShape ==
  ASSUME NEW s \in SalType, NEW d \in DialogState
  PROVE  LET t == DialogBecomes(s, d)
         IN  /\ t \in SalType /\ Steady(s, t) /\ t.out = s.out /\ t.pending = s.pending
             /\ t.invite = s.invite /\ t.released = s.released
             /\ s.dialog \in {d, "terminated"} => t = s
             /\ s.dialog \notin {d, "terminated"} =>
                  t.dialog = d /\ t.last = s.dialog /\ (t.event <=> d = "terminated")
<1> DEFINE t == DialogBecomes(s, d)
<1>1. CASE s.dialog \in {d, "terminated"}
  <2>1. t = s
    BY <1>1 DEF DialogBecomes
  <2> QED BY <1>1, <2>1 DEF Steady
<1>2. CASE s.dialog \notin {d, "terminated"}
  <2>1. PICK x \in BOOLEAN : x = (d = "terminated")
    OBVIOUS
  <2>2. t = [s EXCEPT !.dialog = d, !.last = s.dialog, !.event = x]
    BY <1>2, <2>1, Zenon DEF DialogBecomes
  <2>3. s.dialog \in {"none", "null", "early", "confirmed"}
    BY <1>2 DEF SalType
  <2> HIDE DEF t
  <2>4. t \in SalType
    BY ZenonT(60), <2>2, <2>3 DEF SalType, DialogState
  <2>5. Steady(s, t) /\ t.out = s.out /\ t.pending = s.pending /\ t.invite = s.invite
        /\ t.released = s.released
    BY <2>2 DEF SalType, Steady
  <2>6. t.dialog = d /\ t.last = s.dialog /\ (t.event <=> d = "terminated")
    BY <2>1, <2>2 DEF SalType
  <2> QED BY <1>2, <2>4, <2>5, <2>6 DEF t
<1> QED BY <1>1, <1>2

\* call_terminated() of the core
LEMMA OverShape ==
  ASSUME NEW s \in SalType
  PROVE  LET t == CallOver(s)
         IN  /\ t \in SalType /\ Below(s, t) /\ t.linked = s.linked /\ t.state = s.state
             /\ t.released = s.released
             /\ t.app = IF s.app = "live" THEN "over" ELSE s.app
<1> DEFINE a == IF s.app = "live" THEN "over" ELSE s.app
           t == [s EXCEPT !.app = a]
<1>1. CallOver(s) = t
  BY DEF CallOver
<1>2. a \in {"none", "live", "over", "gone"}
  BY DEF SalType
<1> HIDE DEF a
<1>3. t \in SalType /\ Below(s, t) /\ t.linked = s.linked /\ t.state = s.state
      /\ t.released = s.released /\ t.app = a
  BY <1>2 DEF SalType, Below
<1> QED BY <1>1, <1>3 DEF a

\* sal_op_release()
LEMMA ReleaseShape ==
  ASSUME NEW s \in SalType
  PROVE  LET t == ReleaseOp(s)
         IN  /\ t \in SalType /\ Below(s, t) /\ t.linked = s.linked /\ t.released = s.released
             /\ t.app = "gone"
             /\ t.state = IF s.state = "terminating" THEN "terminating" ELSE "terminated"
<1> DEFINE st == IF s.state = "terminating" THEN "terminating" ELSE "terminated"
           x == [s EXCEPT !.state = st]
           y == [x EXCEPT !.app = "gone"]
<1>1. ReleaseOp(s) = UnrefOp(y)
  <2>1. [s EXCEPT !.state = IF @ = "terminating" THEN @ ELSE "terminated", !.app = "gone"] = y
    BY DEF SalType
  <2> QED BY <2>1 DEF ReleaseOp
<1>2. st \in {"early", "active", "terminating", "terminated"}
  OBVIOUS
<1> HIDE DEF st
<1>3. x \in SalType /\ Below(s, x) /\ x.linked = s.linked /\ x.released = s.released /\ x.state = st
  BY <1>2 DEF SalType, Below
<1> HIDE DEF x
<1>4. y \in SalType /\ Below(s, y) /\ y.linked = s.linked /\ y.released = s.released
      /\ y.state = st /\ y.app = "gone"
  BY <1>3 DEF SalType, Below
<1> HIDE DEF y
<1>5. UnrefOp(y) \in SalType /\ Alike(y, UnrefOp(y))
  BY <1>4, UnrefAlike
<1> QED BY <1>1, <1>4, <1>5 DEF Alike, Below, st

\* call_set_released(): the first time, the core releases the operation.
LEMMA ReleasedShape ==
  ASSUME NEW s \in SalType
  PROVE  LET t == CallSetReleased(s)
         IN  /\ t \in SalType /\ Below(s, t)
             /\ s.released => Alike(s, t)
             /\ ~s.released => /\ t.app = (IF HasCall(s) THEN "gone" ELSE s.app)
                               /\ t.state = "terminated" /\ ~t.linked /\ t.released
<1> DEFINE r == CallSetReleased(s)
<1>1. PICK d \in BOOLEAN : d = (s.dangling \/ s.freed)
  OBVIOUS
<1>2. CASE s.released
  <2>1. r = [s EXCEPT !.dangling = d]
    BY <1>1, <1>2, Zenon DEF CallSetReleased
  <2> HIDE DEF r
  <2>2. r \in SalType
    BY <2>1 DEF SalType
  <2>3. Alike(s, r)
    BY <2>1 DEF SalType, Alike
  <2> QED BY <1>2, <2>2, <2>3 DEF r, Alike, Below
<1>3. CASE ~s.released
  <2> DEFINE t == [s EXCEPT !.state = "terminated", !.dangling = d]
             x == [s EXCEPT !.state = "terminated"]
             y == [x EXCEPT !.dangling = d]
  <2>1. x \in SalType /\ Below(s, x) /\ x.app = s.app /\ x.state = "terminated"
        /\ x.released = s.released
    BY DEF SalType, Below
  <2>2. t = y
    BY DEF SalType
  <2> HIDE DEF x
  <2>3. y \in SalType
    BY <2>1 DEF SalType
  <2>4. Below(s, y) /\ y.app = s.app /\ y.state = "terminated" /\ y.released = s.released
    BY <2>1 DEF SalType, Below
  <2> HIDE DEF y
  <2> DEFINE u == IF HasCall(s) THEN ReleaseOp(t) ELSE t
             v == [u EXCEPT !.released = TRUE]
  <2>5. r = LinkDialog(v, FALSE)
    <3>1. t = [s EXCEPT !.state = "terminated", !.dangling = @ \/ s.freed]
      BY <1>1, Zenon
    <3> QED BY <1>3, <3>1, Zenon DEF CallSetReleased
  <2> HIDE DEF t
  <2>6. u \in SalType /\ Below(s, u) /\ u.state = "terminated"
        /\ u.app = IF HasCall(s) THEN "gone" ELSE s.app
    <3>1. CASE HasCall(s)
      <4>1. u = ReleaseOp(y)
        BY <2>2, <3>1
      <4> QED BY <2>3, <2>4, <3>1, <4>1, ReleaseShape DEF Below
    <3>2. CASE ~HasCall(s)
      BY <2>2, <2>3, <2>4, <3>2
    <3> QED BY <3>1, <3>2
  <2> HIDE DEF u
  <2>7. v \in SalType /\ Below(s, v) /\ v.state = "terminated" /\ v.released = TRUE
        /\ v.app = u.app
    BY <2>6 DEF SalType, Below
  <2> HIDE DEF v
  <2> DEFINE w == [v EXCEPT !.linked = FALSE]
  <2>8. w \in SalType /\ Below(s, w) /\ w.state = "terminated" /\ w.released = TRUE
        /\ w.app = v.app /\ w.linked = FALSE
    BY <2>7 DEF SalType, Below
  <2>9. LinkDialog(v, FALSE) \in SalType /\ Alike(w, LinkDialog(v, FALSE))
    BY <2>7, LinkAlike
  <2> HIDE DEF w
  <2>10. r \in SalType /\ Alike(w, r)
    BY <2>5, <2>9
  <2> HIDE DEF r
  <2>11. Below(s, r) /\ r.state = "terminated" /\ ~r.linked /\ r.released
         /\ r.app = IF HasCall(s) THEN "gone" ELSE s.app
    BY <2>6, <2>7, <2>8, <2>10 DEF Alike, Below
  <2> QED BY <1>3, <2>10, <2>11 DEF r
<1> QED BY <1>2, <1>3 DEF SalType

\* sal_call_decline() of an INVITE
LEMMA DeclineShape ==
  ASSUME NEW s \in SalType
  PROVE  LET t == DeclineInvite(s)
         IN  /\ t \in SalType /\ Steady(s, t) /\ t.out = s.out /\ t.pending = s.pending
             /\ t.released = s.released
             /\ s.invite # "open" => t = s
             /\ s.invite = "open" => t.invite = "answered"
             /\ s.invite = "open" /\ s.dialog = "confirmed" =>
                  t.dialog = s.dialog /\ t.last = s.last /\ t.event = s.event
             /\ s.invite = "open" /\ s.dialog \notin {"confirmed", "terminated"} =>
                  t.dialog = "terminated" /\ t.last = s.dialog /\ t.event
             /\ s.invite = "open" /\ s.dialog = "terminated" =>
                  t.dialog = s.dialog /\ t.last = s.last /\ t.event = s.event
<1> DEFINE t == DeclineInvite(s)
           e == [s EXCEPT !.invite = "answered"]
           d == IF s.dialog = "confirmed" THEN "confirmed" ELSE "terminated"
<1>1. CASE s.invite # "open"
  <2>1. t = s
    BY <1>1 DEF DeclineInvite
  <2> QED BY <1>1, <2>1 DEF Steady
<1>2. CASE s.invite = "open"
  <2>1. e \in SalType /\ Steady(s, e) /\ e.out = s.out /\ e.pending = s.pending
        /\ e.released = s.released /\ e.invite = "answered" /\ e.dialog = s.dialog
        /\ e.last = s.last /\ e.event = s.event
    BY DEF SalType, Steady
  <2>2. t = DialogBecomes(e, d) /\ d \in DialogState
    BY <1>2 DEF DeclineInvite, DialogState
  <2> HIDE DEF e
  <2>3. /\ t \in SalType /\ Steady(e, t) /\ t.out = e.out /\ t.pending = e.pending
        /\ t.invite = e.invite /\ t.released = e.released
        /\ e.dialog \in {d, "terminated"} => t = e
        /\ e.dialog \notin {d, "terminated"} =>
             t.dialog = d /\ t.last = e.dialog /\ (t.event <=> d = "terminated")
    BY <2>1, <2>2, DialogShape
  <2> HIDE DEF t
  <2>4. t \in SalType /\ Steady(s, t) /\ t.out = s.out /\ t.pending = s.pending
             /\ t.released = s.released /\ t.invite = "answered"
    BY <2>1, <2>3 DEF Steady
  <2>5. CASE s.dialog \in {"confirmed", "terminated"}
    <3>1. t = e
      BY <2>1, <2>3, <2>5
    <3> QED BY <1>2, <2>1, <2>4, <2>5, <3>1 DEF t
  <2>6. CASE s.dialog \notin {"confirmed", "terminated"}
    BY <1>2, <2>1, <2>3, <2>4, <2>6 DEF t
  <2> QED BY <2>5, <2>6
<1> QED BY <1>1, <1>2

\* The operation takes another state.
LEMMA StateShape ==
  ASSUME NEW s \in SalType, NEW st \in {"early", "active", "terminating", "terminated"}
  PROVE  LET t == [s EXCEPT !.state = st]
         IN  /\ t \in SalType /\ Below(s, t) /\ t.linked = s.linked /\ t.released = s.released
             /\ t.app = s.app /\ t.state = st
BY DEF SalType, Below

\* cancelling_invite()
LEMMA CancellingShape ==
  ASSUME NEW s \in SalType
  PROVE  LET t == CancellingInvite(s)
         IN  /\ t \in SalType /\ t.state = "terminating"
             /\ t.faults = s.faults /\ t.dir = s.dir /\ t.app = s.app /\ t.dialog = s.dialog
             /\ t.linked = s.linked /\ t.last = s.last /\ t.event = s.event /\ t.later = s.later
             /\ t.released = s.released /\ t.asked = s.asked /\ t.invite = s.invite /\ t.bye = s.bye
             /\ Single(s) => Single(t)
             /\ s.pending = "INVITE" /\ HasState(s, "INVITE", "proceeding") =>
                  t.pending = "CANCEL" /\ DOMAIN t.out = DOMAIN s.out \cup {<<"CANCEL", "calling">>}
             /\ ~(s.pending = "INVITE" /\ HasState(s, "INVITE", "proceeding")) =>
                  t.pending = s.pending /\ DOMAIN t.out = DOMAIN s.out
<1> DEFINE c == s.pending = "INVITE" /\ HasState(s, "INVITE", "proceeding")
           w == IF c THEN SendRequest(s, "CANCEL") ELSE s
           t == [w EXCEPT !.state = "terminating"]
<1>1. CancellingInvite(s) = t
  BY DEF CancellingInvite
<1>2. /\ w \in SalType /\ Close(s, w) /\ (Single(s) => Single(w))
      /\ c => w.pending = "CANCEL" /\ DOMAIN w.out = DOMAIN s.out \cup {<<"CANCEL", "calling">>}
      /\ ~c => w.pending = s.pending /\ DOMAIN w.out = DOMAIN s.out
  <2>1. CASE c
    <3>1. w = SendRequest(s, "CANCEL")
      BY <2>1
    <3> QED BY <2>1, <3>1, SendShape DEF Method
  <2>2. CASE ~c
    <3>1. w = s
      BY <2>2
    <3> QED BY <2>2, <3>1 DEF Close, Kept, Steady
  <2> QED BY <2>1, <2>2
<1> HIDE DEF w
<1>3. t \in SalType /\ Below(w, t) /\ t.linked = w.linked /\ t.released = w.released
      /\ t.app = w.app /\ t.state = "terminating"
  BY <1>2, StateShape
<1> HIDE DEF t
<1>4. (Single(w) => Single(t)) /\ t.out = w.out
  BY <1>3 DEF Single, Below, HasState
<1> QED BY <1>1, <1>2, <1>3, <1>4 DEF Below, Close, Kept, Steady

-----------------------------------------------------------------------------
(* A call on its way to the release                                        *)

\* None of the faults that keep an operation from its release.
Mild(s) == s.faults \cap {"request", "password", "burst", "untimely"} = {}

\* The requests that are on the way belong to the dialog as it is.
Fitting(s) ==
  /\ s.event => s.dialog = "terminated"
  /\ s.linked => s.dialog # "none"
  /\ \A st \in TransactionState :
       /\ HasState(s, "BYE", st) => s.dialog \in {"confirmed", "terminated"}
       /\ HasState(s, "CANCEL", st) => s.app = "over" /\ s.dir = "out"

\* An incoming call that is not answered rings; nothing ends it but a refusal.
Incoming(s) ==
  s.dir = "in" =>
    /\ s.linked /\ s.dialog # "none"
    /\ s.dialog \in {"null", "early"} =>
         s.app = "live" /\ s.invite = "open" /\ ~InCourse(s, "INVITE")

\* An outgoing call that is not answered is still called, and when it is over the CANCEL
\* is sent, or will be with the next provisional response.
Outgoing(s) ==
  s.dir = "out" =>
    /\ s.dialog # "null"
    /\ s.dialog \in {"none", "early"} =>
         /\ InCourse(s, "INVITE") /\ s.pending \in {"INVITE", "CANCEL"}
         /\ s.app = "live" => s.pending = "INVITE"
         /\ s.app = "over" =>
              s.state = "terminating" /\ (HasState(s, "INVITE", "calling") \/ s.pending = "CANCEL")

\* A call that is over in a dialog has sent BYE; the end of a dialog will be told, or was.
Dialogue(s) ==
  /\ s.state = "terminated" => s.dialog = "terminated"
  /\ s.app = "live" => s.state \in {"early", "active"}
  /\ s.app = "live" /\ s.dialog \notin {"none", "terminated"} => s.linked
  /\ s.app = "over" /\ s.dialog = "confirmed" => InCourse(s, "BYE")
  /\ s.dialog = "terminated" => s.later \/ (s.event /\ s.linked)

\* The way of a call to its release.
Ongoing(s) ==
  HasCall(s) /\ Mild(s) =>
    /\ s.asked = "none" /\ ~s.released
    /\ Fitting(s) /\ Incoming(s) /\ Outgoing(s) /\ Dialogue(s)

\* The same for the operation a response is shown to.
Shown(s, m, code) ==
  /\ HasCall(s) /\ Mild(s) /\ s.state # "terminated" /\ s.asked = "none" /\ ~s.released
  /\ s.dir \in {"in", "out"}
  /\ Fitting(s)
  /\ m = "CANCEL" => s.app = "over" /\ s.dir = "out"
  /\ s.app = "live" => s.state \in {"early", "active"}
  /\ s.app = "over" /\ s.dialog = "confirmed" =>
       InCourse(s, "BYE") \/ (s.state = "terminating" /\ m # "CANCEL")
  /\ s.dialog = "terminated" => s.later \/ (s.event /\ m # "CANCEL")
  /\ s.dir = "in" =>
       /\ s.dialog # "none"
       /\ s.dialog \in {"null", "early"} =>
            s.app = "live" /\ s.invite = "open" /\ ~InCourse(s, "INVITE") /\ m # "INVITE"
  /\ s.dir = "out" =>
       /\ s.dialog # "null"
       /\ s.dialog \in {"none", "early"} /\ (m # "INVITE" \/ code \in Provisional) =>
            /\ InCourse(s, "INVITE") /\ s.pending \in {"INVITE", "CANCEL"}
            /\ s.app = "live" => s.pending = "INVITE"
            /\ s.app = "over" => s.state = "terminating"
            /\ m = "INVITE" => HasState(s, "INVITE", "proceeding")
            /\ m # "INVITE" /\ s.app = "over" =>
                 HasState(s, "INVITE", "calling") \/ s.pending = "CANCEL"
  /\ m = "INVITE" /\ s.dialog = "early" => code \in Provisional

\* The transactions in course by their places.
LEMMA CourseIs ==
  ASSUME NEW s, NEW m
  PROVE  InCourse(s, m) <=> <<m, "calling">> \in DOMAIN s.out \/ <<m, "proceeding">> \in DOMAIN s.out
BY StateIs DEF InCourse

\* References tell nothing of the way of a call.
LEMMA AlikeOngoing ==
  ASSUME NEW s, NEW t, Alike(s, t), Ongoing(s)
  PROVE  Ongoing(t)
BY DEF Alike, Ongoing, HasCall, Mild, Fitting, Incoming, Outgoing, Dialogue, InCourse, HasState

\* Without a confirmed dialog.
LEMMA EarlyOngoing ==
  ASSUME NEW t \in SalType, NEW m \in Method, NEW code \in Code, NEW outcome \in FailureOutcome,
         Shown(t, m, code), t.linked <=> m # "CANCEL" /\ t.dialog # "none",
         ~t.linked \/ t.dialog \in {"null", "early"}
  PROVE  EarlyResponse(t, m, code, outcome) \in SalType /\ Ongoing(EarlyResponse(t, m, code, outcome))
<1> DEFINE u == EarlyResponse(t, m, code, outcome)
<1>1. ASSUME u = t, m # "INVITE" \/ (code \in Provisional /\ (t.app = "over" => t.pending = "CANCEL"))
      PROVE  Ongoing(t)
  BY <1>1 DEF Shown, Ongoing, HasCall, Fitting, Incoming, Outgoing, Dialogue, SalType
<1>2. CASE m # "INVITE"
  <2>1. u = t
    BY <1>2 DEF EarlyResponse
  <2> QED BY <1>1, <1>2, <2>1
<1>3. CASE m = "INVITE" /\ code \in Provisional
  <2>1. CASE t.state = "terminating" /\ t.pending # "CANCEL"
    <3>1. u = CancellingInvite(t)
      BY <1>3, <2>1 DEF EarlyResponse
    <3>2. t.dir = "out" /\ t.dialog \in {"none", "early"} /\ t.pending = "INVITE"
          /\ HasState(t, "INVITE", "proceeding") /\ t.app = "over"
      BY <1>3, <2>1 DEF Shown, SalType, HasCall
    <3> HIDE DEF u
    <3>3. /\ u \in SalType /\ u.state = "terminating" /\ u.pending = "CANCEL"
          /\ DOMAIN u.out = DOMAIN t.out \cup {<<"CANCEL", "calling">>}
          /\ u.faults = t.faults /\ u.dir = t.dir /\ u.app = t.app /\ u.dialog = t.dialog
          /\ u.linked = t.linked /\ u.event = t.event /\ u.later = t.later
          /\ u.released = t.released /\ u.asked = t.asked
      BY <3>1, <3>2, CancellingShape
    <3>4. Fitting(u)
      BY <3>2, <3>3, StateIs DEF Fitting, Shown
    <3>5. InCourse(u, "INVITE")
      BY <3>2, <3>3, StateIs, CourseIs
    <3> QED BY <3>2, <3>3, <3>4, <3>5 DEF Shown, Ongoing, Incoming, Outgoing, Dialogue, u
  <2>2. CASE ~(t.state = "terminating" /\ t.pending # "CANCEL")
    <3>1. u = t
      BY <1>3, <2>2 DEF EarlyResponse
    <3>2. t.app = "over" => t.pending = "CANCEL"
      BY <1>3, <2>2 DEF Shown, SalType
    <3> QED BY <1>1, <1>3, <3>1, <3>2
  <2> QED BY <2>1, <2>2
<1>4. CASE m = "INVITE" /\ code \notin Provisional
  <2>1. ~t.linked /\ t.dialog = "none"
    BY <1>4 DEF Shown, SalType
  <2> DEFINE f == IF t.state = "terminating" THEN t ELSE Fails(t, outcome)
  <2>2. u = CallSetReleased(f)
    <3>1. CASE t.state = "terminating"
      BY <1>4, <2>1, <3>1 DEF EarlyResponse
    <3>2. CASE t.state # "terminating"
      <4>1. Fails(t, outcome).linked = t.linked
        BY OverShape, ReleaseShape DEF Fails, Shown, HasCall, FailureOutcome
      <4> QED BY <1>4, <2>1, <3>2, <4>1 DEF EarlyResponse
    <3> QED BY <3>1, <3>2
  <2>3. f \in SalType /\ ~f.released /\ f.app \in {"live", "over", "gone"}
    <3>1. f \in {t, CallOver(t), ReleaseOp(t)}
      BY DEF Fails, Shown, HasCall, FailureOutcome
    <3> QED BY <3>1, OverShape, ReleaseShape DEF Shown, HasCall
  <2> HIDE DEF f, u
  <2>4. u \in SalType /\ u.app = "gone"
    BY <2>2, <2>3, ReleasedShape DEF HasCall
  <2> QED BY <2>4 DEF Ongoing, HasCall, u
<1> QED BY <1>2, <1>3, <1>4

\* sal_call_terminate() in the dialog: BYE.
LEMMA TerminateConfirmed ==
  ASSUME NEW s \in SalType, s.state \in {"early", "active"}, s.linked, s.dialog = "confirmed"
  PROVE  LET t == TerminateOp(s)
         IN  /\ t \in SalType /\ t.state = "terminating" /\ t.pending = "BYE"
             /\ t.faults = s.faults /\ t.dir = s.dir /\ t.app = s.app
             /\ t.dialog = s.dialog /\ t.linked = s.linked /\ t.last = s.last
             /\ t.event = s.event /\ t.later = s.later /\ t.released = s.released
             /\ t.asked = s.asked /\ t.invite = s.invite /\ t.bye = s.bye
             /\ DOMAIN t.out = DOMAIN s.out \cup {<<"BYE", "calling">>}
             /\ (Single(s) => Single(t))
<1> DEFINE w == SendRequest(s, "BYE")
           t == [w EXCEPT !.state = "terminating"]
<1>1. TerminateOp(s) = t
  BY DEF TerminateOp, DialogOf
<1>2. /\ w \in SalType /\ Close(s, w) /\ (Single(s) => Single(w)) /\ w.pending = "BYE"
      /\ DOMAIN w.out = DOMAIN s.out \cup {<<"BYE", "calling">>}
  BY SendShape DEF Method
<1> HIDE DEF w
<1>3. t \in SalType /\ Below(w, t) /\ t.linked = w.linked /\ t.released = w.released
      /\ t.app = w.app /\ t.state = "terminating"
  BY <1>2, StateShape
<1> HIDE DEF t
<1>4. (Single(w) => Single(t)) /\ t.out = w.out
  BY <1>3 DEF Single, Below, HasState
<1> QED BY <1>1, <1>2, <1>3, <1>4 DEF Below, Close, Kept, Steady

\* The same for an incoming call that is not answered: a refusal.
LEMMA TerminateIncoming ==
  ASSUME NEW s \in SalType, s.state \in {"early", "active"}, s.dir = "in",
         DialogOf(s) \notin {"confirmed", "terminated"}
  PROVE  LET d == DeclineInvite(s)
             t == TerminateOp(s)
         IN  t \in SalType /\ Below(d, t) /\ t.state = "terminated" /\ t.linked = s.linked
             /\ t.app = s.app /\ t.released = s.released
<1> DEFINE d == DeclineInvite(s)
           t == [d EXCEPT !.state = "terminated"]
<1>1. TerminateOp(s) = t
  BY DEF TerminateOp
<1>2. d \in SalType /\ Steady(s, d) /\ d.released = s.released
  BY DeclineShape
<1> HIDE DEF d
<1>3. t \in SalType /\ Below(d, t) /\ t.linked = d.linked /\ t.released = d.released
      /\ t.app = d.app /\ t.state = "terminated"
  BY <1>2, StateShape
<1> HIDE DEF t
<1> QED BY <1>1, <1>2, <1>3 DEF Steady, d

\* The same for an outgoing call that is not answered: CANCEL, if there is a provisional
\* response.
LEMMA TerminateOutgoing ==
  ASSUME NEW s \in SalType, s.state \in {"early", "active"}, s.dir = "out",
         DialogOf(s) \notin {"confirmed", "terminated"}
  PROVE  LET t == TerminateOp(s)
         IN  /\ t \in SalType /\ t.state = "terminating"
             /\ t.faults = s.faults /\ t.dir = s.dir /\ t.app = s.app /\ t.dialog = s.dialog
             /\ t.linked = s.linked /\ t.last = s.last /\ t.event = s.event /\ t.later = s.later
             /\ t.released = s.released /\ t.asked = s.asked /\ t.invite = s.invite /\ t.bye = s.bye
             /\ Single(s) => Single(t)
             /\ s.pending = "INVITE" /\ HasState(s, "INVITE", "proceeding") =>
                  t.pending = "CANCEL" /\ DOMAIN t.out = DOMAIN s.out \cup {<<"CANCEL", "calling">>}
             /\ ~(s.pending = "INVITE" /\ HasState(s, "INVITE", "proceeding")) =>
                  t.pending = s.pending /\ DOMAIN t.out = DOMAIN s.out
<1>1. CASE DialogOf(s) = "early" \/ HasState(s, s.pending, "proceeding")
  <2>1. TerminateOp(s) = CancellingInvite(s)
    <3>1. DialogOf(s) \in {"none", "early"}
      BY DEF DialogOf, SalType
    <3> QED BY <1>1, <3>1 DEF TerminateOp
  <2> QED BY <2>1, CancellingShape
<1>2. CASE ~(DialogOf(s) = "early" \/ HasState(s, s.pending, "proceeding"))
  <2> DEFINE t == [s EXCEPT !.state = "terminating"]
  <2>1. TerminateOp(s) = t
    <3>1. DialogOf(s) = "none"
      BY <1>2 DEF DialogOf, SalType
    <3> QED BY <1>2, <3>1 DEF TerminateOp
  <2>2. t \in SalType /\ Below(s, t) /\ t.linked = s.linked /\ t.released = s.released
        /\ t.app = s.app /\ t.state = "terminating"
    BY StateShape
  <2> HIDE DEF t
  <2>3. (Single(s) => Single(t)) /\ t.out = s.out
    BY <2>2 DEF Single, Below, HasState
  <2> QED BY <1>2, <2>1, <2>2, <2>3 DEF Below
<1> QED BY <1>1, <1>2

\* Outcomes in the dialog.
LEMMA OutcomesMild ==
  ASSUME NEW s, Mild(s), s.dialog = "confirmed"
  PROVE  Outcomes(s) = {"live"}
BY DEF Outcomes, Mild

\* The handler with a BYE that is sent.
LEMMA ByeOngoing ==
  ASSUME NEW s \in SalType, NEW t \in SalType, Shown(s, "INVITE", "ok") \/ Shown(s, "INFO", "ok"),
         s.dialog = "confirmed", s.linked,
         t.faults = s.faults, t.dir = s.dir, t.dialog = s.dialog, t.linked = s.linked,
         t.event = s.event, t.later = s.later, t.released = s.released, t.asked = s.asked,
         t.app = "over", t.state # "terminated",
         DOMAIN t.out = DOMAIN s.out \cup {<<"BYE", "calling">>}
  PROVE  Ongoing(t)
<1>1. Fitting(t)
  <2>1. \A st \in TransactionState : HasState(t, "CANCEL", st) => HasState(s, "CANCEL", st)
    BY StateIs
  <2> QED BY <2>1 DEF Fitting, Shown
<1>2. InCourse(t, "BYE")
  BY CourseIs
<1> QED BY <1>1, <1>2 DEF Shown, Ongoing, Incoming, Outgoing, Dialogue, Mild

\* In a confirmed dialog.
LEMMA ConfirmedOngoing ==
  ASSUME NEW t \in SalType, NEW m \in Method \ {"CANCEL"}, NEW code \in Code,
         NEW hangup \in BOOLEAN, NEW built \in BOOLEAN,
         Shown(t, m, code), t.linked, t.dialog = "confirmed"
  PROVE  LET u == ConfirmedResponse(t, m, code, "live", hangup, built)
         IN  u \in SalType /\ Ongoing(u)
<1> DEFINE u == ConfirmedResponse(t, m, code, "live", hangup, built)
<1>0. Shown(t, "INFO", "ok")
  BY DEF Shown
<1>1. ASSUME t.state # "terminating"  PROVE Ongoing(t)
  BY <1>1 DEF Shown, Ongoing, HasCall, Fitting, Incoming, Outgoing, Dialogue
<1>2. CASE t.state = "terminating"
  <2>1. u = SendRequest(t, "BYE") /\ t.app = "over"
    BY <1>2 DEF ConfirmedResponse, Shown, HasCall
  <2> HIDE DEF u
  <2>2. u \in SalType /\ Close(t, u) /\ DOMAIN u.out = DOMAIN t.out \cup {<<"BYE", "calling">>}
    BY <2>1, SendShape DEF Method
  <2>3. Ongoing(u)
    BY <1>0, <1>2, <2>1, <2>2, ByeOngoing DEF Close, Kept, Steady
  <2> QED BY <2>2, <2>3 DEF u
<1>3. CASE t.state # "terminating" /\ m = "INVITE" /\ code = "ok" /\ built
  <2> DEFINE a == CallAcceptedBy(t, hangup)
             v == [a EXCEPT !.state = "active"]
  <2>1. u = v
    BY <1>3 DEF ConfirmedResponse
  <2>2. CASE hangup /\ t.app = "live"
    <3> DEFINE w == TerminateOp(t)
    <3>1. a = [w EXCEPT !.app = "over"]
      BY <2>2 DEF CallAcceptedBy
    <3>2. /\ w \in SalType /\ w.faults = t.faults /\ w.dir = t.dir /\ w.dialog = t.dialog
          /\ w.linked = t.linked /\ w.event = t.event /\ w.later = t.later
          /\ w.released = t.released /\ w.asked = t.asked
          /\ DOMAIN w.out = DOMAIN t.out \cup {<<"BYE", "calling">>}
      BY <2>2, TerminateConfirmed DEF Shown
    <3> HIDE DEF w, a
    <3>3. a \in SalType /\ Below(w, a) /\ a.linked = w.linked /\ a.released = w.released
          /\ a.app = "over"
      BY ZenonT(60), <3>1, <3>2 DEF SalType, Below
    <3>4. v \in SalType /\ Below(a, v) /\ v.linked = a.linked /\ v.released = a.released
          /\ v.app = a.app /\ v.state = "active"
      BY <3>3, StateShape
    <3> HIDE DEF v
    <3>5. Ongoing(v)
      BY ZenonT(60), <1>0, <3>2, <3>3, <3>4, ByeOngoing DEF Below
    <3> QED BY <2>1, <3>4, <3>5
  <2>3. CASE ~(hangup /\ t.app = "live")
    <3>1. a = t
      BY <2>3 DEF CallAcceptedBy
    <3>2. v \in SalType /\ Below(t, v) /\ v.linked = t.linked /\ v.released = t.released
          /\ v.app = t.app /\ v.state = "active"
      <4>1. v = [t EXCEPT !.state = "active"]
        BY <3>1
      <4> HIDE DEF v
      <4> QED BY <4>1, StateShape
    <3> HIDE DEF v
    <3>3. Ongoing(v)
      BY <1>1, <1>3, <3>2 DEF Shown, Ongoing, HasCall, Mild, Fitting, Incoming, Outgoing, Dialogue,
                              InCourse, HasState, Below
    <3> QED BY <2>1, <3>2, <3>3
  <2> QED BY <2>2, <2>3
<1>4. CASE t.state # "terminating" /\ m = "INVITE" /\ code = "ok" /\ ~built
  <2> DEFINE r == RefOp(t)
             v == [r EXCEPT !.lost = r.lost + 1]
  <2>1. u = v
    BY <1>4 DEF ConfirmedResponse
  <2>2. r \in SalType /\ Alike(t, r)
    BY RefAlike
  <2> HIDE DEF r
  <2>3. v \in SalType /\ Below(r, v) /\ v.linked = r.linked /\ v.released = r.released
        /\ v.app = r.app /\ v.state = r.state
    BY <2>2 DEF SalType, Below
  <2> HIDE DEF v
  <2>4. Below(t, v) /\ v.linked = t.linked /\ v.released = t.released
        /\ v.app = t.app /\ v.state = t.state
    BY <2>2, <2>3 DEF Alike, Below
  <2>5. Ongoing(v)
    BY <1>1, <1>4, <2>4 DEF Shown, Ongoing, HasCall, Mild, Fitting, Incoming, Outgoing, Dialogue,
                            InCourse, HasState, Below
  <2> QED BY <2>1, <2>3, <2>5
<1>5. CASE t.state # "terminating" /\ (m # "INVITE" \/ code # "ok")
  <2>1. Fails(t, "live") = t
    BY DEF Fails, Shown
  <2>2. u = t
    BY <1>5, <2>1 DEF ConfirmedResponse
  <2> QED BY <1>1, <1>5, <2>2
<1> QED BY <1>2, <1>3, <1>4, <1>5

\* The handler of a response keeps the call on its way.
LEMMA HandledOngoing ==
  ASSUME NEW s \in SalType, NEW m \in Method, NEW code \in Code, NEW outcome \in Outcomes(s),
         NEW hangup \in BOOLEAN, NEW built \in BOOLEAN, Shown(s, m, code)
  PROVE  Ongoing(ProcessResponse(s, m, code, outcome, hangup, built))
<1> DEFINE yes == m # "CANCEL" /\ s.dialog # "none"
           l == LinkDialog(s, yes)
           t == RefOp(l)
<1>1. PICK linked \in BOOLEAN : linked = yes
  OBVIOUS
<1> DEFINE e == [s EXCEPT !.linked = linked]
<1>2. l \in SalType /\ Alike(e, l)
  BY <1>1, LinkAlike
<1> HIDE DEF l
<1>3. t \in SalType /\ Alike(e, t)
  BY <1>2, RefAlike, AlikeTrans
<1> HIDE DEF t
<1>4. e.linked = linked /\ Below(s, e) /\ e.app = s.app /\ e.state = s.state
      /\ e.released = s.released
  BY DEF SalType, Below
<1> HIDE DEF e
<1>5. t.linked = linked /\ Below(s, t) /\ t.app = s.app /\ t.state = s.state
      /\ t.released = s.released
  BY <1>3, <1>4 DEF Alike, Below
<1>6. Shown(t, m, code)
  <2>1. Fitting(t)
    BY <1>1, <1>5 DEF Shown, Fitting, Below, HasState
  <2> QED BY <1>5, <2>1 DEF Shown, HasCall, Mild, InCourse, HasState, Below
<1>7. (t.linked <=> m # "CANCEL" /\ t.dialog # "none") /\ outcome \in FailureOutcome
  BY <1>1, <1>5 DEF Below, Outcomes, FailureOutcome
<1> DEFINE u == CASE ~t.linked \/ t.dialog \in {"null", "early"} -> EarlyResponse(t, m, code, outcome)
                  [] t.linked /\ t.dialog = "confirmed" ->
                       ConfirmedResponse(t, m, code, outcome, hangup, built)
                  [] t.linked /\ t.dialog = "terminated" ->
                       IF code \in {"ok"} \cup Provisional THEN t ELSE Fails(t, outcome)
<1>8. u \in SalType /\ Ongoing(u)
  <2> HIDE DEF u
  <2>1. CASE ~t.linked \/ t.dialog \in {"null", "early"}
    <3>1. u = EarlyResponse(t, m, code, outcome)
      BY <2>1 DEF u
    <3> QED BY <1>3, <1>6, <1>7, <2>1, <3>1, EarlyOngoing
  <2>2. CASE t.linked /\ t.dialog = "confirmed"
    <3>1. outcome = "live"
      BY ZenonT(60), <1>5, <2>2, OutcomesMild DEF Shown, Below
    <3>2. u = ConfirmedResponse(t, m, code, "live", hangup, built)
      BY <2>2, <3>1 DEF u
    <3>3. m # "CANCEL"
      BY <1>7, <2>2
    <3> QED BY <1>3, <1>6, <2>2, <3>2, <3>3, ConfirmedOngoing
  <2>3. CASE t.linked /\ t.dialog = "terminated"
    <3>1. u \in {t, Fails(t, outcome)}
      BY <2>3 DEF u
    <3>2. Fails(t, outcome) \in {t, CallOver(t), ReleaseOp(t)}
      BY <1>6, <1>7 DEF Fails, Shown, HasCall, FailureOutcome
    <3>3. Ongoing(t)
      BY <1>6, <2>3 DEF Shown, Ongoing, Incoming, Outgoing, Dialogue, Fitting
    <3>4. CallOver(t) \in SalType /\ Ongoing(CallOver(t))
      <4> DEFINE v == CallOver(t)
      <4>1. /\ v \in SalType /\ Below(t, v) /\ v.linked = t.linked /\ v.state = t.state
            /\ v.released = t.released
            /\ v.app = IF t.app = "live" THEN "over" ELSE t.app
        BY <1>3, OverShape
      <4> HIDE DEF v
      <4>2. Fitting(v)
        BY <1>6, <4>1 DEF Shown, HasCall, Fitting, HasState, Below
      <4>3. Ongoing(v)
        BY <1>6, <2>3, <4>1, <4>2 DEF Shown, HasCall, Ongoing, Incoming, Outgoing, Dialogue, Below
      <4> QED BY <4>1, <4>3 DEF v
    <3>5. ReleaseOp(t) \in SalType /\ Ongoing(ReleaseOp(t))
      BY <1>3, ReleaseShape DEF Ongoing, HasCall
    <3> QED BY <1>3, <3>1, <3>2, <3>3, <3>4, <3>5
  <2> QED BY <1>3, <1>7, <2>1, <2>2, <2>3 DEF SalType
<1>9. ProcessResponse(s, m, code, outcome, hangup, built) = UnrefOp(u)
  BY DEF ProcessResponse, t, l
<1> HIDE DEF u
<1> QED BY <1>8, <1>9, UnrefAlike, AlikeOngoing

\* The faults of an operation are those it was made with.
LEMMA TerminateKeeps ==
  ASSUME NEW s \in SalType, s.state # "terminating", s.dir \in {"in", "out"}
  PROVE  TerminateOp(s) \in SalType /\ TerminateOp(s).faults = s.faults
<1>1. CASE s.state = "terminated" \/ DialogOf(s) = "terminated"
  <2>1. TerminateOp(s) = s
    BY <1>1 DEF TerminateOp
  <2> QED BY <2>1
<1>2. CASE s.state # "terminated" /\ DialogOf(s) = "confirmed"
  <2>1. s.linked /\ s.dialog = "confirmed" /\ s.state \in {"early", "active"}
    BY <1>2 DEF DialogOf, SalType
  <2> QED BY <2>1, TerminateConfirmed
<1>3. CASE s.state # "terminated" /\ DialogOf(s) \notin {"confirmed", "terminated"}
  <2>1. s.state \in {"early", "active"}
    BY <1>3 DEF SalType
  <2>2. DeclineInvite(s).faults = s.faults
    BY DeclineShape DEF Steady
  <2> QED BY <1>3, <2>1, <2>2, TerminateIncoming, TerminateOutgoing DEF Below
<1> QED BY <1>1, <1>2, <1>3

\* call_failure() of the core.
LEMMA FailsKeeps ==
  ASSUME NEW s \in SalType, HasCall(s), NEW outcome \in FailureOutcome
  PROVE  /\ Fails(s, outcome) \in SalType /\ Fails(s, outcome).faults = s.faults
         /\ Fails(s, outcome).linked = s.linked
<1>1. Fails(s, outcome) \in {s, CallOver(s), ReleaseOp(s)}
  BY DEF Fails, HasCall, FailureOutcome
<1> QED BY <1>1, OverShape, ReleaseShape DEF Below

\* call_process_response() without a confirmed dialog.
LEMMA EarlyKeeps ==
  ASSUME NEW s \in SalType, HasCall(s), NEW m, NEW code, NEW outcome \in FailureOutcome
  PROVE  LET u == EarlyResponse(s, m, code, outcome)
         IN  u \in SalType /\ u.faults = s.faults
<1> DEFINE f == Fails(s, outcome)
           u == EarlyResponse(s, m, code, outcome)
<1>1. u \in {s, CancellingInvite(s), CallSetReleased(s), f, CallSetReleased(f)}
  BY DEF EarlyResponse
<1>2. f \in SalType /\ f.faults = s.faults
  BY FailsKeeps
<1> HIDE DEF f, u
<1>3. CallSetReleased(f) \in SalType /\ CallSetReleased(f).faults = s.faults
  BY <1>2, ReleasedShape DEF Below
<1>4. CallSetReleased(s) \in SalType /\ CallSetReleased(s).faults = s.faults
  BY ReleasedShape DEF Below
<1>5. CancellingInvite(s) \in SalType /\ CancellingInvite(s).faults = s.faults
  BY CancellingShape
<1> QED BY <1>1, <1>2, <1>3, <1>4, <1>5 DEF u

\* call_process_response() in a confirmed dialog.
LEMMA ConfirmedKeeps ==
  ASSUME NEW s \in SalType, HasCall(s), s.state # "terminated", s.dir \in {"in", "out"},
         NEW m, NEW code, NEW outcome \in FailureOutcome, NEW hangup, NEW built
  PROVE  LET u == ConfirmedResponse(s, m, code, outcome, hangup, built)
         IN  u \in SalType /\ u.faults = s.faults
<1> DEFINE u == ConfirmedResponse(s, m, code, outcome, hangup, built)
           a == CallAcceptedBy(s, hangup)
           v == [a EXCEPT !.state = "active"]
           r == RefOp(s)
           w == [r EXCEPT !.lost = @ + 1]
           f == Fails(s, outcome)
           x == SendRequest(s, "BYE")
<1>1. x \in SalType /\ x.faults = s.faults
  BY SendShape DEF Close, Kept, Steady, Method
<1>2. f \in SalType /\ f.faults = s.faults
  BY FailsKeeps
<1>3. r \in SalType /\ r.faults = s.faults
  BY RefAlike DEF Alike
<1>4. w \in SalType /\ w.faults = s.faults
  <2> HIDE DEF r
  <2> QED BY <1>3 DEF SalType
<1>5. u = x \/ u = f \/ u = w \/ u = s \/ (u = v /\ s.state # "terminating")
  BY DEF ConfirmedResponse
<1>6. ASSUME s.state # "terminating"  PROVE a \in SalType /\ a.faults = s.faults
  <2>1. CASE hangup /\ s.app = "live"
    <3> DEFINE y == TerminateOp(s)
    <3>1. y \in SalType /\ y.faults = s.faults
      BY <1>6, TerminateKeeps
    <3>2. a = [y EXCEPT !.app = "over"]
      BY <2>1 DEF CallAcceptedBy
    <3> HIDE DEF y, a
    <3> QED BY <3>1, <3>2 DEF SalType
  <2>2. CASE ~(hangup /\ s.app = "live")
    BY <2>2 DEF CallAcceptedBy
  <2> QED BY <2>1, <2>2
<1>7. ASSUME s.state # "terminating"  PROVE v \in SalType /\ v.faults = s.faults
  <2> HIDE DEF a
  <2> QED BY <1>6, <1>7, StateShape DEF Below
<1> HIDE DEF u, v, w, x, f
<1> QED BY <1>1, <1>2, <1>4, <1>5, <1>7 DEF u

\* call_process_response().
LEMMA ProcessKeeps ==
  ASSUME NEW s \in SalType, HasCall(s), s.state # "terminated", s.dir \in {"in", "out"},
         NEW m \in Method, NEW code \in Code, NEW outcome \in FailureOutcome,
         NEW hangup \in BOOLEAN, NEW built \in BOOLEAN
  PROVE  LET t == ProcessResponse(s, m, code, outcome, hangup, built)
         IN  t \in SalType /\ t.faults = s.faults
<1> DEFINE yes == m # "CANCEL" /\ s.dialog # "none"
           l == LinkDialog(s, yes)
           t == RefOp(l)
<1>1. PICK linked \in BOOLEAN : linked = yes
  OBVIOUS
<1> DEFINE e == [s EXCEPT !.linked = linked]
<1>2. l \in SalType /\ Alike(e, l)
  BY <1>1, LinkAlike
<1> HIDE DEF l
<1>3. t \in SalType /\ Alike(e, t)
  BY <1>2, RefAlike, AlikeTrans
<1> HIDE DEF t
<1>4. /\ t.faults = s.faults /\ t.app = s.app /\ t.state = s.state /\ t.dir = s.dir
      /\ t.linked = linked /\ t.dialog = s.dialog
  BY <1>3 DEF Alike, SalType
<1> DEFINE u == CASE ~t.linked \/ t.dialog \in {"null", "early"} -> EarlyResponse(t, m, code, outcome)
                  [] t.linked /\ t.dialog = "confirmed" ->
                       ConfirmedResponse(t, m, code, outcome, hangup, built)
                  [] t.linked /\ t.dialog = "terminated" ->
                       IF code \in {"ok"} \cup Provisional THEN t ELSE Fails(t, outcome)
<1>5. ProcessResponse(s, m, code, outcome, hangup, built) = UnrefOp(u)
  BY DEF ProcessResponse, t, l
<1>6. \/ u = EarlyResponse(t, m, code, outcome)
      \/ u = ConfirmedResponse(t, m, code, outcome, hangup, built)
      \/ u = t \/ u = Fails(t, outcome)
  BY <1>1, <1>3, <1>4 DEF SalType
<1>7. HasCall(t)
  BY <1>4 DEF HasCall
<1> HIDE DEF u
<1>8. u \in SalType /\ u.faults = t.faults
  BY <1>3, <1>4, <1>6, <1>7, EarlyKeeps, ConfirmedKeeps, FailsKeeps
<1> QED BY <1>4, <1>5, <1>8, UnrefAlike DEF Alike

\* A challenge.
LEMMA ChallengedKeeps ==
  ASSUME NEW s \in SalType, HasCall(s), s.state # "terminated", s.dir \in {"in", "out"},
         NEW m \in Method, NEW outcome \in FailureOutcome,
         NEW hangup \in BOOLEAN, NEW t \in Challenged(s, m, outcome, hangup)
  PROVE  t \in SalType /\ t.faults = s.faults
<1> DEFINE p == ProcessResponse(s, m, "challenge", outcome, hangup, TRUE)
           a == [s EXCEPT !.asked = m]
<1>1. t \in {p, SendRequest(s, m), a}
  BY DEF Challenged
<1>2. p \in SalType /\ p.faults = s.faults
  <2>1. "challenge" \in Code /\ TRUE \in BOOLEAN
    BY DEF Code
  <2> QED BY ZenonT(60), <2>1, ProcessKeeps
<1>3. a \in SalType /\ a.faults = s.faults
  BY DEF SalType, Method
<1>4. SendRequest(s, m) \in SalType /\ SendRequest(s, m).faults = s.faults
  BY SendShape DEF Close, Kept, Steady
<1> HIDE DEF p, a
<1> QED BY <1>1, <1>2, <1>3, <1>4

\* The responses that come.
Answers(m, code) ==
  \/ /\ m = "INVITE"
     /\ code = "ringing" => sal.dialog \in {"none", "early"}
     /\ code = "gone" => sal.dialog = "confirmed"
     /\ code = "challenge" => sal.dialog \in {"none", "confirmed"}
  \/ m = "BYE" /\ code \in {"ok", "error", "challenge"}
  \/ m \in {"CANCEL", "INFO"} /\ code \in {"ok", "error"}

\* An operation with something under way is one of a call, or is terminated.
LEMMA BusyHasCall ==
  ASSUME IInv, DOMAIN sal.out # {}
  PROVE  sal \in SalType /\ Sound(sal) /\ (HasCall(sal) \/ sal.state = "terminated")
BY DEF IInv, Counted, Untouched, Pointed, Sound, Stray

\* The transaction and the dialog, when a response comes.
LEMMA ProgressShape ==
  ASSUME NEW s \in SalType, NEW m \in Method, NEW from, HasState(s, m, from),
         NEW to \in TransactionState, NEW d \in DialogState
  PROVE  LET t == DialogBecomes(Entering(Leaving(s, m, from), m, to), d)
         IN  /\ t \in SalType /\ Steady(s, t) /\ t.pending = s.pending
             /\ t.invite = s.invite /\ t.released = s.released
             /\ <<m, to>> \in DOMAIN t.out
             /\ DOMAIN t.out \subseteq DOMAIN s.out \cup {<<m, to>>}
             /\ DOMAIN s.out \ {<<m, from>>} \subseteq DOMAIN t.out
             /\ s.dialog \in {d, "terminated"} =>
                  t.dialog = s.dialog /\ t.last = s.last /\ t.event = s.event
             /\ s.dialog \notin {d, "terminated"} =>
                  t.dialog = d /\ t.last = s.dialog /\ (t.event <=> d = "terminated")
             /\ Single(s) /\ (m # "INVITE" \/ from \in {"calling", "proceeding"}) => Single(t)
             /\ Single(s) /\ m = "INVITE" /\ from \in {"calling", "proceeding"}
                  /\ to \notin {"calling", "proceeding"} => ~InCourse(t, "INVITE")
<1> DEFINE l == Leaving(s, m, from)
           e == Entering(l, m, to)
           t == DialogBecomes(e, d)
<1>1. /\ l \in SalType /\ Close(s, l) /\ l.pending = s.pending
      /\ DOMAIN l.out \subseteq DOMAIN s.out
      /\ DOMAIN s.out \ {<<m, from>>} \subseteq DOMAIN l.out
      /\ Single(s) => Single(l)
      /\ Single(s) /\ m = "INVITE" /\ from \in {"calling", "proceeding"} => ~InCourse(l, "INVITE")
  BY LeavingShape
<1> HIDE DEF l
<1>2. /\ e \in SalType /\ Close(l, e) /\ e.pending = l.pending
      /\ DOMAIN e.out = DOMAIN l.out \cup {<<m, to>>}
      /\ Single(l) /\ (m # "INVITE" \/ to \notin {"calling", "proceeding"} \/ ~InCourse(l, "INVITE"))
            => Single(e)
  BY <1>1, EnteringShape
<1> HIDE DEF e
<1>3. /\ t \in SalType /\ Steady(e, t) /\ t.out = e.out /\ t.pending = e.pending
      /\ t.invite = e.invite /\ t.released = e.released
      /\ e.dialog \in {d, "terminated"} => t = e
      /\ e.dialog \notin {d, "terminated"} =>
           t.dialog = d /\ t.last = e.dialog /\ (t.event <=> d = "terminated")
  BY <1>2, DialogShape
<1> HIDE DEF t
<1>4. Steady(s, t) /\ t.invite = s.invite /\ t.released = s.released /\ t.pending = s.pending
      /\ e.dialog = s.dialog /\ e.last = s.last /\ e.event = s.event
  BY <1>1, <1>2, <1>3 DEF Close, Kept, Steady
<1>5. ASSUME Single(s), m # "INVITE" \/ from \in {"calling", "proceeding"}  PROVE Single(t)
  <2>1. Single(e)
    BY <1>1, <1>2, <1>5
  <2> QED BY <1>3, <2>1 DEF Single, HasState
<1>6. ASSUME Single(s), m = "INVITE", from \in {"calling", "proceeding"},
             to \notin {"calling", "proceeding"}
      PROVE  ~InCourse(t, "INVITE")
  <2>1. ~InCourse(l, "INVITE")
    BY <1>1, <1>6
  <2>2. DOMAIN t.out = DOMAIN l.out \cup {<<m, to>>}
    BY <1>2, <1>3
  <2> HIDE DEF t, l
  <2>3. \A st \in {"calling", "proceeding"} : <<"INVITE", st>> \notin DOMAIN l.out
    BY <2>1, CourseIs
  <2> QED BY <1>6, <2>2, <2>3, CourseIs
<1>7. t.out = e.out
  BY <1>3
<1>8. s.dialog \in {d, "terminated"} =>
        t.dialog = s.dialog /\ t.last = s.last /\ t.event = s.event
  BY <1>3, <1>4
<1>9. s.dialog \notin {d, "terminated"} =>
           t.dialog = d /\ t.last = s.dialog /\ (t.event <=> d = "terminated")
  BY <1>3, <1>4
<1> QED BY <1>1, <1>2, <1>3, <1>4, <1>5, <1>6, <1>7, <1>8, <1>9 DEF t, e, l

\* What the end of each step is.
Goes == Ongoing(sal)'

\* A response.
LEMMA ResponseOngoing ==
  ASSUME IInv, Ongoing(sal), sal.event => "burst" \in sal.faults,
         NEW m \in Method, NEW code \in Code, Answers(m, code), Response(m, code)
  PROVE  Goes
<1> DEFINE to == CASE code \in Provisional                  -> "proceeding"
                   [] code = "challenge" /\ m = "BYE"        -> "challenged"
                   [] OTHER                                 -> "ended"
           d == DialogAfter(sal, m, code)
<1>1. PICK from \in {"calling", "proceeding"} :
        /\ HasState(sal, m, from)
        /\ LET s == DialogBecomes(Entering(Leaving(sal, m, from), m, to), d)
           IN  IF s.state = "terminated" THEN sal' = s
               ELSE \E outcome \in Outcomes(s), hangup \in BOOLEAN :
                      IF code = "challenge"
                      THEN sal' \in Challenged(s, m, outcome, hangup)
                      ELSE \E built \in IF "noack" \in s.faults THEN BOOLEAN ELSE {TRUE} :
                             sal' = ProcessResponse(s, m, code, outcome, hangup, built)
  BY DEF Response
<1> DEFINE s == DialogBecomes(Entering(Leaving(sal, m, from), m, to), d)
<1>2. <<m, from>> \in DOMAIN sal.out
  BY <1>1, StateIs
<1>3. sal \in SalType /\ Sound(sal) /\ (HasCall(sal) \/ sal.state = "terminated")
  BY <1>2, BusyHasCall
<1>4. /\ to \in {"proceeding", "challenged", "ended"}
      /\ to = "proceeding" <=> code \in Provisional
      /\ to = "challenged" <=> code = "challenge" /\ m = "BYE"
  BY DEF Provisional
<1>5. /\ d \in DialogState
      /\ m = "INVITE" /\ code = "ringing" /\ sal.dialog = "none" => d = "early"
      /\ m = "INVITE" /\ code = "ok" => d = "confirmed"
      /\ m = "INVITE" /\ code = "error" /\ sal.dialog = "early" => d = "terminated"
      /\ m = "INVITE" /\ code = "gone" => d = "terminated"
      /\ m = "BYE" /\ code \in {"ok", "error"} => d = "terminated"
      /\ \/ m = "INVITE" /\ code = "ringing" /\ sal.dialog = "none"
         \/ m = "INVITE" /\ code = "ok"
         \/ m = "INVITE" /\ code = "error" /\ sal.dialog = "early"
         \/ m = "INVITE" /\ code = "gone"
         \/ m = "BYE" /\ code \in {"ok", "error"}
         \/ d = sal.dialog
  BY <1>3 DEF DialogAfter, DialogState, SalType
<1> HIDE DEF to, d
<1>6. /\ s \in SalType /\ Steady(sal, s) /\ s.pending = sal.pending
      /\ s.invite = sal.invite /\ s.released = sal.released
      /\ <<m, to>> \in DOMAIN s.out
      /\ DOMAIN s.out \subseteq DOMAIN sal.out \cup {<<m, to>>}
      /\ DOMAIN sal.out \ {<<m, from>>} \subseteq DOMAIN s.out
      /\ sal.dialog \in {d, "terminated"} =>
           s.dialog = sal.dialog /\ s.last = sal.last /\ s.event = sal.event
      /\ sal.dialog \notin {d, "terminated"} =>
           s.dialog = d /\ s.last = sal.dialog /\ (s.event <=> d = "terminated")
  <2>1. HasState(sal, m, from) /\ to \in TransactionState /\ sal \in SalType /\ d \in DialogState
    BY <1>1, <1>3, <1>4, <1>5 DEF TransactionState
  <2> QED BY <2>1, ProgressShape
<1> HIDE DEF s
<1>7. CASE s.state = "terminated"
  <2>1. sal' = s
    BY <1>1, <1>7 DEF s
  <2>2. ASSUME HasCall(sal), Mild(sal)  PROVE Ongoing(s)
    <3>1. sal.state = "terminated" /\ sal.dialog = "terminated"
      BY <1>6, <1>7, <2>2 DEF Steady, Ongoing, Dialogue
    <3>2. s.dialog = "terminated" /\ s.event = sal.event
      BY <1>6, <3>1
    <3>3. Fitting(s)
      <4>1. ASSUME NEW st \in TransactionState, HasState(s, "CANCEL", st)
            PROVE  s.app = "over" /\ s.dir = "out"
        BY <1>2, <1>6, <2>2, <4>1, StateIs DEF Ongoing, Fitting, Steady, TransactionState
      <4> QED BY <3>2, <4>1 DEF Fitting
    <3> QED BY <1>3, <1>6, <1>7, <2>2, <3>1, <3>2, <3>3
            DEF Ongoing, Incoming, Outgoing, Dialogue, Steady, HasCall
  <2> QED BY <1>6, <2>1, <2>2 DEF Goes, Ongoing, HasCall, Mild, Steady
<1>8. s.state # "terminated" =>
        \E outcome \in Outcomes(s), hangup \in BOOLEAN :
          IF code = "challenge"
          THEN sal' \in Challenged(s, m, outcome, hangup)
          ELSE \E built \in BOOLEAN :
                 sal' = ProcessResponse(s, m, code, outcome, hangup, built)
  BY <1>1 DEF s
<1>9. CASE s.state # "terminated" /\ ~Mild(sal)
  <2>1. HasCall(s) /\ ~Mild(s) /\ s.dir \in {"in", "out"}
    BY <1>3, <1>6, <1>9 DEF Steady, HasCall, Mild, Sound, SalType
  <2>2. PICK outcome \in Outcomes(s), hangup \in BOOLEAN :
          IF code = "challenge"
          THEN sal' \in Challenged(s, m, outcome, hangup)
          ELSE \E built \in BOOLEAN :
                 sal' = ProcessResponse(s, m, code, outcome, hangup, built)
    BY <1>8, <1>9
  <2>3. outcome \in FailureOutcome
    BY DEF Outcomes, FailureOutcome
  <2>4. sal'.faults = s.faults
    BY <1>6, <1>9, <2>1, <2>2, <2>3, ChallengedKeeps, ProcessKeeps
  <2> QED BY <2>1, <2>4 DEF Goes, Ongoing, Mild
<1>10. CASE s.state # "terminated" /\ Mild(sal)
  <2>1. HasCall(s) /\ HasCall(sal) /\ Mild(s) /\ Ongoing(sal) /\ ~sal.event /\ Mild(sal)
    BY <1>3, <1>6, <1>10 DEF Steady, HasCall, Mild
  <2>2. /\ sal.asked = "none" /\ ~sal.released /\ Fitting(sal) /\ Incoming(sal)
        /\ Outgoing(sal) /\ Dialogue(sal)
    BY <2>1 DEF Ongoing
  <2>3. HasState(sal, m, from) /\ from \in TransactionState
    BY <1>1 DEF TransactionState
  <2>4. m = "CANCEL" => s.app = "over" /\ s.dir = "out"
    BY <1>6, <2>2, <2>3 DEF Fitting, Steady
  <2>5. Fitting(s)
    <3>1. ASSUME NEW st \in TransactionState, HasState(s, "CANCEL", st)
          PROVE  s.app = "over" /\ s.dir = "out"
      BY <1>6, <2>2, <2>4, <3>1, StateIs DEF Fitting, Steady
    <3>2. ASSUME NEW st \in TransactionState, HasState(s, "BYE", st)
          PROVE  s.dialog \in {"confirmed", "terminated"}
      <4>1. sal.dialog \in {"confirmed", "terminated"}
        BY <1>6, <2>2, <2>3, <3>2, StateIs DEF Fitting
      <4> QED BY <1>5, <1>6, <4>1
    <3>3. (s.event => s.dialog = "terminated") /\ (s.linked => s.dialog # "none")
      BY <1>5, <1>6, <2>1, <2>2 DEF Fitting, Steady
    <3> QED BY <3>1, <3>2, <3>3 DEF Fitting
  <2>6. /\ InCourse(sal, "INVITE") /\ m # "INVITE" => InCourse(s, "INVITE")
        /\ InCourse(sal, "BYE") /\ m # "BYE" => InCourse(s, "BYE")
        /\ HasState(sal, "INVITE", "calling") /\ m # "INVITE" => HasState(s, "INVITE", "calling")
        /\ InCourse(s, "INVITE") /\ m # "INVITE" => InCourse(sal, "INVITE")
    BY <1>6, StateIs, CourseIs
  <2>7. m = "INVITE" /\ code \in Provisional =>
          HasState(s, "INVITE", "proceeding") /\ InCourse(s, "INVITE")
    BY <1>4, <1>6, StateIs, CourseIs
  <2>8. m = "BYE" => sal.dialog \in {"confirmed", "terminated"} /\ s.dialog \in {"confirmed", "terminated"}
    BY <1>5, <1>6, <2>2, <2>3 DEF Fitting
  <2>9. sal.dialog \in {"null", "early"} /\ sal.dir = "in" => m # "INVITE"
    BY <1>1, <2>2 DEF Incoming, InCourse
  <2>10. CASE code = "challenge" /\ (s.state # "terminating" \/ m = "BYE")
    <3>1. sal' = SendRequest(s, m)
      BY <1>8, <1>10, <2>1, <2>10 DEF Challenged, Mild
    <3>2. sal' \in SalType /\ Close(s, sal') /\ sal'.pending = m
          /\ DOMAIN sal'.out = DOMAIN s.out \cup {<<m, "calling">>}
      BY <1>6, <3>1, SendShape
    <3>3. m \in {"INVITE", "BYE"} /\ s.dialog = sal.dialog
      BY <1>5, <1>6, <2>10 DEF Answers
    <3>4. InCourse(sal', m) /\ HasState(sal', m, "calling")
      BY <3>2, StateIs, CourseIs
    <3>5. Fitting(sal')
      BY <2>5, <2>8, <3>2, <3>3, StateIs DEF Fitting, Close, Kept, Steady
    <3>6. Incoming(sal') /\ Outgoing(sal')
      BY <1>6, <2>2, <2>6, <2>8, <2>9, <3>2, <3>3, <3>4 DEF Incoming, Outgoing, Close, Kept, Steady
    <3>7. Dialogue(sal')
      <4>1. sal'.app = "over" /\ sal'.dialog = "confirmed" => InCourse(sal', "BYE")
        BY <1>6, <2>2, <2>6, <3>2, <3>3, <3>4, CourseIs DEF Dialogue, Close, Kept, Steady
      <4> QED BY <1>6, <2>1, <2>2, <3>2, <3>3, <4>1 DEF Dialogue, Close, Kept, Steady
    <3> QED BY <1>6, <2>2, <3>2, <3>5, <3>6, <3>7 DEF Goes, Ongoing, Close, Kept, Steady
  <2>11. CASE ~(code = "challenge" /\ (s.state # "terminating" \/ m = "BYE"))
    <3>1. Shown(s, m, code)
      <4>1. HasCall(s) /\ Mild(s) /\ s.state # "terminated" /\ s.asked = "none" /\ ~s.released
            /\ s.dir \in {"in", "out"}
        BY <1>3, <1>6, <1>10, <2>1, <2>2 DEF Steady, Sound, SalType
      <4>2. s.app = "live" => s.state \in {"early", "active"}
        BY <1>6, <2>2 DEF Dialogue, Steady
      <4>3. s.app = "over" /\ s.dialog = "confirmed" =>
              InCourse(s, "BYE") \/ (s.state = "terminating" /\ m # "CANCEL")
        <5>1. CASE sal.dialog = "confirmed"
          <6>1. m = "BYE" => s.dialog = "terminated"
            BY <1>5, <1>6, <2>11, <5>1 DEF Answers
          <6>2. s.app = "over" => InCourse(sal, "BYE")
            BY <1>6, <2>2, <5>1 DEF Dialogue, Steady
          <6> QED BY <2>6, <6>1, <6>2
        <5>2. CASE sal.dialog # "confirmed" /\ s.dialog = "confirmed"
          <6>1. m = "INVITE" /\ sal.dialog \in {"none", "null", "early"}
            BY <1>3, <1>5, <1>6, <5>2 DEF SalType
          <6> QED BY <1>3, <1>6, <2>2, <2>9, <6>1 DEF Outgoing, Incoming, Steady, Sound, SalType
        <5> QED BY <5>1, <5>2
      <4>4. s.dialog = "terminated" => s.later \/ (s.event /\ m # "CANCEL")
        BY <1>5, <1>6, <2>1, <2>2 DEF Dialogue, Steady, SalType
      <4>5. s.dir = "in" =>
         /\ s.dialog # "none"
         /\ s.dialog \in {"null", "early"} =>
              s.app = "live" /\ s.invite = "open" /\ ~InCourse(s, "INVITE") /\ m # "INVITE"
        BY <1>5, <1>6, <2>2, <2>6, <2>9 DEF Incoming, Steady
      <4>6. s.dir = "out" =>
         /\ s.dialog # "null"
         /\ s.dialog \in {"none", "early"} /\ (m # "INVITE" \/ code \in Provisional) =>
              /\ InCourse(s, "INVITE") /\ s.pending \in {"INVITE", "CANCEL"}
              /\ s.app = "live" => s.pending = "INVITE"
              /\ s.app = "over" => s.state = "terminating"
              /\ m = "INVITE" => HasState(s, "INVITE", "proceeding")
              /\ m # "INVITE" /\ s.app = "over" =>
                   HasState(s, "INVITE", "calling") \/ s.pending = "CANCEL"
        <5>1. s.dialog \in {"none", "early"} => sal.dialog \in {"none", "early"}
          BY <1>3, <1>5, <1>6 DEF SalType
        <5> QED BY <1>5, <1>6, <2>2, <2>6, <2>7, <5>1 DEF Outgoing, Steady
      <4>7. m = "INVITE" /\ s.dialog = "early" => code \in Provisional
        BY <1>3, <1>5, <1>6 DEF Answers, Provisional, SalType, Code
      <4> QED BY <2>4, <2>5, <4>1, <4>2, <4>3, <4>4, <4>5, <4>6, <4>7 DEF Shown
    <3>2. PICK outcome \in Outcomes(s), hangup \in BOOLEAN, built \in BOOLEAN :
            sal' = ProcessResponse(s, m, code, outcome, hangup, built)
      BY <1>8, <1>10, <2>11 DEF Challenged
    <3> QED BY <1>6, <3>1, <3>2, HandledOngoing DEF Goes
  <2> QED BY <2>10, <2>11
<1> QED BY <1>7, <1>9, <1>10

\* A message is read with the end of a dialog untold only where the stack does so.
Calm == sal.event => "burst" \in sal.faults

\* Before the call nothing was released.
Fresh == sal.dir = "none" => ~sal.released

\* The release of an operation ends its way.
LEMMA ReleasedOngoing ==
  ASSUME NEW s \in SalType, Ongoing(s)
  PROVE  CallSetReleased(s) \in SalType /\ Ongoing(CallSetReleased(s))
<1> DEFINE t == CallSetReleased(s)
<1>1. /\ t \in SalType /\ Below(s, t)
      /\ s.released => Alike(s, t)
      /\ ~s.released => /\ t.app = (IF HasCall(s) THEN "gone" ELSE s.app)
                        /\ t.state = "terminated" /\ ~t.linked /\ t.released
  BY ReleasedShape
<1> HIDE DEF t
<1>2. CASE s.released
  BY <1>1, <1>2, AlikeOngoing DEF t
<1>3. CASE ~s.released
  BY <1>1, <1>3 DEF Ongoing, HasCall, t
<1> QED BY <1>2, <1>3

\* call_process_transaction_terminated()
LEMMA AfterOngoing ==
  ASSUME NEW s \in SalType, Ongoing(s), NEW b \in BOOLEAN
  PROVE  Ongoing(AfterTransaction(s, b))
<1> DEFINE u == IF s.state = "terminating" /\ b /\ ~s.linked THEN CallSetReleased(s) ELSE s
<1>1. u \in SalType /\ Ongoing(u)
  BY ReleasedOngoing
<1>2. AfterTransaction(s, b) = UnrefOp(u)
  BY DEF AfterTransaction
<1> HIDE DEF u
<1> QED BY <1>1, <1>2, UnrefAlike, AlikeOngoing

\* What leaves the INVITE, BYE and CANCEL in course as they are.
LEMMA CloseOngoing ==
  ASSUME NEW s, NEW t, Close(s, t), t.pending = s.pending, Ongoing(s),
         \A m \in {"INVITE", "BYE"} : InCourse(t, m) <=> InCourse(s, m),
         HasState(s, "INVITE", "calling") => HasState(t, "INVITE", "calling"),
         \A m \in {"BYE", "CANCEL"}, st \in TransactionState : HasState(t, m, st) => HasState(s, m, st)
  PROVE  Ongoing(t)
BY DEF Close, Kept, Steady, Ongoing, HasCall, Mild, Fitting, Incoming, Outgoing, Dialogue

\* The end of a transaction.
LEMMA TransactionEndsOngoing ==
  ASSUME IInv, Ongoing(sal), NEW m \in Method, NEW st, TransactionEnds(m, st)
  PROVE  Goes
<1> DEFINE l == Leaving(sal, m, st)
           b == m = "BYE" /\ st = "ended"
<1>1. HasState(sal, m, st) /\ st \in {"ended", "challenged"} /\ sal' = AfterTransaction(l, b)
  BY DEF TransactionEnds
<1>2. sal \in SalType
  BY DEF IInv, Counted
<1>3. /\ l \in SalType /\ Close(sal, l) /\ l.pending = sal.pending
      /\ DOMAIN l.out \subseteq DOMAIN sal.out
      /\ DOMAIN sal.out \ {<<m, st>>} \subseteq DOMAIN l.out
  BY <1>1, <1>2, LeavingShape
<1> HIDE DEF l, b
<1>4. Ongoing(l)
  <2>1. \A n \in {"INVITE", "BYE"} : InCourse(l, n) <=> InCourse(sal, n)
    BY <1>1, <1>3, CourseIs
  <2>2. HasState(sal, "INVITE", "calling") => HasState(l, "INVITE", "calling")
    BY <1>1, <1>3, StateIs
  <2>3. \A n \in {"BYE", "CANCEL"}, x \in TransactionState : HasState(l, n, x) => HasState(sal, n, x)
    BY <1>3, StateIs
  <2> QED BY <1>3, <2>1, <2>2, <2>3, CloseOngoing
<1>5. b \in BOOLEAN
  BY DEF b
<1> QED BY <1>1, <1>3, <1>4, <1>5, AfterOngoing DEF Goes

\* The end of a transaction of the far end.
LEMMA ServerEndsOngoing ==
  ASSUME IInv, Ongoing(sal), ServerTransactionEnds
  PROVE  Goes
<1>1. sal \in SalType
  BY DEF IInv, Counted
<1>2. ASSUME NEW s \in SalType, s.faults = sal.faults, s.dir = sal.dir, s.state = sal.state,
             s.app = sal.app, s.linked = sal.linked, s.later = sal.later, s.asked = sal.asked,
             s.dialog = sal.dialog, s.event = sal.event, s.released = sal.released,
             s.out = sal.out, s.pending = sal.pending, sal.invite = "open" => s.invite = "open"
      PROVE  Ongoing(s)
  BY <1>2 DEF Ongoing, HasCall, Mild, Fitting, Incoming, Outgoing, Dialogue, InCourse, HasState
<1>3. CASE sal.invite = "answered" /\ sal' = AfterTransaction([sal EXCEPT !.invite = "none"], FALSE)
  <2> DEFINE s == [sal EXCEPT !.invite = "none"]
  <2>1. s \in SalType /\ Ongoing(s)
    BY <1>1, <1>2, <1>3 DEF SalType
  <2>2. sal' = AfterTransaction(s, FALSE)
    BY <1>3
  <2> HIDE DEF s
  <2> QED BY <2>1, <2>2, AfterOngoing DEF Goes
<1>4. CASE sal.servers > 0 /\ sal' = AfterTransaction([sal EXCEPT !.servers = @ - 1], FALSE)
  <2> DEFINE s == [sal EXCEPT !.servers = sal.servers - 1]
  <2>1. sal.servers - 1 \in Nat
    BY <1>1, <1>4 DEF SalType
  <2>2. s \in SalType /\ Ongoing(s)
    BY <1>1, <1>2, <2>1 DEF SalType
  <2>3. sal' = AfterTransaction(s, FALSE)
    BY <1>4
  <2> HIDE DEF s
  <2> QED BY <2>2, <2>3, AfterOngoing DEF Goes
<1>5. CASE sal.bye /\ sal' = AfterTransaction([sal EXCEPT !.bye = FALSE], TRUE)
  <2> DEFINE s == [sal EXCEPT !.bye = FALSE]
  <2>1. s \in SalType /\ Ongoing(s)
    BY ZenonT(60), <1>1, <1>2 DEF SalType
  <2>2. sal' = AfterTransaction(s, TRUE)
    BY <1>5
  <2> HIDE DEF s
  <2> QED BY <2>1, <2>2, AfterOngoing DEF Goes
<1> QED BY <1>3, <1>4, <1>5 DEF ServerTransactionEnds

\* A request that is not answered: the stack ends the dialog, or the call is released.
LEMMA GivesUpOngoing ==
  ASSUME IInv, Ongoing(sal), NEW m \in Method, GivesUp(m)
  PROVE  Goes
<1> DEFINE l == Leaving(sal, m, "calling")
           s == Entering(l, m, "ended")
           e == IF s.dialog = "none" THEN s ELSE DialogBecomes(s, "terminated")
<1>1. HasState(sal, m, "calling")
      /\ sal' = IF s.state = "terminated" \/ s.linked THEN e ELSE CallSetReleased(Fails(e, "over"))
  BY DEF GivesUp
<1>2. sal \in SalType /\ Sound(sal) /\ (HasCall(sal) \/ sal.state = "terminated")
  BY <1>1, StateIs, BusyHasCall
<1>3. /\ l \in SalType /\ Close(sal, l) /\ l.pending = sal.pending
      /\ DOMAIN l.out \subseteq DOMAIN sal.out
  BY <1>1, <1>2, LeavingShape
<1> HIDE DEF l
<1>4. "ended" \in TransactionState /\ "terminated" \in DialogState
  BY DEF TransactionState, DialogState
<1>5. /\ s \in SalType /\ Close(l, s) /\ s.pending = l.pending
      /\ DOMAIN s.out = DOMAIN l.out \cup {<<m, "ended">>}
  BY <1>3, <1>4, EnteringShape
<1> HIDE DEF s
<1>6. Close(sal, s)
  BY <1>3, <1>5 DEF Close, Kept, Steady
<1>7. /\ e \in SalType /\ Steady(s, e) /\ e.out = s.out /\ e.released = s.released
      /\ s.dialog = "none" => e = s
      /\ s.dialog # "none" =>
           e.dialog = "terminated" /\ (IF s.dialog = "terminated" THEN e.event <=> s.event ELSE e.event)
  <2>1. CASE s.dialog = "none"
    BY <1>5, <2>1 DEF Steady
  <2>2. CASE s.dialog # "none"
    <3>1. e = DialogBecomes(s, "terminated")
      BY <2>2
    <3> HIDE DEF e
    <3> QED BY <1>4, <1>5, <2>2, <3>1, DialogShape
  <2> QED BY <2>1, <2>2
<1> HIDE DEF e
<1>8. CASE s.state = "terminated" \/ s.linked
  <2>1. sal' = e
    BY <1>1, <1>8
  <2>2. ASSUME HasCall(sal), Mild(sal)  PROVE Ongoing(e)
    <3>1. /\ sal.asked = "none" /\ ~sal.released /\ Fitting(sal) /\ Incoming(sal)
          /\ Outgoing(sal) /\ Dialogue(sal)
      BY <2>2 DEF Ongoing
    <3>2. s.dialog # "none"
      BY <1>6, <1>8, <3>1 DEF Fitting, Dialogue, Close, Kept, Steady
    <3>3. Fitting(e)
      <4>1. \A st \in TransactionState : HasState(e, "CANCEL", st) =>
              \E x \in TransactionState : HasState(sal, "CANCEL", x)
        <5>1. "calling" \in TransactionState
          BY DEF TransactionState
        <5> QED BY <1>1, <1>3, <1>5, <1>7, <5>1, StateIs
      <4> QED BY <1>6, <1>7, <3>1, <3>2, <4>1 DEF Fitting, Close, Kept, Steady
    <3>4. e.later \/ (e.event /\ e.linked)
      <4>1. CASE sal.dialog = "terminated"
        BY <1>6, <1>7, <3>1, <4>1 DEF Dialogue, Close, Kept, Steady
      <4>2. CASE sal.dialog # "terminated"
        BY <1>6, <1>7, <1>8, <3>1, <3>2, <4>2 DEF Dialogue, Close, Kept, Steady, Fitting, SalType
      <4> QED BY <4>1, <4>2
    <3> QED BY <1>6, <1>7, <3>1, <3>2, <3>3, <3>4
            DEF Ongoing, Incoming, Outgoing, Dialogue, Close, Kept, Steady
  <2> QED BY <1>6, <1>7, <2>1, <2>2 DEF Goes, Ongoing, HasCall, Mild, Close, Kept, Steady
<1>9. CASE ~(s.state = "terminated" \/ s.linked)
  <2> DEFINE f == Fails(e, "over")
  <2>1. sal' = CallSetReleased(f)
    BY <1>1, <1>9
  <2>2. HasCall(sal) /\ HasCall(e) /\ e.faults = sal.faults /\ e.released = sal.released
    BY <1>2, <1>6, <1>7, <1>9 DEF HasCall, Close, Kept, Steady
  <2>3. f \in SalType /\ f.faults = sal.faults /\ f.released = sal.released /\ HasCall(f)
    <3>1. f \in {e, CallOver(e)}
      BY <2>2 DEF Fails, HasCall
    <3>2. CallOver(e) \in SalType /\ CallOver(e).faults = e.faults
          /\ CallOver(e).released = e.released /\ HasCall(CallOver(e))
      BY <1>7, <2>2, OverShape DEF Below, HasCall
    <3> QED BY <1>7, <2>2, <3>1, <3>2
  <2> HIDE DEF f
  <2>4. CallSetReleased(f).faults = f.faults /\ (~f.released => ~HasCall(CallSetReleased(f)))
    BY <2>3, ReleasedShape DEF Below, HasCall
  <2> QED BY <2>1, <2>2, <2>3, <2>4 DEF Goes, Ongoing, Mild
<1> QED BY <1>8, <1>9

\* The end of the dialog is told.
LEMMA DialogEndsOngoing ==
  ASSUME IInv, Ongoing(sal), DialogEnds
  PROVE  Goes
<1> DEFINE s == [sal EXCEPT !.event = FALSE]
           byBye == s.last = "confirmed" /\ s.state \notin {"terminating", "terminated"}
           w == IF byBye THEN [CallOver(s) EXCEPT !.state = "terminating"] ELSE s
           t == [w EXCEPT !.later = TRUE]
<1>1. sal \in SalType
  BY DEF IInv, Counted
<1>2. sal.event /\ sal' = IF ~s.linked THEN s ELSE t
  BY DEF DialogEnds
<1>3. s \in SalType /\ s.faults = sal.faults /\ s.dir = sal.dir /\ s.state = sal.state
      /\ s.app = sal.app /\ s.linked = sal.linked /\ s.later = sal.later /\ s.asked = sal.asked
      /\ s.dialog = sal.dialog /\ s.event = FALSE /\ s.released = sal.released
      /\ s.out = sal.out /\ s.pending = sal.pending /\ s.invite = sal.invite
  BY <1>1 DEF SalType
<1> HIDE DEF s
<1>4. /\ w \in SalType /\ Below(s, w) /\ w.linked = s.linked /\ w.released = s.released
      /\ w.app = (IF byBye /\ s.app = "live" THEN "over" ELSE s.app)
      /\ w.state = (IF byBye THEN "terminating" ELSE s.state)
  <2>1. CASE byBye
    <3> DEFINE v == CallOver(s)
    <3>1. /\ v \in SalType /\ Below(s, v) /\ v.linked = s.linked
          /\ v.released = s.released /\ v.app = IF s.app = "live" THEN "over" ELSE s.app
      BY <1>3, OverShape
    <3>2. w = [v EXCEPT !.state = "terminating"]
      BY <2>1
    <3> HIDE DEF v, w
    <3>3. w \in SalType /\ Below(v, w) /\ w.linked = v.linked /\ w.released = v.released
          /\ w.app = v.app /\ w.state = "terminating"
      BY <3>1, <3>2, StateShape
    <3> QED BY <2>1, <3>1, <3>3 DEF Below
  <2>2. CASE ~byBye
    <3>1. w = s
      BY <2>2
    <3> QED BY <1>3, <2>2, <3>1 DEF Below
  <2> QED BY <2>1, <2>2
<1> HIDE DEF w, byBye
<1>5. t \in SalType /\ t.faults = w.faults /\ t.dir = w.dir /\ t.state = w.state
      /\ t.app = w.app /\ t.linked = w.linked /\ t.later = TRUE /\ t.asked = w.asked
      /\ t.dialog = w.dialog /\ t.event = w.event /\ t.released = w.released
      /\ t.out = w.out /\ t.pending = w.pending /\ t.invite = w.invite
  BY <1>4 DEF SalType
<1> HIDE DEF t
<1>6. CASE ~s.linked
  <2>1. sal' = s
    BY <1>2, <1>6
  <2>2. ASSUME HasCall(sal), Mild(sal)  PROVE Ongoing(s)
    BY <1>2, <1>3, <1>6, <2>2 DEF Ongoing, Fitting, Incoming, Outgoing, Dialogue, HasState, InCourse
  <2> QED BY <1>3, <2>1, <2>2 DEF Goes, Ongoing, HasCall, Mild
<1>7. CASE s.linked
  <2>1. sal' = t
    BY <1>2, <1>7
  <2>2. ASSUME HasCall(sal), Mild(sal)  PROVE Ongoing(t)
    <3>1. /\ sal.asked = "none" /\ ~sal.released /\ Fitting(sal) /\ Incoming(sal)
          /\ Outgoing(sal) /\ Dialogue(sal) /\ sal.dialog = "terminated"
      BY <1>2, <2>2 DEF Ongoing, Fitting
    <3>2. t.dialog = "terminated" /\ t.event = FALSE /\ t.out = sal.out /\ t.linked
          /\ t.asked = sal.asked /\ t.released = sal.released /\ t.dir = sal.dir
      BY <1>3, <1>4, <1>5, <1>7, <3>1 DEF Below
    <3>3. sal.app = "over" => t.app = "over"
      BY <1>3, <1>4, <1>5
    <3>4. Fitting(t)
      BY <3>1, <3>2, <3>3 DEF Fitting, HasState
    <3>5. t.app = "live" => t.state \in {"early", "active"}
      BY <1>3, <1>4, <1>5, <3>1 DEF Dialogue
    <3> QED BY <1>5, <3>1, <3>2, <3>4, <3>5 DEF Ongoing, Incoming, Outgoing, Dialogue
  <2> QED BY <1>3, <1>4, <1>5, <2>1, <2>2 DEF Goes, Ongoing, HasCall, Mild, Below
<1> QED BY <1>6, <1>7

\* The task queued.
LEMMA LaterOngoing ==
  ASSUME IInv, Ongoing(sal), LaterReleased
  PROVE  Goes
<1> DEFINE s == [sal EXCEPT !.later = FALSE]
<1>1. s \in SalType /\ s.faults = sal.faults /\ s.app = sal.app /\ s.released = sal.released
  BY DEF IInv, Counted, SalType
<1>2. sal' = CallSetReleased(s)
  BY DEF LaterReleased
<1> HIDE DEF s
<1>3. /\ sal'.faults = sal.faults /\ (HasCall(sal') => HasCall(sal))
      /\ (~sal.released => ~HasCall(sal'))
  BY <1>1, <1>2, ReleasedShape DEF Below, Alike, HasCall
<1> QED BY <1>3 DEF Goes, Ongoing, Mild

\* The same but for references and what the far end asks for.
Served(s, t) ==
  Kept(s, t) /\ t.event = s.event /\ t.released = s.released /\ t.out = s.out /\ t.pending = s.pending
\* An outgoing call gets a re-INVITE in its dialog only.
Invited(s) == s.dir = "out" /\ s.invite = "open" => s.dialog \in {"confirmed", "terminated"}

\* A request of the far end that is answered at once.
LEMMA ServedShape ==
  ASSUME NEW s \in SalType
  PROVE  ServedAtOnce(s) \in SalType /\ Served(s, ServedAtOnce(s)) /\ ServedAtOnce(s).invite = s.invite
<1>1. RefOp(s) \in SalType /\ Alike(s, RefOp(s))
  BY RefAlike
<1> DEFINE r == RefOp(s)
<1>2. ServedAtOnce(s) = [r EXCEPT !.servers = r.servers + 1]
  BY DEF ServedAtOnce
<1> HIDE DEF r
<1>3. r \in SalType /\ Alike(s, r)
  BY <1>1 DEF r
<1>4. r.servers + 1 \in Nat
  BY <1>3 DEF SalType
<1> QED BY <1>2, <1>3, <1>4 DEF SalType, Alike, Served, Kept, Steady

\* The INVITE of the far end.
LEMMA ArrivesShape ==
  ASSUME NEW s \in SalType
  PROVE  LET t == InviteArrives(s)
         IN  t \in SalType /\ Served(s, t) /\ t.invite = "open"
<1> DEFINE r == RefOp(s)
           n == r.servers + (IF s.invite = "answered" THEN 1 ELSE 0)
<1>1. r \in SalType /\ Alike(s, r)
  BY RefAlike
<1>2. InviteArrives(s) = [r EXCEPT !.invite = "open", !.servers = n]
  BY DEF InviteArrives
<1> HIDE DEF r
<1>3. n \in Nat
  BY <1>1 DEF SalType
<1> HIDE DEF n
<1> DEFINE x == [r EXCEPT !.invite = "open"]
           y == [x EXCEPT !.servers = n]
<1>4. x \in SalType /\ Served(r, x) /\ x.invite = "open"
  BY <1>1 DEF SalType, Served, Kept, Steady
<1>5. InviteArrives(s) = y
  BY <1>2
<1> HIDE DEF x
<1>6. y \in SalType /\ Served(x, y) /\ y.invite = x.invite
  BY <1>3, <1>4 DEF SalType, Served, Kept, Steady
<1> HIDE DEF y
<1> QED BY <1>1, <1>4, <1>5, <1>6 DEF Alike, Served, Kept, Steady

\* The INVITE of the far end is answered.
LEMMA AnsweredShape ==
  ASSUME NEW s \in SalType
  PROVE  LET t == [s EXCEPT !.invite = "answered"]
         IN  t \in SalType /\ Served(s, t) /\ t.invite = "answered"
BY DEF SalType, Served, Kept, Steady

\* 180 to the INVITE.
LEMMA RingingOngoing ==
  ASSUME IInv, Ongoing(sal), NotifyRinging
  PROVE  Goes
<1> DEFINE t == DialogBecomes(sal, "early")
<1>1. sal \in SalType /\ sal' = t /\ sal.app = "live" /\ sal.invite = "open" /\ sal.dialog = "null"
  BY DEF NotifyRinging, IInv, Counted
<1>2. /\ t \in SalType /\ Steady(sal, t) /\ t.out = sal.out /\ t.pending = sal.pending
      /\ t.invite = sal.invite /\ t.released = sal.released
      /\ t.dialog = "early" /\ t.event = FALSE
  BY <1>1, DialogShape DEF DialogState, SalType
<1> HIDE DEF t
<1>3. ASSUME Mild(sal)  PROVE Ongoing(t)
  <2>1. /\ sal.asked = "none" /\ ~sal.released /\ Fitting(sal) /\ Incoming(sal)
        /\ Outgoing(sal) /\ Dialogue(sal)
    BY <1>1, <1>3 DEF Ongoing, HasCall
  <2>2. (sal.dir # "out" /\ sal.linked /\ ~InCourse(sal, "INVITE")) \/ sal.dir = "none"
    BY <1>1, <2>1 DEF Incoming, Outgoing, SalType
  <2>3. sal.linked
    BY <1>1, <2>1 DEF Dialogue
  <2>4. Fitting(t)
    BY <1>1, <1>2, <2>1 DEF Fitting, HasState, Steady
  <2> QED BY <1>1, <1>2, <2>1, <2>2, <2>3, <2>4
          DEF Ongoing, Incoming, Outgoing, Dialogue, InCourse, HasState, Steady
<1> QED BY <1>1, <1>2, <1>3 DEF Goes, Ongoing, Mild, Steady

\* 200 to the INVITE.
LEMMA AcceptOngoing ==
  ASSUME IInv, Ongoing(sal), Invited(sal), AcceptInvite
  PROVE  Goes
<1> DEFINE s == [sal EXCEPT !.invite = "answered"]
           t == DialogBecomes(s, "confirmed")
<1>1. sal \in SalType /\ sal' = t /\ sal.app = "live" /\ sal.invite = "open"
  BY DEF AcceptInvite, IInv, Counted
<1>2. s \in SalType /\ Served(sal, s) /\ s.invite = "answered"
  BY <1>1, AnsweredShape
<1> HIDE DEF s
<1>3. "confirmed" \in DialogState
  BY DEF DialogState
<1>4. /\ t \in SalType /\ Steady(s, t) /\ t.out = s.out /\ t.pending = s.pending
      /\ t.released = s.released /\ t.invite = s.invite
      /\ IF s.dialog \in {"confirmed", "terminated"} THEN t = s
         ELSE t.dialog = "confirmed" /\ t.event = FALSE
  <2>1. /\ t \in SalType /\ Steady(s, t) /\ t.out = s.out /\ t.pending = s.pending
        /\ t.released = s.released /\ t.invite = s.invite
    BY <1>2, <1>3, DialogShape
  <2>2. IF s.dialog \in {"confirmed", "terminated"} THEN t = s
        ELSE t.dialog = "confirmed" /\ (t.event <=> "confirmed" = "terminated")
    BY <1>2, <1>3, DialogShape
  <2> QED BY <2>1, <2>2 DEF SalType
<1> HIDE DEF t
<1>5. ASSUME Mild(sal)  PROVE Ongoing(t)
  <2>1. /\ sal.asked = "none" /\ ~sal.released /\ Fitting(sal) /\ Incoming(sal)
        /\ Outgoing(sal) /\ Dialogue(sal)
    BY <1>1, <1>5 DEF Ongoing, HasCall
  <2>2. /\ s.faults = sal.faults /\ s.dir = sal.dir /\ s.state = sal.state /\ s.app = "live"
        /\ s.linked = sal.linked /\ s.later = sal.later /\ s.asked = "none" /\ s.dialog = sal.dialog
        /\ s.event = sal.event /\ s.released = sal.released /\ s.out = sal.out
        /\ s.pending = sal.pending
    BY <1>1, <1>2, <2>1 DEF Served, Kept, Steady
  <2>3. CASE s.dialog \in {"confirmed", "terminated"}
    <3>1. t = s
      BY <1>4, <2>3
    <3>2. Fitting(s)
      BY <1>1, <2>1, <2>2 DEF Fitting, HasState
    <3> QED BY <1>1, <2>1, <2>2, <2>3, <3>1, <3>2
            DEF Ongoing, Incoming, Outgoing, Dialogue, InCourse, HasState
  <2>4. CASE s.dialog \notin {"confirmed", "terminated"}
    <3>1. /\ t.dialog = "confirmed" /\ t.event = FALSE /\ t.dir = sal.dir /\ t.app = "live"
          /\ t.state = sal.state /\ t.linked = sal.linked /\ t.asked = "none"
          /\ ~t.released /\ t.out = sal.out
      BY <1>4, <2>1, <2>2, <2>4 DEF Steady
    <3>2. sal.dir # "out"
      BY <1>1, <2>2, <2>4 DEF Invited
    <3>3. sal.dir = "in"
      BY <1>1, <3>2 DEF IInv, Sound, Untouched, SalType
    <3>4. sal.linked /\ ~InCourse(sal, "INVITE")
      BY <1>1, <2>1, <2>2, <2>4, <3>3 DEF Incoming, SalType
    <3>5. Fitting(t)
      BY <1>1, <2>1, <3>1 DEF Fitting, HasState
    <3> QED BY <1>1, <2>1, <3>1, <3>3, <3>4, <3>5 DEF Ongoing, Incoming, Outgoing, Dialogue
  <2> QED BY <2>3, <2>4
<1> QED BY <1>1, <1>2, <1>4, <1>5 DEF Goes, Ongoing, Mild, Steady, Served, Kept

\* A refusal ends an incoming call in the stack, and the call.
LEMMA DeclinedOngoing ==
  ASSUME NEW s \in SalType, NEW d \in SalType, d = DeclineInvite(s), s.invite = "open",
         s.dir = "in", s.dialog \in {"null", "early"}, s.linked, s.asked = "none", ~s.released,
         Fitting(s), NEW t, Below(d, t), t.linked = s.linked, t.released = s.released,
         t.app = "over"
  PROVE  Ongoing(t)
<1>1. /\ Steady(s, d) /\ d.out = s.out /\ d.dialog = "terminated" /\ d.event
  BY DeclineShape
<1>2. /\ t.dialog = "terminated" /\ t.event /\ t.linked /\ t.asked = "none" /\ ~t.released
      /\ t.out = s.out /\ t.dir = "in"
  BY <1>1 DEF Below, Steady
<1>3. Fitting(t)
  BY <1>2 DEF Fitting, HasState
<1> QED BY <1>2, <1>3 DEF Ongoing, Incoming, Outgoing, Dialogue

\* A refusal in the dialog is one of the request only.
LEMMA DeclinedInDialog ==
  ASSUME NEW s \in SalType, Ongoing(s), s.dialog = "confirmed" \/ s.dialog = "terminated"
  PROVE  Ongoing(DeclineInvite(s))
<1> DEFINE t == DeclineInvite(s)
<1>1. /\ t \in SalType /\ Steady(s, t) /\ t.out = s.out /\ t.pending = s.pending
      /\ t.released = s.released /\ t.dialog = s.dialog /\ t.last = s.last /\ t.event = s.event
  BY DeclineShape DEF SalType, Steady
<1> HIDE DEF t
<1>2. ASSUME HasCall(s), Mild(s)  PROVE Ongoing(t)
  <2>1. /\ s.asked = "none" /\ ~s.released /\ Fitting(s) /\ Incoming(s) /\ Outgoing(s) /\ Dialogue(s)
    BY <1>2 DEF Ongoing
  <2>2. Fitting(t)
    BY <1>1, <2>1 DEF Fitting, HasState, Steady
  <2> QED BY <1>1, <2>1, <2>2 DEF Ongoing, Incoming, Outgoing, Dialogue, InCourse, HasState, Steady
<1>3. Ongoing(t)
  BY <1>1, <1>2 DEF Ongoing, HasCall, Mild, Steady
<1> QED BY <1>3 DEF t

\* The core ends the call of a dialog that is over.
LEMMA OverOngoing ==
  ASSUME NEW s \in SalType, Ongoing(s), s.dialog = "terminated"
  PROVE  Ongoing(CallOver(s))
<1> DEFINE t == CallOver(s)
<1>1. /\ t \in SalType /\ Below(s, t) /\ t.linked = s.linked /\ t.state = s.state
      /\ t.released = s.released /\ t.app = IF s.app = "live" THEN "over" ELSE s.app
  BY OverShape
<1> HIDE DEF t
<1>2. ASSUME HasCall(s), Mild(s)  PROVE Ongoing(t)
  <2>1. /\ s.asked = "none" /\ ~s.released /\ Fitting(s) /\ Incoming(s) /\ Outgoing(s) /\ Dialogue(s)
    BY <1>2 DEF Ongoing
  <2>2. t.app = "over"
    BY <1>1, <1>2 DEF HasCall
  <2>3. Fitting(t)
    BY <1>1, <2>1, <2>2 DEF Fitting, HasState, Below
  <2> QED BY <1>1, <2>1, <2>2, <2>3 DEF Ongoing, Incoming, Outgoing, Dialogue, Below
<1>3. Ongoing(t)
  BY <1>1, <1>2 DEF Ongoing, HasCall, Mild, Below
<1> QED BY <1>3 DEF t

\* A refusal.
LEMMA RefuseOngoing ==
  ASSUME IInv, Ongoing(sal), Invited(sal), RefuseInvite
  PROVE  Goes
<1> DEFINE d == DeclineInvite(sal)
           t == CallOver(d)
<1>1. sal \in SalType /\ sal.app = "live" /\ sal.invite = "open"
      /\ sal' = IF sal.dialog = "confirmed" THEN d ELSE t
  BY DEF RefuseInvite, IInv, Counted
<1>2. d \in SalType /\ Steady(sal, d) /\ d.released = sal.released
  BY <1>1, DeclineShape
<1>3. /\ t \in SalType /\ Below(d, t) /\ t.linked = d.linked /\ t.released = d.released
      /\ t.app = "over"
  BY <1>1, <1>2, OverShape DEF Steady
<1>4. CASE sal.dialog = "confirmed"
  BY <1>1, <1>4, DeclinedInDialog DEF Goes
<1>5. CASE sal.dialog = "terminated"
  <2>1. Ongoing(d)
    BY <1>1, <1>5, DeclinedInDialog
  <2>2. d.dialog = "terminated"
    BY <1>1, <1>5, DeclineShape
  <2>3. Ongoing(t)
    BY <1>2, <2>1, <2>2, OverOngoing
  <2>4. sal' = t
    BY <1>1, <1>5
  <2> QED BY <2>3, <2>4 DEF Goes
<1>6. CASE sal.dialog \notin {"confirmed", "terminated"}
  <2>1. sal' = t
    BY <1>1, <1>6
  <2>2. ASSUME Mild(sal)  PROVE Ongoing(t)
    <3>1. /\ sal.asked = "none" /\ ~sal.released /\ Fitting(sal) /\ Incoming(sal)
      BY <1>1, <2>2 DEF Ongoing, HasCall
    <3>2. sal.dir = "in"
      BY <1>1, <1>6 DEF Invited, IInv, Sound, Untouched, SalType
    <3>3. sal.linked /\ sal.dialog \in {"null", "early"}
      BY <1>1, <1>6, <3>1, <3>2 DEF Incoming, SalType
    <3>4. t.linked = sal.linked /\ t.released = sal.released
      BY <1>2, <1>3 DEF Steady
    <3> HIDE DEF t
    <3> QED BY <1>1, <1>2, <1>3, <3>1, <3>2, <3>3, <3>4, DeclinedOngoing
  <2>3. t.faults = sal.faults
    BY <1>2, <1>3 DEF Below, Steady
  <2> HIDE DEF t
  <2> QED BY <2>1, <2>2, <2>3 DEF Goes, Ongoing, Mild
<1> QED BY <1>4, <1>5, <1>6

\* CANCEL before the answer.
LEMMA CancelOngoing ==
  ASSUME IInv, Ongoing(sal), CancelReceived
  PROVE  Goes
<1> DEFINE r == ServedAtOnce(sal)
           o == CallOver(r)
           t == DeclineInvite(o)
<1>1. sal \in SalType /\ sal' = t /\ sal.dir = "in" /\ sal.dialog \in {"null", "early"}
      /\ sal.invite = "open" /\ sal.linked /\ sal.state # "terminated"
  BY DEF CancelReceived, Reached, IInv, Counted
<1>2. r \in SalType /\ Served(sal, r) /\ r.invite = sal.invite
  BY <1>1, ServedShape
<1> HIDE DEF r
<1>3. /\ o \in SalType /\ Below(r, o) /\ o.linked = r.linked /\ o.released = r.released
      /\ o.app = IF r.app = "live" THEN "over" ELSE r.app
  BY <1>2, OverShape
<1> HIDE DEF o
<1>4. t \in SalType /\ Steady(o, t) /\ t.released = o.released
  BY <1>3, DeclineShape
<1>5. ASSUME HasCall(sal), Mild(sal)  PROVE Ongoing(t)
  <2>1. sal.asked = "none" /\ ~sal.released /\ Fitting(sal) /\ Incoming(sal)
    BY <1>5 DEF Ongoing
  <2>2. sal.app = "live"
    BY <1>1, <2>1 DEF Incoming
  <2>3. /\ o.app = "over" /\ o.invite = "open" /\ o.dir = "in" /\ o.dialog \in {"null", "early"}
        /\ o.linked /\ o.asked = "none" /\ ~o.released /\ o.out = sal.out /\ o.event = sal.event
    BY <1>1, <1>2, <1>3, <2>1, <2>2 DEF Served, Kept, Steady, Below
  <2>4. Fitting(o)
    BY <1>1, <2>1, <2>2, <2>3 DEF Fitting, HasState
  <2>5. t.linked = o.linked /\ t.app = "over"
    BY <1>4, <2>3 DEF Steady
  <2>6. Below(t, t)
    BY DEF Below
  <2>7. t = DeclineInvite(o)
    OBVIOUS
  <2> HIDE DEF t
  <2> QED BY <1>3, <1>4, <2>3, <2>4, <2>5, <2>6, <2>7, DeclinedOngoing
<1>6. t.faults = sal.faults /\ (HasCall(t) => HasCall(sal))
  BY <1>2, <1>3, <1>4 DEF Served, Kept, Steady, Below, HasCall
<1> HIDE DEF t
<1> QED BY <1>1, <1>5, <1>6 DEF Goes, Ongoing, Mild

\* BYE: the end of the dialog will be told.
LEMMA ByeReceivedOngoing ==
  ASSUME IInv, Ongoing(sal), ByeReceived
  PROVE  Goes
<1> DEFINE r == RefOp(sal)
           o == CallOver(r)
           x == [o EXCEPT !.state = "terminating"]
           y == [x EXCEPT !.bye = TRUE]
           t == DialogBecomes(y, "terminated")
<1>1. sal \in SalType /\ sal' = t /\ sal.dialog = "confirmed" /\ sal.linked
      /\ sal.state # "terminated"
  BY DEF ByeReceived, Reached, IInv, Counted
<1>2. r \in SalType /\ Alike(sal, r)
  BY <1>1, RefAlike
<1> HIDE DEF r
<1>3. /\ o \in SalType /\ Below(r, o) /\ o.linked = r.linked /\ o.released = r.released
      /\ o.app = IF r.app = "live" THEN "over" ELSE r.app
  BY <1>2, OverShape
<1> HIDE DEF o
<1>4. /\ x \in SalType /\ Below(o, x) /\ x.linked = o.linked /\ x.released = o.released
      /\ x.app = o.app /\ x.state = "terminating"
  BY <1>3, StateShape
<1> HIDE DEF x
<1>5. /\ y \in SalType /\ y.linked = x.linked /\ y.released = x.released /\ y.app = x.app
      /\ y.state = x.state /\ y.faults = x.faults /\ y.dir = x.dir /\ y.dialog = x.dialog
      /\ y.out = x.out /\ y.asked = x.asked
  BY <1>4 DEF SalType
<1> HIDE DEF y
<1>6. "terminated" \in DialogState
  BY DEF DialogState
<1>7. y.dialog = "confirmed"
  BY <1>1, <1>2, <1>3, <1>4, <1>5 DEF Alike, Below
<1>8. /\ t \in SalType /\ Steady(y, t) /\ t.out = y.out /\ t.released = y.released
      /\ t.dialog = "terminated" /\ t.event
  BY <1>5, <1>6, <1>7, DialogShape
<1> HIDE DEF t
<1>9. /\ t.faults = sal.faults /\ (HasCall(t) => HasCall(sal)) /\ t.dir = sal.dir /\ t.linked
      /\ t.out = sal.out /\ t.asked = sal.asked /\ t.released = sal.released
      /\ t.state = "terminating" /\ t.app # "live"
  BY <1>1, <1>2, <1>3, <1>4, <1>5, <1>8 DEF Alike, Below, Steady, HasCall
<1>10. ASSUME HasCall(sal), Mild(sal)  PROVE HasCall(t) => Ongoing(t)
  <2>1. /\ sal.asked = "none" /\ ~sal.released /\ Fitting(sal) /\ Incoming(sal) /\ Outgoing(sal)
    BY <1>10 DEF Ongoing
  <2>2. HasCall(t) => Fitting(t)
    BY <1>8, <1>9, <2>1 DEF Fitting, HasState, HasCall
  <2> QED BY <1>8, <1>9, <2>1, <2>2 DEF Ongoing, Incoming, Outgoing, Dialogue
<1> QED BY <1>1, <1>9, <1>10 DEF Goes, Ongoing, Mild

\* A re-INVITE.
LEMMA ReinviteOngoing ==
  ASSUME IInv, Ongoing(sal), ReinviteReceived
  PROVE  Goes
<1> DEFINE s == InviteArrives(sal)
           a == [s EXCEPT !.invite = "answered"]
<1>1. sal \in SalType /\ sal' \in {s, DeclineInvite(s), a} /\ sal.dialog = "confirmed"
  BY DEF ReinviteReceived, IInv, Counted
<1>2. s \in SalType /\ Served(sal, s)
  BY <1>1, ArrivesShape
<1> HIDE DEF s
<1>3. a \in SalType /\ Served(s, a)
  BY <1>2, AnsweredShape
<1> HIDE DEF a
<1>4. ASSUME NEW t, Served(sal, t)  PROVE Ongoing(t)
  BY <1>1, <1>4 DEF Served, Kept, Steady, Ongoing, Mild, HasCall, Fitting, Incoming, Outgoing,
     Dialogue, HasState, InCourse
<1>5. Ongoing(s) /\ Served(sal, a)
  BY <1>2, <1>3, <1>4 DEF Served, Kept, Steady
<1>6. Ongoing(a)
  BY <1>4, <1>5
<1>7. Ongoing(DeclineInvite(s))
  BY <1>1, <1>2, <1>5, DeclinedInDialog DEF Served, Kept
<1> QED BY <1>1, <1>5, <1>6, <1>7 DEF Goes

\* The user hangs up.
LEMMA HangUpOngoing ==
  ASSUME IInv, Ongoing(sal), HangUp
  PROVE  Goes
<1> DEFINE u == TerminateOp(sal)
           t == CallOver(u)
<1>1. sal \in SalType /\ sal' = t /\ sal.app = "live" /\ Sound(sal) /\ sal.dir \in {"in", "out"}
      /\ sal.state # "terminating"
  BY LiveHas DEF HangUp, IInv, Counted, Sound, SalType
<1>2. u \in SalType /\ u.faults = sal.faults
  BY <1>1, TerminateKeeps
<1>3. t \in SalType /\ Below(u, t) /\ t.linked = u.linked /\ t.state = u.state
      /\ t.released = u.released /\ t.app = IF u.app = "live" THEN "over" ELSE u.app
  BY <1>2, OverShape
<1>4. ASSUME Mild(sal)  PROVE Ongoing(t)
  <2>1. /\ sal.asked = "none" /\ ~sal.released /\ Fitting(sal) /\ Incoming(sal)
        /\ Outgoing(sal) /\ Dialogue(sal) /\ sal.state \in {"early", "active"}
    BY <1>1, <1>4 DEF Ongoing, HasCall, Dialogue
  <2>2. CASE sal.dialog = "confirmed"
    <3>1. sal.linked
      BY <1>1, <2>1, <2>2 DEF Dialogue
    <3>2. /\ u.state = "terminating" /\ u.dir = sal.dir /\ u.app = sal.app
          /\ u.dialog = sal.dialog /\ u.linked = sal.linked
          /\ u.event = sal.event /\ u.later = sal.later /\ u.released = sal.released
          /\ u.asked = sal.asked /\ DOMAIN u.out = DOMAIN sal.out \cup {<<"BYE", "calling">>}
      BY <1>1, <2>1, <2>2, <3>1, TerminateConfirmed
    <3> HIDE DEF u, t
    <3>3. /\ t.state = "terminating" /\ t.dir = sal.dir /\ t.app = "over"
          /\ t.dialog = "confirmed" /\ t.linked /\ t.event = sal.event /\ t.later = sal.later
          /\ ~t.released /\ t.asked = "none"
          /\ DOMAIN t.out = DOMAIN sal.out \cup {<<"BYE", "calling">>}
      BY <1>1, <1>3, <2>1, <2>2, <3>1, <3>2 DEF Below
    <3>4. Fitting(t)
      BY <1>1, <2>1, <2>2, <3>3, StateIs DEF Fitting
    <3> QED BY <2>1, <2>2, <3>3, <3>4, CourseIs DEF Ongoing, Incoming, Outgoing, Dialogue
  <2>3. CASE sal.dialog = "terminated" /\ sal.linked
    <3>1. u = sal
      BY <2>1, <2>3 DEF TerminateOp, DialogOf
    <3>2. t = CallOver(sal)
      BY <3>1
    <3> HIDE DEF u, t
    <3> QED BY <1>1, <2>3, <3>2, OverOngoing
  <2>4. CASE sal.dialog = "terminated" /\ ~sal.linked
    <3>1. DialogOf(sal) \notin {"confirmed", "terminated"} /\ sal.dir = "out" /\ sal.later
      BY <1>1, <2>1, <2>4 DEF DialogOf, Incoming, Dialogue
    <3>2. /\ u.state = "terminating" /\ u.dir = sal.dir /\ u.app = sal.app
          /\ u.dialog = sal.dialog /\ u.linked = sal.linked
          /\ u.event = sal.event /\ u.later = sal.later /\ u.released = sal.released
          /\ u.asked = sal.asked /\ DOMAIN u.out \subseteq DOMAIN sal.out \cup {<<"CANCEL", "calling">>}
      BY <1>1, <2>1, <3>1, TerminateOutgoing
    <3> HIDE DEF u, t
    <3>3. /\ t.dir = "out" /\ t.app = "over" /\ t.dialog = "terminated" /\ t.later
          /\ ~t.linked /\ ~t.released /\ t.asked = "none"
          /\ DOMAIN t.out \subseteq DOMAIN sal.out \cup {<<"CANCEL", "calling">>}
      BY <1>1, <1>3, <2>1, <2>4, <3>1, <3>2 DEF Below
    <3>4. Fitting(t)
      BY <1>1, <2>1, <2>4, <3>3, StateIs DEF Fitting
    <3> QED BY <2>1, <3>3, <3>4 DEF Ongoing, Incoming, Outgoing, Dialogue
  <2>5. CASE sal.dialog \notin {"confirmed", "terminated"} /\ sal.dir = "in"
    <3>1. sal.linked /\ sal.dialog \in {"null", "early"} /\ sal.invite = "open"
      BY <1>1, <2>1, <2>5 DEF Incoming, SalType
    <3>2. DialogOf(sal) \notin {"confirmed", "terminated"}
      BY <2>5 DEF DialogOf
    <3> DEFINE d == DeclineInvite(sal)
    <3>3. d \in SalType
      BY <1>1, DeclineShape
    <3>4. Below(d, u) /\ u.linked = sal.linked /\ u.app = sal.app /\ u.released = sal.released
      BY <1>1, <2>1, <2>5, <3>2, TerminateIncoming
    <3>5. d = DeclineInvite(sal)
      OBVIOUS
    <3> HIDE DEF u, t, d
    <3>6. Below(d, t) /\ t.linked = sal.linked /\ t.app = "over" /\ t.released = sal.released
      BY <1>1, <1>3, <3>4 DEF Below
    <3> QED BY <1>1, <2>1, <2>5, <3>1, <3>3, <3>5, <3>6, DeclinedOngoing
  <2>6. CASE sal.dialog \notin {"confirmed", "terminated"} /\ sal.dir = "out"
    <3>1. DialogOf(sal) \notin {"confirmed", "terminated"}
      BY <2>6 DEF DialogOf
    <3>2. sal.dialog \in {"none", "early"} /\ InCourse(sal, "INVITE") /\ sal.pending = "INVITE"
          /\ ~sal.event
      BY <1>1, <2>1, <2>6 DEF Outgoing, SalType, Fitting
    <3>3. /\ u.state = "terminating" /\ u.dir = sal.dir /\ u.app = sal.app
          /\ u.dialog = sal.dialog /\ u.linked = sal.linked
          /\ u.event = sal.event /\ u.later = sal.later /\ u.released = sal.released
          /\ u.asked = sal.asked
          /\ \/ /\ HasState(sal, "INVITE", "proceeding") /\ u.pending = "CANCEL"
                /\ DOMAIN u.out = DOMAIN sal.out \cup {<<"CANCEL", "calling">>}
             \/ /\ ~HasState(sal, "INVITE", "proceeding") /\ u.pending = "INVITE"
                /\ DOMAIN u.out = DOMAIN sal.out
      BY <1>1, <2>1, <2>6, <3>1, <3>2, TerminateOutgoing
    <3> HIDE DEF u, t
    <3>4. /\ t.dir = "out" /\ t.app = "over" /\ t.dialog = sal.dialog /\ t.state = "terminating"
          /\ t.linked = sal.linked /\ ~t.event /\ ~t.released /\ t.asked = "none"
          /\ \/ /\ HasState(sal, "INVITE", "proceeding") /\ t.pending = "CANCEL"
                /\ DOMAIN t.out = DOMAIN sal.out \cup {<<"CANCEL", "calling">>}
             \/ /\ ~HasState(sal, "INVITE", "proceeding") /\ t.pending = "INVITE"
                /\ DOMAIN t.out = DOMAIN sal.out
      BY <1>1, <1>3, <2>1, <2>6, <3>2, <3>3 DEF Below
    <3>5. Fitting(t)
      BY <1>1, <2>1, <2>6, <3>4, StateIs DEF Fitting
    <3>6. InCourse(t, "INVITE")
      BY <3>2, <3>4, CourseIs
    <3>7. HasState(t, "INVITE", "calling") \/ t.pending = "CANCEL"
      BY <3>2, <3>4, StateIs DEF InCourse
    <3> QED BY <2>1, <2>6, <3>2, <3>4, <3>5, <3>6, <3>7 DEF Ongoing, Incoming, Outgoing, Dialogue
  <2> QED BY <1>1, <2>2, <2>3, <2>4, <2>5, <2>6 DEF SalType
<1>5. t.faults = sal.faults
  BY <1>2, <1>3 DEF Below
<1> HIDE DEF t
<1> QED BY <1>1, <1>4, <1>5 DEF Goes, Ongoing, Mild

\* A re-INVITE or INFO of this side.
LEMMA RequestOngoing ==
  ASSUME IInv, Ongoing(sal), UpdateOp \/ SendInfo
  PROVE  Goes
<1>1. /\ sal \in SalType /\ sal.app = "live"
      /\ Mild(sal) => sal.dialog = "confirmed"
      /\ \E m \in {"INVITE", "INFO"} : sal' = SendRequest(sal, m)
  BY DEF UpdateOp, SendInfo, IInv, Counted, Mild
<1>2. PICK m \in {"INVITE", "INFO"} : sal' = SendRequest(sal, m)
  BY <1>1
<1>3. m \in Method
  BY DEF Method
<1> DEFINE t == SendRequest(sal, m)
<1>4. /\ t \in SalType /\ Close(sal, t) /\ t.pending = m
      /\ DOMAIN t.out = DOMAIN sal.out \cup {<<m, "calling">>}
  BY <1>1, <1>3, SendShape
<1>5. sal' = t
  BY <1>2
<1> HIDE DEF t
<1>6. ASSUME Mild(sal)  PROVE Ongoing(t)
  <2>1. /\ sal.asked = "none" /\ ~sal.released /\ Fitting(sal) /\ Incoming(sal)
        /\ Outgoing(sal) /\ Dialogue(sal) /\ sal.dialog = "confirmed"
    BY <1>1, <1>6 DEF Ongoing, HasCall
  <2>2. Fitting(t)
    BY <1>4, <2>1, StateIs DEF Fitting, Close, Kept, Steady
  <2> QED BY <1>1, <1>4, <2>1, <2>2 DEF Ongoing, Incoming, Outgoing, Dialogue, Close, Kept, Steady
<1> QED BY <1>4, <1>5, <1>6 DEF Goes, Ongoing, Mild, Close, Kept, Steady

\* The request that waited for the password.
LEMMA AuthenticateOngoing ==
  ASSUME IInv, Ongoing(sal), Authenticate
  PROVE  Goes
<1> DEFINE s == [sal EXCEPT !.asked = "none"]
           t == SendRequest(s, sal.asked)
<1>1. sal \in SalType /\ sal.asked \in Method /\ sal' = t
  BY DEF Authenticate, IInv, Counted, SalType
<1>2. s \in SalType /\ s.faults = sal.faults /\ s.app = sal.app
  BY <1>1 DEF SalType
<1> HIDE DEF s
<1>3. Close(s, t)
  BY <1>1, <1>2, SendShape
<1> HIDE DEF t
<1>4. t.faults = sal.faults /\ t.app = sal.app
  BY <1>2, <1>3 DEF Close, Kept, Steady
<1>5. sal.asked # "none"
  BY DEF Authenticate
<1> QED BY <1>1, <1>4, <1>5 DEF Goes, Ongoing, Mild, HasCall

\* A new call.
LEMMA PlaceOngoing ==
  ASSUME IInv, Fresh, PlaceCall
  PROVE  Goes
<1> DEFINE r == RefOp(sal)
           x == [r EXCEPT !.dir = "out"]
           y == [x EXCEPT !.app = "live"]
           t == SendRequest(y, "INVITE")
<1>1. sal \in SalType /\ sal.dir = "none" /\ sal' = t /\ ~sal.released /\ Untouched(sal)
  BY DEF PlaceCall, IInv, Counted, Sound, Fresh
<1>2. sal.linked = FALSE /\ DOMAIN sal.out = {} /\ sal.asked = "none" /\ sal.event = FALSE
      /\ sal.dialog = "none" /\ sal.state = "early"
  BY <1>1 DEF Untouched, Pointed, SalType
<1>3. r \in SalType /\ Alike(sal, r)
  BY <1>1, RefAlike
<1> HIDE DEF r
<1>4. /\ y \in SalType /\ y.dir = "out" /\ y.app = "live" /\ y.out = sal.out /\ ~y.released
      /\ y.linked = FALSE /\ y.asked = "none" /\ y.event = FALSE /\ y.dialog = "none"
      /\ y.state = "early"
  BY ZenonT(60), <1>1, <1>2, <1>3 DEF SalType, Alike
<1> HIDE DEF y
<1>5. "INVITE" \in Method
  BY DEF Method
<1>6. /\ Close(y, t) /\ t.pending = "INVITE"
      /\ DOMAIN t.out = DOMAIN y.out \cup {<<"INVITE", "calling">>}
  BY <1>4, <1>5, SendShape
<1> HIDE DEF t
<1>7. /\ t.dir = "out" /\ t.app = "live" /\ ~t.released /\ t.linked = FALSE /\ t.asked = "none"
      /\ t.event = FALSE /\ t.dialog = "none" /\ t.state = "early"
      /\ DOMAIN t.out = {<<"INVITE", "calling">>}
  BY <1>2, <1>4, <1>6 DEF Close, Kept, Steady
<1>8. Fitting(t) /\ InCourse(t, "INVITE")
  BY <1>7, StateIs, CourseIs DEF Fitting
<1> QED BY <1>1, <1>6, <1>7, <1>8 DEF Goes, Ongoing, Incoming, Outgoing, Dialogue

\* The INVITE of a new call.
LEMMA InviteReceivedOngoing ==
  ASSUME IInv, Fresh, InviteReceived
  PROVE  Goes
<1> DEFINE r == RefOp(sal)
           x == [r EXCEPT !.dir = "in"]
           a == InviteArrives(x)
           b == DialogBecomes(a, "null")
           s == LinkDialog(b, TRUE)
           t == [s EXCEPT !.app = "live"]
<1>1. sal \in SalType /\ sal.dir = "none" /\ ~sal.released /\ Untouched(sal)
      /\ sal' \in {t, ReleaseOp(DeclineInvite(s)), [DeclineInvite(s) EXCEPT !.lost = 1, !.app = "gone"],
                   ReleaseOp(s)}
  BY DEF InviteReceived, IInv, Counted, Sound, Fresh
<1>2. sal.linked = FALSE /\ DOMAIN sal.out = {} /\ sal.asked = "none" /\ sal.event = FALSE
      /\ sal.dialog = "none" /\ sal.state = "early"
  BY <1>1 DEF Untouched, Pointed, SalType
<1>3. r \in SalType /\ Alike(sal, r)
  BY <1>1, RefAlike
<1> HIDE DEF r
<1>4. /\ x \in SalType /\ x.dir = "in" /\ x.out = sal.out /\ ~x.released
      /\ x.asked = "none" /\ x.event = FALSE /\ x.dialog = "none" /\ x.state = "early"
  BY <1>1, <1>2, <1>3 DEF SalType, Alike
<1> HIDE DEF x
<1>5. a \in SalType /\ Served(x, a) /\ a.invite = "open"
  BY <1>4, ArrivesShape
<1> HIDE DEF a
<1>6. "null" \in DialogState /\ TRUE \in BOOLEAN
  BY DEF DialogState
<1>7. /\ b \in SalType /\ Steady(a, b) /\ b.out = a.out /\ b.invite = a.invite
      /\ b.released = a.released /\ b.dialog = "null" /\ ~b.event
  BY <1>4, <1>5, <1>6, DialogShape DEF Served, Kept
<1> HIDE DEF b
<1>8. s \in SalType /\ Alike([b EXCEPT !.linked = TRUE], s)
  BY <1>6, <1>7, LinkAlike
<1> HIDE DEF s
<1>9. /\ s.dir = "in" /\ s.out = sal.out /\ ~s.released /\ s.linked /\ s.asked = "none"
      /\ ~s.event /\ s.dialog = "null" /\ s.state = "early" /\ s.invite = "open"
  BY <1>4, <1>5, <1>7, <1>8 DEF Alike, Served, Kept, Steady, SalType
<1>10. /\ t.dir = "in" /\ t.out = sal.out /\ ~t.released /\ t.linked /\ t.asked = "none"
       /\ ~t.event /\ t.dialog = "null" /\ t.state = "early" /\ t.invite = "open" /\ t.app = "live"
  BY <1>8, <1>9 DEF SalType
<1> HIDE DEF t
<1>11. Ongoing(t)
  <2>1. Fitting(t) /\ ~InCourse(t, "INVITE")
    BY <1>2, <1>10, StateIs, CourseIs DEF Fitting
  <2> QED BY <1>10, <2>1 DEF Ongoing, Incoming, Outgoing, Dialogue
<1>12. DeclineInvite(s) \in SalType
  BY <1>8, DeclineShape
<1>13. ASSUME sal' = ReleaseOp(s) \/ sal' = ReleaseOp(DeclineInvite(s))  PROVE Goes
  BY <1>8, <1>12, <1>13, ReleaseShape DEF Goes, Ongoing, HasCall
<1>14. ASSUME sal' = [DeclineInvite(s) EXCEPT !.lost = 1, !.app = "gone"]  PROVE Goes
  <2> DEFINE d == DeclineInvite(s)
  <2>1. sal' = [d EXCEPT !.lost = 1, !.app = "gone"] /\ d \in SalType
    BY <1>12, <1>14
  <2> HIDE DEF d
  <2>2. sal'.app = "gone"
    BY <2>1 DEF SalType
  <2> QED BY <2>2 DEF Goes, Ongoing, HasCall
<1> QED BY <1>1, <1>11, <1>13, <1>14 DEF Goes

-----------------------------------------------------------------------------
(* What the far end is left with                                           *)

\* The call is, or was, in its dialog.
InDialog(s) == s.dialog = "confirmed" \/ s.last = "confirmed"

\* Each part of an operation belongs to the dialog as it is.
Placed(s) ==
  /\ s.last = "confirmed" => s.dialog = "terminated"
  /\ s.event \/ s.later \/ s.bye => s.dialog = "terminated"
  /\ s.linked \/ s.dir = "in" => s.dialog # "none"
  /\ s.dir = "out" => s.dialog # "null"
  /\ s.asked \in {"none", "INVITE", "BYE"}
  /\ \A st \in TransactionState : HasState(s, "BYE", st) => InDialog(s)
  /\ HasState(s, "BYE", "ended") => s.dialog = "terminated"

\* Before the answer one INVITE is on the way, in one direction; it has its answer when the
\* dialog ends, unless there is no answer to a CANCEL.
Calling(s) ==
  ~InDialog(s) =>
    /\ Single(s)
    /\ s.dir = "in" => ~InCourse(s, "INVITE")
    /\ s.dir = "out" => s.invite = "none"
    /\ s.dir = "out" /\ s.dialog = "early" => HasState(s, "INVITE", "proceeding")
    /\ s.asked # "none" =>
         /\ s.asked = "INVITE" /\ s.dialog = "none" /\ ~InCourse(s, "INVITE")
         /\ HasCall(s) \/ "silent" \in s.faults
    /\ s.dialog = "terminated" /\ "silent" \notin s.faults =>
         ~InCourse(s, "INVITE") /\ s.invite # "open"

\* The core gives up an operation without a dialog, or whose dialog is over.
Done(s) ==
  s.app = "gone" /\ s.faults \cap {"silent", "closed"} = {} =>
    /\ s.dialog \in {"none", "terminated"}
    /\ ~InDialog(s) => ~InCourse(s, "INVITE") /\ s.invite # "open"

\* What an operation leaves the far end with, at every time.
Settled(s) == Placed(s) /\ Calling(s) /\ Done(s)

\* The call and the link alone.
LEMMA BelowSettled ==
  ASSUME NEW s \in SalType, Settled(s), NEW t, Below(s, t), t.linked => s.dialog # "none",
         \/ t.app = s.app
         \/ HasCall(t)
         \/ s.dialog = "terminated"
         \/ s.dialog = "none" /\ s.asked = "none" /\ ~InCourse(s, "INVITE") /\ s.invite # "open"
         \/ "silent" \in s.faults
  PROVE  Settled(t)
<1>1. \A m, st : HasState(t, m, st) <=> HasState(s, m, st)
  BY DEF Below, HasState
<1>2. (Single(s) <=> Single(t)) /\ (InDialog(s) <=> InDialog(t))
  BY <1>1 DEF Below, Single, InDialog
<1>3. InCourse(t, "INVITE") <=> InCourse(s, "INVITE")
  BY <1>1 DEF InCourse
<1>4. Placed(t)
  BY <1>1, <1>2 DEF Settled, Placed, Below
<1>5. Calling(t)
  BY <1>1, <1>2, <1>3 DEF Settled, Calling, Below, HasCall, InDialog
<1>6. Done(t)
  BY <1>1, <1>2, <1>3 DEF Settled, Calling, Done, Below, HasCall
<1> QED BY <1>4, <1>5, <1>6 DEF Settled

\* References tell nothing of it.
LEMMA AlikeSettled ==
  ASSUME NEW s \in SalType, Settled(s), NEW t, Alike(s, t)
  PROVE  Settled(t)
<1>1. Below(s, t) /\ t.linked = s.linked /\ t.app = s.app
  BY DEF Alike, Below
<1> QED BY <1>1, BelowSettled DEF Settled, Placed

\* The operation takes another state.
LEMMA StateSettled ==
  ASSUME NEW s \in SalType, Settled(s), NEW st \in {"early", "active", "terminating", "terminated"}
  PROVE  Settled([s EXCEPT !.state = st])
<1>1. LET t == [s EXCEPT !.state = st]  IN  Below(s, t) /\ t.linked = s.linked /\ t.app = s.app
  BY StateShape
<1> QED BY <1>1, BelowSettled DEF Settled, Placed

\* The core ends the call.
LEMMA OverSettled ==
  ASSUME NEW s \in SalType, Settled(s)
  PROVE  Settled(CallOver(s))
<1>1. LET t == CallOver(s)
      IN  Below(s, t) /\ t.linked = s.linked /\ (t.app = s.app \/ HasCall(t))
  BY OverShape DEF HasCall
<1> QED BY <1>1, BelowSettled DEF Settled, Placed

\* A request: BYE in the dialog, INVITE in it or again.
LEMMA SendSettled ==
  ASSUME NEW s \in SalType, Settled(s), NEW m \in Method, m = "BYE" => InDialog(s),
         m = "INVITE" /\ ~InDialog(s) =>
           /\ s.dialog = "none" /\ s.asked = "none" /\ ~InCourse(s, "INVITE")
           /\ HasCall(s) \/ "silent" \in s.faults
  PROVE  Settled(SendRequest(s, m))
<1> DEFINE t == SendRequest(s, m)
<1>1. /\ Close(s, t) /\ DOMAIN t.out = DOMAIN s.out \cup {<<m, "calling">>}
      /\ Single(s) /\ (m # "INVITE" \/ ~InCourse(s, "INVITE")) => Single(t)
  BY SendShape
<1> HIDE DEF t
<1>2. \A x, st : HasState(t, x, st) <=> HasState(s, x, st) \/ (x = m /\ st = "calling")
  BY <1>1, StateIs
<1>3. InDialog(s) <=> InDialog(t)
  BY <1>1 DEF Close, Kept, InDialog
<1>4. m # "INVITE" => (InCourse(t, "INVITE") <=> InCourse(s, "INVITE"))
  BY <1>2 DEF InCourse
<1>5. Placed(t)
  BY <1>1, <1>2, <1>3 DEF Settled, Placed, Close, Kept, Steady
<1>6. Calling(t)
  BY <1>1, <1>2, <1>3, <1>4 DEF Settled, Placed, Calling, Close, Kept, Steady, HasCall
<1>7. Done(t)
  BY <1>1, <1>3, <1>4 DEF Settled, Done, Close, Kept, Steady, HasCall
<1>8. Settled(t)
  BY <1>5, <1>6, <1>7 DEF Settled
<1> QED BY <1>8 DEF t

\* cancelling_invite()
LEMMA CancellingSettled ==
  ASSUME NEW s \in SalType, Settled(s)
  PROVE  Settled(CancellingInvite(s))
<1> DEFINE c == SendRequest(s, "CANCEL")
<1>1. "CANCEL" \in Method /\ "terminating" \in {"early", "active", "terminating", "terminated"}
  BY DEF Method
<1>2. c \in SalType /\ Settled(c)
  BY <1>1, SendShape, SendSettled
<1>3. CancellingInvite(s) \in {[c EXCEPT !.state = "terminating"], [s EXCEPT !.state = "terminating"]}
  BY DEF CancellingInvite
<1> HIDE DEF c
<1> QED BY <1>1, <1>2, <1>3, StateSettled

\* sal_call_decline() of an INVITE ends the dialog that is not confirmed.
LEMMA DeclineSettled ==
  ASSUME NEW s \in SalType, Settled(s), s.dir # "none"
  PROVE  Settled(DeclineInvite(s))
<1> DEFINE t == DeclineInvite(s)
<1>1. /\ t \in SalType /\ Steady(s, t) /\ t.out = s.out
      /\ s.invite # "open" => t = s
      /\ s.invite = "open" => t.invite = "answered"
      /\ s.invite = "open" /\ s.dialog \in {"confirmed", "terminated"} =>
           t.dialog = s.dialog /\ t.last = s.last /\ t.event = s.event
      /\ s.invite = "open" /\ s.dialog \notin {"confirmed", "terminated"} =>
           t.dialog = "terminated" /\ t.last = s.dialog /\ t.event
  BY DeclineShape
<1> HIDE DEF t
<1>2. \A m, st : HasState(t, m, st) <=> HasState(s, m, st)
  BY <1>1 DEF HasState
<1>3. (Single(s) <=> Single(t)) /\ (InCourse(t, "INVITE") <=> InCourse(s, "INVITE"))
  BY <1>1, <1>2 DEF Single, InCourse
<1>4. CASE s.invite # "open"
  BY <1>1, <1>4 DEF t
<1>5. CASE s.invite = "open" /\ s.dialog \in {"confirmed", "terminated"}
  <2>1. InDialog(s) <=> InDialog(t)
    BY <1>1, <1>5 DEF InDialog
  <2>2. Placed(t)
    BY <1>1, <1>2, <1>5, <2>1 DEF Settled, Placed, Steady
  <2>3. Calling(t) /\ Done(t)
    BY <1>1, <1>2, <1>3, <1>5, <2>1 DEF Settled, Calling, Done, Steady, HasCall
  <2>4. Settled(t)
    BY <2>2, <2>3 DEF Settled
  <2> QED BY <2>4 DEF t
<1>6. CASE s.invite = "open" /\ s.dialog \notin {"confirmed", "terminated"}
  <2>1. ~InDialog(s)
    BY <1>6 DEF InDialog, Settled, Placed
  <2>2. /\ s.dir = "in" /\ ~InCourse(s, "INVITE") /\ s.asked = "none" /\ Single(s)
    BY <1>6, <2>1 DEF Settled, Placed, Calling, SalType
  <2>3. ~InDialog(t) /\ t.dialog = "terminated" /\ t.invite = "answered" /\ t.dir = "in"
        /\ t.asked = "none"
    BY <1>1, <1>6, <2>2 DEF InDialog, Steady
  <2>4. Placed(t)
    BY <1>1, <1>2, <1>6, <2>1, <2>3 DEF Settled, Placed, Steady
  <2>5. Calling(t) /\ Done(t)
    BY <1>3, <2>2, <2>3 DEF Calling, Done
  <2>6. Settled(t)
    BY <2>4, <2>5 DEF Settled
  <2> QED BY <2>6 DEF t
<1> QED BY <1>4, <1>5, <1>6

\* sal_call_terminate()
LEMMA TerminateSettled ==
  ASSUME NEW s \in SalType, Settled(s), s.dir # "none"
  PROVE  Settled(TerminateOp(s))
<1>1. "terminating" \in {"early", "active", "terminating", "terminated"}
      /\ "terminated" \in {"early", "active", "terminating", "terminated"} /\ "BYE" \in Method
  BY DEF Method
<1>2. CASE s.state \in {"terminating", "terminated"} \/ DialogOf(s) = "terminated"
  BY <1>2 DEF TerminateOp
<1>3. CASE s.state \notin {"terminating", "terminated"} /\ DialogOf(s) = "confirmed"
  <2> DEFINE b == SendRequest(s, "BYE")
  <2>1. InDialog(s)
    BY <1>3 DEF DialogOf, InDialog
  <2>2. b \in SalType /\ Settled(b)
    BY <1>1, <2>1, SendShape, SendSettled
  <2>3. TerminateOp(s) = [b EXCEPT !.state = "terminating"]
    BY <1>3 DEF TerminateOp
  <2> HIDE DEF b
  <2> QED BY <1>1, <2>2, <2>3, StateSettled
<1>4. CASE s.state \notin {"terminating", "terminated"} /\ s.dir = "in"
           /\ DialogOf(s) \notin {"confirmed", "terminated"}
  <2> DEFINE d == DeclineInvite(s)
  <2>1. d \in SalType /\ Settled(d)
    BY DeclineShape, DeclineSettled
  <2>2. TerminateOp(s) = [d EXCEPT !.state = "terminated"]
    BY <1>4 DEF TerminateOp
  <2> HIDE DEF d
  <2> QED BY <1>1, <2>1, <2>2, StateSettled
<1>5. CASE s.state \notin {"terminating", "terminated"} /\ s.dir = "out"
           /\ DialogOf(s) \notin {"confirmed", "terminated"}
  <2>1. DialogOf(s) \in {"early", "none"}
    BY <1>5 DEF DialogOf, SalType
  <2>2. TerminateOp(s) \in {CancellingInvite(s), [s EXCEPT !.state = "terminating"]}
    BY <1>5, <2>1 DEF TerminateOp
  <2> QED BY <1>1, <2>2, CancellingSettled, StateSettled
<1> QED BY <1>2, <1>3, <1>4, <1>5 DEF SalType

\* call_set_released(): without a dialog, or after it.
LEMMA ReleasedSettled ==
  ASSUME NEW s \in SalType, Settled(s),
         \/ s.dialog = "terminated"
         \/ s.dialog = "none" /\ s.asked = "none" /\ ~InCourse(s, "INVITE") /\ s.invite # "open"
         \/ "silent" \in s.faults
  PROVE  CallSetReleased(s) \in SalType /\ Settled(CallSetReleased(s))
<1>1. LET t == CallSetReleased(s)
      IN  t \in SalType /\ Below(s, t) /\ (t.linked => s.linked)
  BY ReleasedShape DEF Alike
<1> QED BY <1>1, BelowSettled DEF Settled, Placed

\* Nothing is on the way to the far end, and nothing waits for it.
Unasked(s) == s.dialog = "none" /\ s.asked = "none" /\ ~InCourse(s, "INVITE") /\ s.invite # "open"

\* call_failure() by what comes of it.
LEMMA FailsIs ==
  ASSUME NEW s, HasCall(s), NEW outcome \in FailureOutcome
  PROVE  \/ Fails(s, outcome) \in {s, CallOver(s)}
         \/ outcome = "gone" /\ Fails(s, outcome) = ReleaseOp(s)
<1>1. ASSUME s.app = "over"  PROVE Fails(s, outcome) = s
  BY <1>1 DEF Fails, HasCall
<1>2. ASSUME s.app = "live"  PROVE Fails(s, "live") = s
  BY <1>2 DEF Fails, HasCall
<1>3. ASSUME s.app = "live"  PROVE Fails(s, "over") = CallOver(s)
  BY <1>3 DEF Fails, HasCall
<1>4. ASSUME s.app = "live"  PROVE Fails(s, "gone") = ReleaseOp(s)
  BY <1>4 DEF Fails, HasCall
<1> QED BY <1>1, <1>2, <1>3, <1>4 DEF FailureOutcome, HasCall

\* call_failure() of the core
LEMMA FailsSettled ==
  ASSUME NEW s \in SalType, Settled(s), HasCall(s), NEW outcome \in FailureOutcome,
         outcome = "gone" => s.dialog = "terminated" \/ Unasked(s)
  PROVE  LET t == Fails(s, outcome)
         IN  t \in SalType /\ Settled(t) /\ Below(s, t)
<1>1. \/ Fails(s, outcome) \in {s, CallOver(s)}
      \/ outcome = "gone" /\ Fails(s, outcome) = ReleaseOp(s)
  BY FailsIs
<1>2. LET t == CallOver(s)  IN  t \in SalType /\ Settled(t) /\ Below(s, t)
  BY OverShape, OverSettled
<1>3. ASSUME outcome = "gone"
      PROVE  LET t == ReleaseOp(s)  IN  t \in SalType /\ Settled(t) /\ Below(s, t)
  <2>1. LET t == ReleaseOp(s)  IN  t \in SalType /\ Below(s, t) /\ t.linked = s.linked
    BY ReleaseShape
  <2> QED BY <1>3, <2>1, BelowSettled DEF Unasked, Settled, Placed
<1>4. Below(s, s)
  BY DEF Below
<1> QED BY <1>1, <1>2, <1>3, <1>4

\* call_process_response() without a confirmed dialog
LEMMA EarlySettled ==
  ASSUME NEW t \in SalType, Settled(t), HasCall(t), NEW m, NEW code,
         NEW outcome \in FailureOutcome, m = "INVITE" /\ code \notin Provisional => Unasked(t)
  PROVE  EarlyResponse(t, m, code, outcome) \in SalType /\ Settled(EarlyResponse(t, m, code, outcome))
<1>1. CASE m = "INVITE" /\ code \notin Provisional
  <2>1. Unasked(t)
    BY <1>1
  <2> DEFINE f == Fails(t, outcome)
  <2>2. f \in SalType /\ Settled(f) /\ Below(t, f)
    BY <2>1, FailsSettled
  <2>3. EarlyResponse(t, m, code, outcome)
          \in {t, f, CallSetReleased(t), CallSetReleased(f), CancellingInvite(t)}
    BY <1>1 DEF EarlyResponse
  <2>4. CancellingInvite(t) \in SalType /\ Settled(CancellingInvite(t))
    BY CancellingShape, CancellingSettled
  <2> HIDE DEF f
  <2>5. Unasked(f)
    BY <2>1, <2>2 DEF Unasked, Below, InCourse, HasState
  <2>6. CallSetReleased(t) \in SalType /\ Settled(CallSetReleased(t))
    BY <2>1, ReleasedSettled DEF Unasked
  <2>7. CallSetReleased(f) \in SalType /\ Settled(CallSetReleased(f))
    BY <2>2, <2>5, ReleasedSettled DEF Unasked
  <2> QED BY <2>2, <2>3, <2>4, <2>6, <2>7
<1>2. CASE ~(m = "INVITE" /\ code \notin Provisional)
  <2>1. EarlyResponse(t, m, code, outcome) \in {t, CancellingInvite(t)}
    BY <1>2 DEF EarlyResponse
  <2> QED BY <2>1, CancellingShape, CancellingSettled
<1> QED BY <1>1, <1>2

\* call_process_response() in a confirmed dialog
LEMMA ConfirmedSettled ==
  ASSUME NEW s \in SalType, Settled(s), HasCall(s), s.state # "terminated",
         s.dir \in {"in", "out"}, s.dialog = "confirmed", NEW m, NEW code,
         NEW outcome \in {"live", "over"}, NEW hangup, NEW built
  PROVE  LET u == ConfirmedResponse(s, m, code, outcome, hangup, built)
         IN  u \in SalType /\ Settled(u)
<1>1. outcome \in FailureOutcome /\ outcome # "gone"
  BY DEF FailureOutcome
<1>2. ConfirmedResponse(s, m, code, outcome, hangup, built) \in SalType
  BY <1>1, ConfirmedKeeps
<1>3. CASE s.state = "terminating"
  <2>1. "BYE" \in Method /\ InDialog(s)
    BY DEF Method, InDialog
  <2>2. Settled(SendRequest(s, "BYE"))
    BY <2>1, SendSettled
  <2> QED BY <1>2, <1>3, <2>2 DEF ConfirmedResponse
<1>4. CASE s.state # "terminating" /\ m = "INVITE" /\ code = "ok" /\ built
  <2> DEFINE a == CallAcceptedBy(s, hangup)
             v == TerminateOp(s)
  <2>1. v \in SalType /\ Settled(v)
    BY <1>4, TerminateKeeps, TerminateSettled
  <2>2. a \in {s, [v EXCEPT !.app = "over"]}
    BY DEF CallAcceptedBy
  <2> HIDE DEF v
  <2>3. [v EXCEPT !.app = "over"] \in SalType /\ Settled([v EXCEPT !.app = "over"])
    <3> DEFINE o == [v EXCEPT !.app = "over"]
    <3>1. o \in SalType /\ Below(v, o) /\ o.linked = v.linked /\ HasCall(o)
      BY <2>1 DEF SalType, Below, HasCall
    <3> HIDE DEF o
    <3>2. Settled(o)
      BY <2>1, <3>1, BelowSettled DEF Settled, Placed
    <3> QED BY <3>1, <3>2 DEF o
  <2>4. a \in SalType /\ Settled(a)
    BY <2>2, <2>3
  <2>5. ConfirmedResponse(s, m, code, outcome, hangup, built) = [a EXCEPT !.state = "active"]
    BY <1>4 DEF ConfirmedResponse
  <2> HIDE DEF a
  <2> QED BY <1>2, <2>4, <2>5, StateSettled
<1>5. CASE s.state # "terminating" /\ m = "INVITE" /\ code = "ok" /\ ~built
  <2> DEFINE r == RefOp(s)
             l == [r EXCEPT !.lost = r.lost + 1]
  <2>1. r \in SalType /\ Settled(r)
    BY RefAlike, AlikeSettled
  <2>2. ConfirmedResponse(s, m, code, outcome, hangup, built) = l
    BY <1>4, <1>5 DEF ConfirmedResponse
  <2> HIDE DEF r
  <2>3. Below(r, l) /\ l.linked = r.linked /\ l.app = r.app
    BY <2>1 DEF SalType, Below
  <2> HIDE DEF l
  <2>4. Settled(l)
    BY <2>1, <2>3, BelowSettled DEF Settled, Placed
  <2> QED BY <1>2, <2>2, <2>4
<1>6. CASE s.state # "terminating" /\ ~(m = "INVITE" /\ code = "ok")
  <2>1. ConfirmedResponse(s, m, code, outcome, hangup, built) \in {s, Fails(s, outcome)}
    BY <1>6 DEF ConfirmedResponse
  <2> QED BY <1>1, <1>2, <2>1, FailsSettled
<1> QED BY <1>3, <1>4, <1>5, <1>6

\* Outcomes the core can have.
LEMMA OutcomesAre ==
  ASSUME NEW s, NEW outcome \in Outcomes(s)
  PROVE  outcome \in FailureOutcome /\ (InDialog(s) => outcome \in {"live", "over"})
BY DEF Outcomes, FailureOutcome, InDialog

\* call_process_response()
LEMMA ProcessSettled ==
  ASSUME NEW s \in SalType, Settled(s), HasCall(s), s.state # "terminated",
         s.dir \in {"in", "out"}, NEW m \in Method, NEW code \in Code, NEW outcome \in Outcomes(s),
         NEW hangup \in BOOLEAN, NEW built \in BOOLEAN,
         m = "INVITE" /\ code \notin Provisional =>
           s.dialog \in {"confirmed", "terminated"} \/ Unasked(s)
  PROVE  Settled(ProcessResponse(s, m, code, outcome, hangup, built))
<1> DEFINE yes == (m # "CANCEL" /\ s.dialog # "none")
           x == LinkDialog(s, yes)
           t == RefOp(x)
<1>1. outcome \in FailureOutcome /\ (InDialog(s) => outcome \in {"live", "over"})
  BY OutcomesAre
<1>2. yes \in BOOLEAN
  OBVIOUS
<1>3. /\ x \in SalType /\ Below(s, x) /\ (x.linked <=> yes) /\ x.app = s.app /\ x.state = s.state
  <2> HIDE DEF yes
  <2>1. x \in SalType /\ Alike([s EXCEPT !.linked = yes], x)
    BY <1>2, LinkAlike
  <2> HIDE DEF x
  <2> QED BY <1>2, <2>1 DEF Alike, Below, SalType
<1> HIDE DEF x
<1>4. Settled(x)
  BY <1>3, BelowSettled
<1>5. /\ t \in SalType /\ Settled(t) /\ Below(s, t) /\ (t.linked <=> yes) /\ t.app = s.app
      /\ t.state = s.state
  BY <1>3, <1>4, RefAlike, AlikeSettled DEF Alike, Below
<1>6. ProcessResponse(s, m, code, outcome, hangup, built) =
        UnrefOp(CASE ~t.linked \/ t.dialog \in {"null", "early"} -> EarlyResponse(t, m, code, outcome)
                  [] t.linked /\ t.dialog = "confirmed" ->
                       ConfirmedResponse(t, m, code, outcome, hangup, built)
                  [] t.linked /\ t.dialog = "terminated" ->
                       IF code \in {"ok"} \cup Provisional THEN t ELSE Fails(t, outcome))
  BY DEF ProcessResponse, x
<1> HIDE DEF t
<1>7. HasCall(t) /\ t.dir \in {"in", "out"} /\ t.dialog = s.dialog
      /\ (Unasked(s) => Unasked(t)) /\ (InDialog(t) <=> InDialog(s))
  BY <1>5 DEF HasCall, Below, Unasked, InDialog, InCourse, HasState
<1>8. ASSUME NEW u \in SalType, Settled(u)  PROVE Settled(UnrefOp(u))
  BY <1>8, UnrefAlike, AlikeSettled
<1>9. CASE ~t.linked \/ t.dialog \in {"null", "early"}
  <2>1. m = "INVITE" /\ code \notin Provisional => Unasked(t)
    BY <1>5, <1>7, <1>9 DEF Unasked
  <2>2. LET e == EarlyResponse(t, m, code, outcome)  IN  e \in SalType /\ Settled(e)
    BY <1>1, <1>5, <1>7, <2>1, EarlySettled
  <2> QED BY <1>6, <1>8, <1>9, <2>2
<1>10. CASE t.linked /\ t.dialog = "confirmed"
  <2>1. outcome \in {"live", "over"}
    BY <1>1, <1>7, <1>10 DEF InDialog
  <2>2. LET e == ConfirmedResponse(t, m, code, outcome, hangup, built)  IN  e \in SalType /\ Settled(e)
    BY <1>5, <1>7, <1>10, <2>1, ConfirmedSettled
  <2> QED BY <1>6, <1>8, <1>10, <2>2
<1>11. CASE t.linked /\ t.dialog = "terminated"
  <2>1. Fails(t, outcome) \in SalType /\ Settled(Fails(t, outcome))
    BY <1>1, <1>5, <1>7, <1>11, FailsSettled
  <2> QED BY <1>5, <1>6, <1>8, <1>11, <2>1
<1> QED BY <1>5, <1>7, <1>9, <1>10, <1>11 DEF SalType

\* A challenge: the request again, or a password is asked for.
LEMMA ChallengedSettled ==
  ASSUME NEW s \in SalType, Settled(s), HasCall(s), s.state # "terminated",
         s.dir \in {"in", "out"}, NEW m \in {"INVITE", "BYE"}, NEW outcome \in Outcomes(s),
         NEW hangup \in BOOLEAN, m = "BYE" => InDialog(s),
         m = "INVITE" => s.dialog \in {"confirmed", "terminated"} \/ Unasked(s),
         m = "INVITE" => InDialog(s) \/ Unasked(s),
         NEW t \in Challenged(s, m, outcome, hangup)
  PROVE  Settled(t)
<1>1. m \in Method /\ "challenge" \in Code /\ TRUE \in BOOLEAN
  BY DEF Method, Code
<1>2. Settled(ProcessResponse(s, m, "challenge", outcome, hangup, TRUE))
  BY <1>1, ProcessSettled
<1>3. Settled(SendRequest(s, m))
  BY <1>1, SendSettled DEF Unasked
<1>4. Settled([s EXCEPT !.asked = m])
  <2> DEFINE a == [s EXCEPT !.asked = m]
  <2>1. /\ a.faults = s.faults /\ a.dir = s.dir /\ a.app = s.app /\ a.dialog = s.dialog
        /\ a.linked = s.linked /\ a.last = s.last /\ a.event = s.event /\ a.later = s.later
        /\ a.out = s.out /\ a.asked = m /\ a.invite = s.invite /\ a.bye = s.bye
    BY DEF SalType
  <2> HIDE DEF a
  <2>2. \A x, st : HasState(a, x, st) <=> HasState(s, x, st)
    BY <2>1 DEF HasState
  <2>3. (Single(s) <=> Single(a)) /\ (InDialog(s) <=> InDialog(a))
        /\ (InCourse(a, "INVITE") <=> InCourse(s, "INVITE"))
    BY <2>1, <2>2 DEF Single, InDialog, InCourse
  <2>4. Placed(a)
    BY <2>1, <2>2, <2>3 DEF Settled, Placed
  <2>5. Calling(a)
    BY <2>1, <2>2, <2>3 DEF Settled, Calling, Unasked, HasCall
  <2>6. Done(a)
    BY <2>1, <2>3 DEF Settled, Done
  <2>7. Settled(a)
    BY <2>4, <2>5, <2>6 DEF Settled
  <2> QED BY <2>7 DEF a
<1> QED BY <1>2, <1>3, <1>4 DEF Challenged

\* A response and the dialog it shows leave the far end in order.
LEMMA ProgressSettled ==
  ASSUME sal \in SalType, Settled(sal), sal.dir \in {"in", "out"}, NEW m \in Method,
         NEW code \in Code, Answers(m, code), NEW from \in {"calling", "proceeding"},
         HasState(sal, m, from), NEW to \in TransactionState,
         to = CASE code \in Provisional                  -> "proceeding"
                [] code = "challenge" /\ m = "BYE"        -> "challenged"
                [] OTHER                                 -> "ended",
         NEW d \in DialogState, d = DialogAfter(sal, m, code),
         NEW s, s = DialogBecomes(Entering(Leaving(sal, m, from), m, to), d)
  PROVE  /\ Settled(s)
         /\ m = "INVITE" /\ code \notin Provisional =>
              s.dialog \in {"confirmed", "terminated"} \/ Unasked(s)
         /\ code = "challenge" => (m = "BYE" => InDialog(s)) /\ (m = "INVITE" => InDialog(s) \/ Unasked(s))
<1>1. /\ s \in SalType /\ Steady(sal, s) /\ s.pending = sal.pending
      /\ s.invite = sal.invite /\ s.released = sal.released
      /\ <<m, to>> \in DOMAIN s.out
      /\ DOMAIN s.out \subseteq DOMAIN sal.out \cup {<<m, to>>}
      /\ DOMAIN sal.out \ {<<m, from>>} \subseteq DOMAIN s.out
      /\ sal.dialog \in {d, "terminated"} =>
           s.dialog = sal.dialog /\ s.last = sal.last /\ s.event = sal.event
      /\ sal.dialog \notin {d, "terminated"} =>
           s.dialog = d /\ s.last = sal.dialog /\ (s.event <=> d = "terminated")
      /\ Single(sal) /\ (m # "INVITE" \/ from \in {"calling", "proceeding"}) => Single(s)
      /\ Single(sal) /\ m = "INVITE" /\ from \in {"calling", "proceeding"}
           /\ to \notin {"calling", "proceeding"} => ~InCourse(s, "INVITE")
  BY ProgressShape
<1>2. \A x, st : /\ HasState(s, x, st) => HasState(sal, x, st) \/ (x = m /\ st = to)
                 /\ HasState(sal, x, st) => HasState(s, x, st) \/ (x = m /\ st = from)
                 /\ HasState(s, m, to)
  BY <1>1, StateIs
<1>3. /\ code \in Provisional => to = "proceeding"
      /\ code \notin Provisional => to \in {"challenged", "ended"}
      /\ m = "BYE" /\ code = "challenge" => to = "challenged"
  BY DEF Provisional
<1>4. Placed(sal) /\ Calling(sal) /\ Done(sal)
  BY DEF Settled
<1>5. m = "INVITE" => InCourse(sal, "INVITE")
  BY DEF InCourse
<1>6. InCourse(s, "INVITE") => InCourse(sal, "INVITE")
  BY <1>2, <1>3, <1>5 DEF InCourse
<1>7. m = "BYE" => InDialog(sal)
  BY <1>4, StateIs DEF Placed, TransactionState
<1>8. m = "INVITE" /\ ~InDialog(sal) =>
        /\ sal.asked = "none" /\ sal.dir = "out" /\ sal.invite = "none" /\ sal.dialog # "null"
        /\ Single(sal) /\ (code \notin Provisional => ~InCourse(s, "INVITE"))
  BY <1>1, <1>3, <1>4, <1>5 DEF Calling, Placed
<1>9. CASE sal.dialog \in {d, "terminated"}
  <2>1. /\ s.dialog = sal.dialog /\ s.last = sal.last /\ s.event = sal.event
        /\ (InDialog(s) <=> InDialog(sal))
    BY <1>1, <1>9 DEF InDialog
  <2>2. m = "BYE" /\ to = "ended" => sal.dialog = "terminated"
    BY <1>3, <1>9 DEF Answers, DialogAfter, Provisional
  <2>3. m = "INVITE" /\ sal.dialog = "early" => code \in Provisional
    BY <1>9 DEF Answers, DialogAfter, Provisional, Code
  <2>4. Placed(s)
    BY <1>1, <1>2, <1>4, <1>7, <2>1, <2>2 DEF Placed, Steady
  <2>5. ~InDialog(sal) => Single(s)
    BY <1>1, <1>4 DEF Calling
  <2>6. ~InDialog(sal) /\ sal.dir = "out" /\ sal.dialog = "early" => HasState(s, "INVITE", "proceeding")
    BY <1>2, <1>3, <1>4, <2>3 DEF Calling
  <2>7. Calling(s)
    BY <1>1, <1>4, <1>6, <2>1, <2>5, <2>6 DEF Calling, Steady, HasCall
  <2>8. Done(s)
    BY <1>1, <1>4, <1>6, <2>1 DEF Done, Steady
  <2>9. m = "INVITE" /\ code \notin Provisional =>
          s.dialog \in {"confirmed", "terminated"} \/ Unasked(s)
    <3>1. SUFFICES ASSUME m = "INVITE", code \notin Provisional,
                          sal.dialog \notin {"confirmed", "terminated"}
                   PROVE  Unasked(s)
      BY <2>1
    <3>2. ~InDialog(sal)
      BY <1>4, <3>1 DEF InDialog, Placed
    <3>3. sal.dialog = "none"
      BY <1>8, <2>3, <3>1, <3>2 DEF SalType
    <3> QED BY <1>1, <1>8, <2>1, <3>1, <3>2, <3>3 DEF Unasked, Steady
  <2>10. code = "challenge" => (m = "BYE" => InDialog(s)) /\ (m = "INVITE" => InDialog(s) \/ Unasked(s))
    <3>1. m = "INVITE" /\ code = "challenge" => sal.dialog \in {"none", "confirmed"}
      BY DEF Answers
    <3>2. code = "challenge" => code \notin Provisional
      BY DEF Provisional
    <3> QED BY <1>7, <2>1, <2>9, <3>1, <3>2 DEF InDialog
  <2> QED BY <2>4, <2>7, <2>8, <2>9, <2>10 DEF Settled
<1>10. CASE sal.dialog \notin {d, "terminated"}
  <2>1. s.dialog = d /\ s.last = sal.dialog /\ (s.event <=> d = "terminated")
    BY <1>1, <1>10
  <2>2. sal.last # "confirmed" /\ ~sal.event /\ ~sal.later /\ ~sal.bye
        /\ ~HasState(sal, "BYE", "ended")
    BY <1>4, <1>10 DEF Placed
  <2>3. \/ m = "INVITE" /\ code = "ringing" /\ sal.dialog = "none" /\ d = "early"
        \/ m = "INVITE" /\ code = "ok" /\ d = "confirmed" /\ sal.dialog # "confirmed"
        \/ m = "INVITE" /\ code = "error" /\ sal.dialog = "early" /\ d = "terminated"
        \/ sal.dialog = "confirmed" /\ d = "terminated" /\ m \in {"INVITE", "BYE"}
             /\ code \in {"ok", "error", "gone"}
    <3>1. CASE m = "INVITE"
      BY <1>10, <3>1 DEF DialogAfter, Answers, Code
    <3>2. CASE m = "BYE"
      <4>1. sal.dialog = "confirmed"
        BY <1>7, <2>2, <3>2 DEF InDialog
      <4> QED BY <1>10, <3>2, <4>1 DEF DialogAfter, Answers
    <3>3. CASE m \notin {"INVITE", "BYE"}
      BY <1>10, <3>3 DEF DialogAfter
    <3> QED BY <3>1, <3>2, <3>3
  <2>4. CASE m = "INVITE" /\ code = "ringing" /\ sal.dialog = "none" /\ d = "early"
    <3>1. ~InDialog(sal) /\ ~InDialog(s) /\ code \in Provisional /\ code # "challenge"
      BY <2>1, <2>2, <2>4 DEF InDialog, Provisional
    <3>2. Single(s) /\ HasState(s, "INVITE", "proceeding")
      BY <1>1, <1>2, <1>3, <1>8, <2>4, <3>1
    <3>3. Placed(s)
      BY <1>1, <1>2, <1>4, <1>8, <2>1, <2>2, <2>4, <3>1 DEF Placed, Steady
    <3>4. Calling(s)
      BY <1>1, <1>8, <2>1, <2>4, <3>1, <3>2 DEF Calling, Steady
    <3>5. Done(s)
      BY <1>1, <1>4, <1>5, <2>4, <3>1 DEF Done, Steady
    <3> QED BY <3>1, <3>3, <3>4, <3>5 DEF Settled
  <2>5. CASE m = "INVITE" /\ code = "ok" /\ d = "confirmed" /\ sal.dialog # "confirmed"
    <3>1. ~InDialog(sal) /\ InDialog(s) /\ s.dialog = "confirmed"
      BY <2>1, <2>2, <2>5 DEF InDialog
    <3>2. Placed(s)
      BY <1>1, <1>2, <1>3, <1>4, <2>1, <2>2, <2>5, <3>1 DEF Placed, Steady
    <3>3. Calling(s)
      BY <3>1 DEF Calling
    <3>4. Done(s)
      BY <1>1, <1>4, <1>5, <2>5, <3>1 DEF Done, Steady
    <3> QED BY <2>5, <3>1, <3>2, <3>3, <3>4 DEF Settled
  <2>6. CASE m = "INVITE" /\ code = "error" /\ sal.dialog = "early" /\ d = "terminated"
    <3>1. ~InDialog(sal) /\ ~InDialog(s) /\ code \notin Provisional
      BY <2>1, <2>2, <2>6 DEF InDialog, Provisional
    <3>2. Single(s) /\ ~InCourse(s, "INVITE") /\ s.asked = "none" /\ s.invite = "none" /\ s.dir = "out"
      BY <1>1, <1>8, <2>6, <3>1 DEF Steady
    <3>3. Placed(s)
      BY <1>1, <1>2, <1>4, <2>1, <2>2, <2>6, <3>1 DEF Placed, Steady
    <3>4. Calling(s) /\ Done(s)
      BY <2>1, <2>6, <3>2 DEF Calling, Done
    <3> QED BY <2>1, <2>6, <3>3, <3>4 DEF Settled
  <2>7. CASE sal.dialog = "confirmed" /\ d = "terminated" /\ m \in {"INVITE", "BYE"}
             /\ code \in {"ok", "error", "gone"}
    <3>1. InDialog(s) /\ s.dialog = "terminated" /\ InDialog(sal)
      BY <2>1, <2>7 DEF InDialog
    <3>2. Placed(s)
      BY <1>1, <1>2, <1>4, <2>1, <2>7, <3>1 DEF Placed, Steady
    <3>3. Calling(s) /\ Done(s)
      BY <3>1 DEF Calling, Done
    <3> QED BY <2>7, <3>1, <3>2, <3>3 DEF Settled
  <2> QED BY <2>3, <2>4, <2>5, <2>6, <2>7
<1> QED BY <1>9, <1>10

\* What the end of each step is, to the far end.
Leaves == Settled(sal)'

\* A response.
LEMMA ResponseSettled ==
  ASSUME IInv, Settled(sal), NEW m \in Method, NEW code \in Code, Answers(m, code),
         Response(m, code)
  PROVE  Leaves
<1> DEFINE to == CASE code \in Provisional                  -> "proceeding"
                   [] code = "challenge" /\ m = "BYE"        -> "challenged"
                   [] OTHER                                 -> "ended"
           d == DialogAfter(sal, m, code)
<1>1. PICK from \in {"calling", "proceeding"} :
        /\ HasState(sal, m, from)
        /\ LET s == DialogBecomes(Entering(Leaving(sal, m, from), m, to), d)
           IN  IF s.state = "terminated" THEN sal' = s
               ELSE \E outcome \in Outcomes(s), hangup \in BOOLEAN :
                      IF code = "challenge"
                      THEN sal' \in Challenged(s, m, outcome, hangup)
                      ELSE \E built \in IF "noack" \in s.faults THEN BOOLEAN ELSE {TRUE} :
                             sal' = ProcessResponse(s, m, code, outcome, hangup, built)
  BY DEF Response
<1> DEFINE s == DialogBecomes(Entering(Leaving(sal, m, from), m, to), d)
<1>2. sal \in SalType /\ Sound(sal) /\ (HasCall(sal) \/ sal.state = "terminated")
  BY <1>1, StateIs, BusyHasCall
<1>3. sal.dir \in {"in", "out"}
  BY <1>2 DEF Sound, SalType
<1>4. to \in TransactionState
  BY DEF TransactionState
<1>5. d \in DialogState
  BY <1>2 DEF DialogAfter, DialogState, SalType
<1>6. /\ Settled(s)
      /\ m = "INVITE" /\ code \notin Provisional =>
           s.dialog \in {"confirmed", "terminated"} \/ Unasked(s)
      /\ code = "challenge" => (m = "BYE" => InDialog(s)) /\ (m = "INVITE" => InDialog(s) \/ Unasked(s))
  <2>1. to = CASE code \in Provisional                  -> "proceeding"
               [] code = "challenge" /\ m = "BYE"        -> "challenged"
               [] OTHER                                 -> "ended"
    OBVIOUS
  <2>2. d = DialogAfter(sal, m, code)
    OBVIOUS
  <2>3. s = DialogBecomes(Entering(Leaving(sal, m, from), m, to), d)
    OBVIOUS
  <2> HIDE DEF to, d, s
  <2> QED BY <1>1, <1>2, <1>3, <1>4, <1>5, <2>1, <2>2, <2>3, ProgressSettled
<1>7. s \in SalType /\ Steady(sal, s)
  <2> HIDE DEF to, d
  <2>1. sal \in SalType /\ HasState(sal, m, from)
    BY <1>1, <1>2
  <2> QED BY ZenonT(60), <2>1, <1>4, <1>5, ProgressShape
<1> HIDE DEF to, d, s
<1>8. HasCall(s) \/ s.state = "terminated"
  BY <1>2, <1>7 DEF Steady, HasCall
<1>9. s.dir \in {"in", "out"}
  BY <1>3, <1>7 DEF Steady
<1>10. IF s.state = "terminated" THEN sal' = s
       ELSE \E outcome \in Outcomes(s), hangup \in BOOLEAN :
              IF code = "challenge"
              THEN sal' \in Challenged(s, m, outcome, hangup)
              ELSE \E built \in IF "noack" \in s.faults THEN BOOLEAN ELSE {TRUE} :
                     sal' = ProcessResponse(s, m, code, outcome, hangup, built)
  BY <1>1 DEF s
<1>11. CASE s.state = "terminated"
  <2>1. sal' = s
    BY <1>10, <1>11
  <2> QED BY <1>6, <2>1 DEF Leaves
<1>12. CASE s.state # "terminated"
  <2>1. PICK outcome \in Outcomes(s), hangup \in BOOLEAN :
              IF code = "challenge"
              THEN sal' \in Challenged(s, m, outcome, hangup)
              ELSE \E built \in IF "noack" \in s.faults THEN BOOLEAN ELSE {TRUE} :
                     sal' = ProcessResponse(s, m, code, outcome, hangup, built)
    BY <1>10, <1>12
  <2>2. CASE code = "challenge"
    <3>1. sal' \in Challenged(s, m, outcome, hangup) /\ m \in {"INVITE", "BYE"}
      BY <2>1, <2>2 DEF Answers
    <3>2. code \notin Provisional
      BY <2>2 DEF Provisional
    <3>3. (m = "BYE" => InDialog(s)) /\ (m = "INVITE" => InDialog(s) \/ Unasked(s))
          /\ (m = "INVITE" => s.dialog \in {"confirmed", "terminated"} \/ Unasked(s))
      BY <1>6, <2>2, <3>2
    <3> DEFINE t == sal'
    <3>4. t \in Challenged(s, m, outcome, hangup)
      BY <3>1
    <3> HIDE DEF t
    <3>5. Settled(t)
      BY <1>6, <1>7, <1>8, <1>9, <1>12, <3>1, <3>3, <3>4, ChallengedSettled
    <3> QED BY <3>5 DEF Leaves, t
  <2>3. CASE code # "challenge"
    <3>1. PICK built \in BOOLEAN : sal' = ProcessResponse(s, m, code, outcome, hangup, built)
      BY <2>1, <2>3
    <3>2. Settled(ProcessResponse(s, m, code, outcome, hangup, built))
      BY <1>6, <1>7, <1>8, <1>9, <1>12, ProcessSettled
    <3> QED BY <3>1, <3>2 DEF Leaves
  <2> QED BY <2>2, <2>3
<1> QED BY <1>11, <1>12

\* The end of a transaction changes little: the others stay, and none is new.
LEMMA RestSettled ==
  ASSUME NEW s \in SalType, Settled(s), NEW t \in SalType, t.faults = s.faults, t.dir = s.dir,
         t.app = s.app, t.dialog = s.dialog, t.last = s.last, t.asked = s.asked,
         t.linked = s.linked, t.event => s.event, t.later => s.later, t.bye => s.bye,
         t.invite = s.invite \/ t.invite = "none",
         NEW x, x \notin {<<"INVITE", "calling">>, <<"INVITE", "proceeding">>},
         DOMAIN t.out \subseteq DOMAIN s.out, DOMAIN s.out \ {x} \subseteq DOMAIN t.out,
         Single(s) => Single(t)
  PROVE  Settled(t)
<1>1. \A m, st : HasState(t, m, st) => HasState(s, m, st)
  BY StateIs
<1>2. HasState(s, "INVITE", "proceeding") => HasState(t, "INVITE", "proceeding")
  BY StateIs
<1>3. (InCourse(t, "INVITE") => InCourse(s, "INVITE")) /\ (InDialog(t) <=> InDialog(s))
  BY <1>1 DEF InCourse, InDialog
<1>4. Placed(t)
  BY <1>1, <1>3 DEF Settled, Placed
<1>5. Calling(t)
  BY <1>2, <1>3 DEF Settled, Calling, HasCall
<1>6. Done(t)
  BY <1>3 DEF Settled, Done
<1> QED BY <1>4, <1>5, <1>6 DEF Settled

\* call_process_transaction_terminated(): the dialog is over when a BYE is.
LEMMA AfterSettled ==
  ASSUME NEW s \in SalType, Settled(s), NEW ofBye \in BOOLEAN, ofBye => s.dialog = "terminated"
  PROVE  Settled(AfterTransaction(s, ofBye))
<1>1. CASE s.state = "terminating" /\ ofBye /\ ~s.linked
  <2>1. CallSetReleased(s) \in SalType /\ Settled(CallSetReleased(s))
    BY <1>1, ReleasedSettled
  <2>2. AfterTransaction(s, ofBye) = UnrefOp(CallSetReleased(s))
    BY <1>1 DEF AfterTransaction
  <2> QED BY <2>1, <2>2, UnrefAlike, AlikeSettled
<1>2. CASE ~(s.state = "terminating" /\ ofBye /\ ~s.linked)
  <2>1. AfterTransaction(s, ofBye) = UnrefOp(s)
    BY <1>2 DEF AfterTransaction
  <2> QED BY <2>1, UnrefAlike, AlikeSettled
<1> QED BY <1>1, <1>2

\* The end of a transaction.
LEMMA TransactionEndsSettled ==
  ASSUME IInv, Settled(sal), NEW m \in Method, NEW st, TransactionEnds(m, st)
  PROVE  Leaves
<1> DEFINE s == Leaving(sal, m, st)
           b == (m = "BYE" /\ st = "ended")
<1>1. sal \in SalType /\ HasState(sal, m, st) /\ st \in {"ended", "challenged"}
      /\ sal' = AfterTransaction(s, b)
  BY DEF TransactionEnds, IInv, Counted
<1>2. /\ s \in SalType /\ Close(sal, s)
      /\ DOMAIN s.out \subseteq DOMAIN sal.out
      /\ DOMAIN sal.out \ {<<m, st>>} \subseteq DOMAIN s.out
      /\ Single(sal) => Single(s)
  BY <1>1, LeavingShape
<1>3. b => sal.dialog = "terminated"
  BY <1>1 DEF Settled, Placed
<1> HIDE DEF s
<1>4. <<m, st>> \notin {<<"INVITE", "calling">>, <<"INVITE", "proceeding">>}
  BY <1>1
<1>5. Settled(s)
  BY <1>1, <1>2, <1>4, RestSettled DEF Close, Kept, Steady
<1>6. b => s.dialog = "terminated"
  BY <1>2, <1>3 DEF Close, Kept
<1>7. b \in BOOLEAN
  OBVIOUS
<1> HIDE DEF b
<1>8. Settled(AfterTransaction(s, b))
  BY <1>2, <1>5, <1>6, <1>7, AfterSettled
<1> QED BY <1>1, <1>8 DEF Leaves

\* The end of a transaction of the far end.
LEMMA ServerEndsSettled ==
  ASSUME IInv, Settled(sal), ServerTransactionEnds
  PROVE  Leaves
<1>1. sal \in SalType /\ <<"INVITE", "ended">> \notin {<<"INVITE", "calling">>, <<"INVITE", "proceeding">>}
      /\ TRUE \in BOOLEAN /\ FALSE \in BOOLEAN
  BY DEF IInv, Counted
<1>2. CASE sal.invite = "answered" /\ sal' = AfterTransaction([sal EXCEPT !.invite = "none"], FALSE)
  <2> DEFINE s == [sal EXCEPT !.invite = "none"]
  <2>1. /\ s \in SalType /\ s.faults = sal.faults /\ s.dir = sal.dir /\ s.app = sal.app
        /\ s.dialog = sal.dialog /\ s.last = sal.last /\ s.asked = sal.asked
        /\ s.linked = sal.linked /\ s.event = sal.event /\ s.later = sal.later
        /\ s.bye = sal.bye /\ s.invite = "none" /\ s.out = sal.out
    BY <1>1 DEF SalType
  <2>2. sal' = AfterTransaction(s, FALSE)
    BY <1>2
  <2> HIDE DEF s
  <2>3. Single(sal) => Single(s)
    BY <2>1 DEF Single, HasState
  <2>4. Settled(s)
    BY <1>1, <2>1, <2>3, RestSettled
  <2> QED BY <1>1, <2>1, <2>2, <2>4, AfterSettled DEF Leaves
<1>3. CASE sal.servers > 0 /\ sal' = AfterTransaction([sal EXCEPT !.servers = @ - 1], FALSE)
  <2> DEFINE s == [sal EXCEPT !.servers = sal.servers - 1]
  <2>1. sal.servers - 1 \in Nat
    BY <1>1, <1>3 DEF SalType
  <2>2. s \in SalType /\ Below(sal, s) /\ s.linked = sal.linked /\ s.app = sal.app
    BY <1>1, <2>1 DEF SalType, Below
  <2>3. sal' = AfterTransaction(s, FALSE)
    BY <1>3
  <2> HIDE DEF s
  <2>4. Settled(s)
    BY <1>1, <2>2, BelowSettled DEF Settled, Placed
  <2> QED BY <1>1, <2>2, <2>3, <2>4, AfterSettled DEF Leaves
<1>4. CASE sal.bye /\ sal' = AfterTransaction([sal EXCEPT !.bye = FALSE], TRUE)
  <2> DEFINE s == [sal EXCEPT !.bye = FALSE]
  <2>1. /\ s \in SalType /\ s.faults = sal.faults /\ s.dir = sal.dir /\ s.app = sal.app
        /\ s.dialog = sal.dialog /\ s.last = sal.last /\ s.asked = sal.asked
        /\ s.linked = sal.linked /\ s.event = sal.event /\ s.later = sal.later
        /\ ~s.bye /\ s.invite = sal.invite /\ s.out = sal.out
    BY <1>1 DEF SalType
  <2>2. sal' = AfterTransaction(s, TRUE)
    BY <1>4
  <2> HIDE DEF s
  <2>3. Single(sal) => Single(s)
    BY <2>1 DEF Single, HasState
  <2>4. Settled(s)
    BY <1>1, <2>1, <2>3, RestSettled
  <2>5. s.dialog = "terminated"
    BY <1>4, <2>1 DEF Settled, Placed
  <2> QED BY <1>1, <2>1, <2>2, <2>4, <2>5, AfterSettled DEF Leaves
<1> QED BY <1>2, <1>3, <1>4 DEF ServerTransactionEnds

\* A request that is not answered: the dialog is over with it, or there is none.
LEMMA GivesUpSettled ==
  ASSUME IInv, Settled(sal), NEW m \in Method, GivesUp(m)
  PROVE  Leaves
<1> DEFINE l == Leaving(sal, m, "calling")
           s == Entering(l, m, "ended")
           e == IF s.dialog = "none" THEN s ELSE DialogBecomes(s, "terminated")
<1>1. HasState(sal, m, "calling") /\ (m = "CANCEL" => "silent" \in sal.faults)
      /\ (m = "INFO" => sal.dialog = "confirmed")
      /\ sal' = IF s.state = "terminated" \/ s.linked THEN e ELSE CallSetReleased(Fails(e, "over"))
  BY DEF GivesUp
<1>2. sal \in SalType /\ Sound(sal) /\ (HasCall(sal) \/ sal.state = "terminated")
  BY <1>1, StateIs, BusyHasCall
<1>3. /\ l \in SalType /\ Close(sal, l) /\ DOMAIN l.out \subseteq DOMAIN sal.out
      /\ DOMAIN sal.out \ {<<m, "calling">>} \subseteq DOMAIN l.out
      /\ Single(sal) => Single(l)
      /\ Single(sal) /\ m = "INVITE" => ~InCourse(l, "INVITE")
  BY <1>1, <1>2, LeavingShape
<1> HIDE DEF l
<1>4. "ended" \in TransactionState /\ "terminated" \in DialogState
      /\ "ended" \notin {"calling", "proceeding"}
  BY DEF TransactionState, DialogState
<1>5. /\ s \in SalType /\ Close(l, s) /\ DOMAIN s.out = DOMAIN l.out \cup {<<m, "ended">>}
      /\ (Single(l) => Single(s))
  BY <1>3, <1>4, EnteringShape
<1> HIDE DEF s
<1>6. /\ Close(sal, s) /\ (Single(sal) => Single(s))
      /\ DOMAIN s.out \subseteq DOMAIN sal.out \cup {<<m, "ended">>}
      /\ DOMAIN sal.out \ {<<m, "calling">>} \subseteq DOMAIN s.out
  BY <1>3, <1>5 DEF Close, Kept, Steady
<1>7. /\ e \in SalType /\ Steady(s, e) /\ e.out = s.out /\ e.released = s.released
      /\ e.invite = s.invite
      /\ s.dialog \in {"none", "terminated"} => e = s
      /\ s.dialog \notin {"none", "terminated"} =>
           e.dialog = "terminated" /\ e.last = s.dialog /\ e.event
  <2>1. CASE s.dialog = "none"
    BY <1>5, <2>1 DEF Steady
  <2>2. CASE s.dialog # "none"
    <3>1. e = DialogBecomes(s, "terminated")
      BY <2>2
    <3> HIDE DEF e
    <3> QED BY <1>4, <1>5, <2>2, <3>1, DialogShape
  <2> QED BY <2>1, <2>2
<1> HIDE DEF e
<1>8. /\ \A x, st : HasState(e, x, st) => HasState(sal, x, st) \/ (x = m /\ st = "ended")
      /\ (InCourse(e, "INVITE") => InCourse(sal, "INVITE"))
      /\ (Single(sal) => Single(e))
      /\ (Single(sal) /\ m = "INVITE" => ~InCourse(e, "INVITE"))
      /\ (m # "INVITE" /\ HasState(sal, "INVITE", "proceeding") => HasState(e, "INVITE", "proceeding"))
  <2>1. \A x, st : HasState(e, x, st) => HasState(sal, x, st) \/ (x = m /\ st = "ended")
    <3> TAKE x, st
    <3>1. <<x, st>> \in DOMAIN e.out => <<x, st>> \in DOMAIN sal.out \/ <<x, st>> = <<m, "ended">>
      BY <1>6, <1>7
    <3> QED BY <3>1, StateIs
  <2>2. InCourse(e, "INVITE") => InCourse(sal, "INVITE")
    BY <2>1 DEF InCourse
  <2>3. Single(sal) => Single(e)
    BY <1>6, <1>7 DEF Single, HasState
  <2>4. InCourse(e, "INVITE") => InCourse(l, "INVITE")
    <3>1. <<"INVITE", "calling">> # <<m, "ended">> /\ <<"INVITE", "proceeding">> # <<m, "ended">>
      OBVIOUS
    <3>2. DOMAIN e.out = DOMAIN l.out \cup {<<m, "ended">>}
      BY <1>5, <1>7
    <3> QED BY <3>1, <3>2, CourseIs
  <2>5. m # "INVITE" /\ HasState(sal, "INVITE", "proceeding") => HasState(e, "INVITE", "proceeding")
    BY <1>6, <1>7, StateIs
  <2> QED BY <1>3, <2>1, <2>2, <2>3, <2>4, <2>5
<1>9. /\ e.faults = sal.faults /\ e.dir = sal.dir /\ e.app = sal.app /\ e.linked = sal.linked
      /\ e.later = sal.later /\ e.asked = sal.asked /\ e.bye = sal.bye /\ e.invite = sal.invite
      /\ e.released = sal.released /\ e.state = sal.state
      /\ IF sal.dialog \in {"none", "terminated"}
         THEN e.dialog = sal.dialog /\ e.last = sal.last /\ e.event = sal.event
         ELSE e.dialog = "terminated" /\ e.last = sal.dialog /\ e.event
  BY <1>6, <1>7 DEF Close, Kept, Steady
<1>10. Placed(sal) /\ Calling(sal) /\ Done(sal) /\ sal.dir \in {"in", "out"}
  BY <1>2 DEF Settled, Sound, SalType
<1>11. (InDialog(sal) <=> InDialog(e)) /\ (m = "BYE" => InDialog(sal))
  BY <1>1, <1>4, <1>9, <1>10 DEF InDialog, Placed, TransactionState
<1>12. m = "INVITE" /\ ~InDialog(sal) =>
         /\ sal.dialog \notin {"null", "early"} /\ sal.asked = "none" /\ sal.invite = "none"
         /\ sal.dir = "out"
  <2> SUFFICES ASSUME m = "INVITE", ~InDialog(sal)
               PROVE  sal.dialog \notin {"null", "early"} /\ sal.asked = "none"
                      /\ sal.invite = "none" /\ sal.dir = "out"
    OBVIOUS
  <2>1. InCourse(sal, "INVITE")
    BY <1>1 DEF InCourse
  <2>2. Single(sal) /\ sal.dir = "out" /\ sal.invite = "none" /\ sal.asked = "none"
    BY <1>10, <2>1 DEF Calling
  <2>3. ~HasState(sal, "INVITE", "proceeding")
    BY <1>1, <2>2 DEF Single
  <2> QED BY <1>10, <2>2, <2>3 DEF Calling, Placed
<1>13. Settled(e)
  <2>1. Placed(e)
    BY <1>8, <1>9, <1>10, <1>11, StateIs DEF Placed, InDialog
  <2>2. Calling(e)
    <3> SUFFICES ASSUME ~InDialog(e)  PROVE Calling(e)
      BY DEF Calling
    <3>1. /\ ~InDialog(sal) /\ Single(sal) /\ Single(e)
          /\ sal.dir = "in" => ~InCourse(sal, "INVITE")
          /\ sal.dir = "out" => sal.invite = "none"
          /\ sal.asked # "none" =>
               /\ sal.asked = "INVITE" /\ sal.dialog = "none" /\ ~InCourse(sal, "INVITE")
               /\ HasCall(sal) \/ "silent" \in sal.faults
      BY <1>8, <1>10, <1>11 DEF Calling
    <3>2. e.dir = "out" /\ e.dialog = "early" => FALSE
      BY <1>9, <3>1 DEF InDialog
    <3>3. "silent" \notin e.faults /\ e.dialog = "terminated" =>
            ~InCourse(e, "INVITE") /\ e.invite # "open"
      <4>1. CASE sal.dialog = "terminated"
        BY <1>8, <1>9, <1>10, <3>1, <4>1 DEF Calling
      <4>2. CASE m = "INVITE"
        BY <1>8, <1>9, <1>12, <3>1, <4>2
      <4>3. CASE sal.dialog # "terminated" /\ m # "INVITE" /\ "silent" \notin e.faults
        BY <1>1, <1>9, <1>11, <3>1, <4>3 DEF Method, InDialog
      <4> QED BY <4>1, <4>2, <4>3
    <3>4. e.asked # "none" =>
            /\ e.asked = "INVITE" /\ e.dialog = "none" /\ ~InCourse(e, "INVITE")
            /\ HasCall(e) \/ "silent" \in e.faults
      BY <1>8, <1>9, <3>1 DEF HasCall
    <3> QED BY <1>8, <1>9, <3>1, <3>2, <3>3, <3>4 DEF Calling
  <2>3. Done(e)
    BY <1>8, <1>9, <1>10, <1>11 DEF Done
  <2> QED BY <2>1, <2>2, <2>3 DEF Settled
<1>14. CASE s.state = "terminated" \/ s.linked
  BY <1>1, <1>13, <1>14 DEF Leaves
<1>15. CASE ~(s.state = "terminated" \/ s.linked)
  <2> DEFINE f == Fails(e, "over")
  <2>1. HasCall(e)
    BY <1>2, <1>6, <1>7, <1>15 DEF HasCall, Close, Kept, Steady
  <2>2. "over" \in FailureOutcome /\ "over" # "gone"
    BY DEF FailureOutcome
  <2>3. f \in SalType /\ Settled(f) /\ Below(e, f)
    BY <1>7, <1>13, <2>1, <2>2, FailsSettled
  <2>4. sal' = CallSetReleased(f)
    BY <1>1, <1>15
  <2> HIDE DEF f
  <2>5. f.dialog = "terminated" \/ Unasked(f) \/ "silent" \in f.faults
    <3>1. e.dialog = "terminated" \/ Unasked(e) \/ "silent" \in e.faults
      <4>1. CASE sal.dialog # "none"
        BY <1>9, <4>1
      <4>2. CASE sal.dialog = "none"
        <5>1. ~InDialog(sal)
          BY <1>10, <4>2 DEF InDialog, Placed
        <5>2. m # "BYE" /\ m # "INFO"
          BY <1>1, <1>11, <4>2, <5>1
        <5>3. CASE m = "INVITE"
          BY <1>8, <1>9, <1>10, <1>12, <4>2, <5>1, <5>3 DEF Unasked, Calling
        <5>4. CASE m = "CANCEL"
          BY <1>1, <1>9, <5>4
        <5> QED BY <5>2, <5>3, <5>4 DEF Method
      <4> QED BY <4>1, <4>2
    <3> QED BY <2>3, <3>1 DEF Below, Unasked, InCourse, HasState
  <2> QED BY <2>3, <2>4, <2>5, ReleasedSettled DEF Leaves, Unasked
<1> QED BY <1>14, <1>15

\* The end of the dialog is told.
LEMMA DialogEndsSettled ==
  ASSUME IInv, Settled(sal), DialogEnds
  PROVE  Leaves
<1> DEFINE s == [sal EXCEPT !.event = FALSE]
           byBye == s.last = "confirmed" /\ s.state \notin {"terminating", "terminated"}
           w == IF byBye THEN [CallOver(s) EXCEPT !.state = "terminating"] ELSE s
           t == [w EXCEPT !.later = TRUE]
<1>1. sal \in SalType /\ "terminating" \in {"early", "active", "terminating", "terminated"}
  BY DEF IInv, Counted
<1>2. sal.event /\ sal' = IF ~s.linked THEN s ELSE t
  BY DEF DialogEnds
<1>3. sal.dialog = "terminated"
  BY <1>2 DEF Settled, Placed
<1>4. /\ s \in SalType /\ s.faults = sal.faults /\ s.dir = sal.dir /\ s.app = sal.app
      /\ s.linked = sal.linked /\ s.later = sal.later /\ s.asked = sal.asked
      /\ s.dialog = sal.dialog /\ s.last = sal.last /\ s.event = FALSE
      /\ s.out = sal.out /\ s.invite = sal.invite /\ s.bye = sal.bye
  BY <1>1 DEF SalType
<1> HIDE DEF s
<1>5. Settled(s)
  <2>1. \A m, st : HasState(s, m, st) <=> HasState(sal, m, st)
    BY <1>4 DEF HasState
  <2>2. (Single(sal) <=> Single(s)) /\ (InDialog(s) <=> InDialog(sal))
        /\ (InCourse(s, "INVITE") <=> InCourse(sal, "INVITE"))
    BY <1>4, <2>1 DEF Single, InDialog, InCourse
  <2>3. Placed(s)
    BY <1>4, <2>1, <2>2 DEF Settled, Placed
  <2>4. Calling(s) /\ Done(s)
    BY <1>4, <2>1, <2>2 DEF Settled, Calling, Done, HasCall
  <2> QED BY <2>3, <2>4 DEF Settled
<1>6. w \in SalType /\ Settled(w) /\ w.dialog = "terminated"
  <2>1. CASE byBye
    <3> DEFINE v == CallOver(s)
    <3>1. v \in SalType /\ Settled(v) /\ v.dialog = s.dialog
      BY <1>4, <1>5, OverShape, OverSettled DEF Below
    <3>2. w = [v EXCEPT !.state = "terminating"]
      BY <2>1
    <3> HIDE DEF v, w
    <3>3. LET z == [v EXCEPT !.state = "terminating"]  IN  z \in SalType /\ Below(v, z)
      BY <1>1, <3>1, StateShape
    <3>4. Settled([v EXCEPT !.state = "terminating"])
      BY <1>1, <3>1, StateSettled
    <3> QED BY <1>3, <1>4, <3>1, <3>2, <3>3, <3>4 DEF Below
  <2>2. CASE ~byBye
    BY <1>3, <1>4, <1>5, <2>2
  <2> QED BY <2>1, <2>2
<1> HIDE DEF w
<1>7. /\ t.faults = w.faults /\ t.dir = w.dir /\ t.app = w.app
      /\ t.linked = w.linked /\ t.later = TRUE /\ t.asked = w.asked
      /\ t.dialog = w.dialog /\ t.last = w.last /\ t.event = w.event
      /\ t.out = w.out /\ t.invite = w.invite /\ t.bye = w.bye
  BY <1>6 DEF SalType
<1> HIDE DEF t
<1>8. Settled(t)
  <2>1. \A m, st : HasState(t, m, st) <=> HasState(w, m, st)
    BY <1>7 DEF HasState
  <2>2. (Single(w) <=> Single(t)) /\ (InDialog(t) <=> InDialog(w))
        /\ (InCourse(t, "INVITE") <=> InCourse(w, "INVITE"))
    BY <1>7, <2>1 DEF Single, InDialog, InCourse
  <2>3. Placed(t)
    BY <1>6, <1>7, <2>1, <2>2 DEF Settled, Placed
  <2>4. Calling(t) /\ Done(t)
    BY <1>6, <1>7, <2>1, <2>2 DEF Settled, Calling, Done, HasCall
  <2> QED BY <2>3, <2>4 DEF Settled
<1> QED BY <1>2, <1>5, <1>8 DEF Leaves

\* The task queued: the dialog is over.
LEMMA LaterSettled ==
  ASSUME IInv, Settled(sal), LaterReleased
  PROVE  Leaves
<1> DEFINE s == [sal EXCEPT !.later = FALSE]
<1>1. sal \in SalType /\ sal.later /\ sal' = CallSetReleased(s)
  BY DEF LaterReleased, IInv, Counted
<1>2. /\ s \in SalType /\ s.faults = sal.faults /\ s.dir = sal.dir /\ s.app = sal.app
      /\ s.linked = sal.linked /\ s.later = FALSE /\ s.asked = sal.asked
      /\ s.dialog = sal.dialog /\ s.last = sal.last /\ s.event = sal.event
      /\ s.out = sal.out /\ s.invite = sal.invite /\ s.bye = sal.bye
  BY <1>1 DEF SalType
<1> HIDE DEF s
<1>3. (Single(sal) => Single(s)) /\ s.dialog = "terminated"
      /\ <<"INVITE", "ended">> \notin {<<"INVITE", "calling">>, <<"INVITE", "proceeding">>}
  BY <1>1, <1>2 DEF Single, HasState, Settled, Placed
<1>4. Settled(s)
  BY <1>1, <1>2, <1>3, RestSettled
<1>5. Settled(CallSetReleased(s))
  BY <1>2, <1>3, <1>4, ReleasedSettled
<1> QED BY <1>1, <1>5 DEF Leaves

\* What the far end asks for, and an INVITE where one may come, change nothing else.
LEMMA ServedSettled ==
  ASSUME NEW s \in SalType, Settled(s), NEW t, Served(s, t),
         t.invite = s.invite \/ (t.invite = "answered" /\ s.invite = "open") \/ InDialog(s)
  PROVE  Settled(t)
<1>1. \A m, st : HasState(t, m, st) <=> HasState(s, m, st)
  BY DEF Served, HasState
<1>2. (Single(s) <=> Single(t)) /\ (InDialog(t) <=> InDialog(s))
      /\ (InCourse(t, "INVITE") <=> InCourse(s, "INVITE"))
  BY <1>1 DEF Single, InDialog, InCourse, Served, Kept
<1>3. Placed(t)
  BY <1>1, <1>2 DEF Settled, Placed, Served, Kept, Steady
<1>4. Calling(t) /\ Done(t)
  BY <1>1, <1>2 DEF Settled, Calling, Done, HasCall, Served, Kept, Steady
<1> QED BY <1>3, <1>4 DEF Settled

\* A re-INVITE.
LEMMA ReinviteSettled ==
  ASSUME IInv, Settled(sal), ReinviteReceived
  PROVE  Leaves
<1> DEFINE s == InviteArrives(sal)
           a == [s EXCEPT !.invite = "answered"]
<1>1. sal \in SalType /\ sal' \in {s, DeclineInvite(s), a} /\ sal.dialog = "confirmed"
      /\ sal.dir # "none"
  BY ReachedHas DEF ReinviteReceived, IInv, Counted, Sound
<1>2. s \in SalType /\ Served(sal, s) /\ InDialog(sal)
  BY <1>1, ArrivesShape DEF InDialog
<1> HIDE DEF s
<1>3. Settled(s) /\ InDialog(s) /\ s.dir # "none"
  BY <1>1, <1>2, ServedSettled DEF Served, Kept, Steady, InDialog
<1>4. a \in SalType /\ Served(s, a)
  BY <1>2, AnsweredShape
<1> HIDE DEF a
<1>5. Settled(a)
  BY <1>2, <1>3, <1>4, ServedSettled
<1>6. Settled(DeclineInvite(s))
  BY <1>2, <1>3, DeclineSettled
<1> QED BY <1>1, <1>3, <1>5, <1>6 DEF Leaves

\* CANCEL before the answer.
LEMMA CancelSettled ==
  ASSUME IInv, Settled(sal), CancelReceived
  PROVE  Leaves
<1> DEFINE r == ServedAtOnce(sal)
           o == CallOver(r)
<1>1. sal \in SalType /\ sal' = DeclineInvite(o) /\ sal.dir = "in"
  BY DEF CancelReceived, IInv, Counted
<1>2. r \in SalType /\ Served(sal, r) /\ r.invite = sal.invite
  BY <1>1, ServedShape
<1> HIDE DEF r
<1>3. Settled(r)
  BY <1>1, <1>2, ServedSettled
<1>4. o \in SalType /\ Settled(o) /\ o.dir = "in"
  BY <1>1, <1>2, <1>3, OverShape, OverSettled DEF Below, Served, Kept, Steady
<1> HIDE DEF o
<1> QED BY <1>1, <1>4, DeclineSettled DEF Leaves

\* BYE ends the dialog.
LEMMA ByeReceivedSettled ==
  ASSUME IInv, Settled(sal), ByeReceived
  PROVE  Leaves
<1> DEFINE r == RefOp(sal)
           o == CallOver(r)
           x == [o EXCEPT !.state = "terminating"]
           y == [x EXCEPT !.bye = TRUE]
           t == DialogBecomes(y, "terminated")
<1>1. sal \in SalType /\ sal' = t /\ sal.dialog = "confirmed"
  BY DEF ByeReceived, IInv, Counted
<1>2. r \in SalType /\ Settled(r) /\ r.dialog = "confirmed"
  BY <1>1, RefAlike, AlikeSettled DEF Alike
<1> HIDE DEF r
<1>3. o \in SalType /\ Settled(o) /\ o.dialog = "confirmed"
  BY <1>2, OverShape, OverSettled DEF Below
<1> HIDE DEF o
<1>4. x \in SalType /\ Settled(x) /\ x.dialog = "confirmed"
  <2>1. "terminating" \in {"early", "active", "terminating", "terminated"}
    OBVIOUS
  <2> QED BY <1>3, <2>1, StateShape, StateSettled DEF Below
<1> HIDE DEF x
<1>5. /\ y \in SalType /\ y.linked = x.linked /\ y.faults = x.faults /\ y.dir = x.dir
      /\ y.dialog = x.dialog /\ y.out = x.out /\ y.asked = x.asked
  BY <1>4 DEF SalType
<1> HIDE DEF y
<1>6. "terminated" \in DialogState
  BY DEF DialogState
<1>7. /\ t \in SalType /\ Steady(y, t) /\ t.out = y.out
      /\ t.dialog = "terminated" /\ t.last = "confirmed" /\ t.event
  BY <1>4, <1>5, <1>6, DialogShape
<1> HIDE DEF t
<1>8. InDialog(t) /\ InDialog(x) /\ \A m, st : HasState(t, m, st) <=> HasState(x, m, st)
  BY <1>4, <1>5, <1>7 DEF InDialog, HasState
<1>9. Placed(t)
  BY <1>4, <1>5, <1>7, <1>8 DEF Settled, Placed, Steady
<1>10. Calling(t) /\ Done(t)
  BY <1>7, <1>8 DEF Calling, Done
<1> QED BY <1>1, <1>9, <1>10 DEF Leaves, Settled

\* The answers to an INVITE.
LEMMA AnswerSettled ==
  ASSUME IInv, Settled(sal), NotifyRinging \/ AcceptInvite \/ RefuseInvite
  PROVE  Leaves
<1>1. sal \in SalType /\ sal.app = "live" /\ sal.invite = "open" /\ sal.dir # "none"
  BY LiveHas DEF NotifyRinging, AcceptInvite, RefuseInvite, IInv, Counted, Sound
<1>2. CASE NotifyRinging
  <2> DEFINE t == DialogBecomes(sal, "early")
  <2>1. sal' = t /\ sal.dialog = "null"
    BY <1>2 DEF NotifyRinging
  <2>2. /\ t \in SalType /\ Steady(sal, t) /\ t.out = sal.out /\ t.invite = sal.invite
        /\ t.dialog = "early" /\ t.last = "null" /\ ~t.event
    BY <1>1, <2>1, DialogShape DEF DialogState
  <2> HIDE DEF t
  <2>3. ~InDialog(sal) /\ ~InDialog(t)
    BY <2>1, <2>2 DEF InDialog, Settled, Placed
  <2>4. \A m, st : HasState(t, m, st) <=> HasState(sal, m, st)
    BY <2>2 DEF HasState
  <2>5. (Single(sal) <=> Single(t)) /\ (InCourse(t, "INVITE") <=> InCourse(sal, "INVITE"))
    BY <2>2, <2>4 DEF Single, InCourse
  <2>6. Placed(t)
    BY <2>1, <2>2, <2>3, <2>4 DEF Settled, Placed, Steady
  <2>7. Calling(t) /\ Done(t)
    BY <1>1, <2>1, <2>2, <2>3, <2>5 DEF Settled, Placed, Calling, Done, Steady
  <2>8. Settled(t)
    BY <2>6, <2>7 DEF Settled
  <2> QED BY <2>1, <2>8 DEF Leaves
<1>3. CASE AcceptInvite
  <2> DEFINE s == [sal EXCEPT !.invite = "answered"]
             t == DialogBecomes(s, "confirmed")
  <2>1. sal' = t
    BY <1>3 DEF AcceptInvite
  <2>2. s \in SalType /\ Served(sal, s) /\ s.invite = "answered"
    BY <1>1, AnsweredShape
  <2> HIDE DEF s
  <2>3. Settled(s)
    BY <1>1, <2>2, ServedSettled
  <2>4. CASE s.dialog \in {"confirmed", "terminated"}
    <3>1. t = s
      BY <2>4 DEF DialogBecomes
    <3> QED BY <2>1, <2>3, <3>1 DEF Leaves
  <2>5. CASE s.dialog \notin {"confirmed", "terminated"}
    <3>1. /\ t \in SalType /\ Steady(s, t) /\ t.out = s.out
          /\ t.dialog = "confirmed" /\ t.last = s.dialog /\ ~t.event
      <4>1. "confirmed" \in DialogState
        BY DEF DialogState
      <4> QED BY <2>2, <2>5, <4>1, DialogShape
    <3> HIDE DEF t
    <3>2. ~InDialog(s) /\ InDialog(t) /\ s.app = "live"
      BY <1>1, <2>2, <2>3, <2>5, <3>1 DEF InDialog, Settled, Placed, Served, Kept, Steady
    <3>3. \A m, st : HasState(t, m, st) <=> HasState(s, m, st)
      BY <3>1 DEF HasState
    <3>4. Placed(t)
      BY <2>3, <2>5, <3>1, <3>2, <3>3 DEF Settled, Placed, Steady
    <3>5. Calling(t) /\ Done(t)
      BY <3>1, <3>2 DEF Calling, Done, Steady
    <3> QED BY <2>1, <3>4, <3>5 DEF Leaves, Settled
  <2> QED BY <2>4, <2>5
<1>4. CASE RefuseInvite
  <2> DEFINE d == DeclineInvite(sal)
  <2>1. sal' = d \/ sal' = CallOver(d)
    BY <1>4 DEF RefuseInvite
  <2>2. d \in SalType /\ Settled(d)
    BY <1>1, DeclineShape, DeclineSettled
  <2> HIDE DEF d
  <2> QED BY <2>1, <2>2, OverSettled DEF Leaves
<1> QED BY <1>2, <1>3, <1>4

\* The user hangs up.
LEMMA HangUpSettled ==
  ASSUME IInv, Settled(sal), HangUp
  PROVE  Leaves
<1> DEFINE u == TerminateOp(sal)
<1>1. sal \in SalType /\ sal' = CallOver(u) /\ sal.dir \in {"in", "out"} /\ sal.state # "terminating"
  BY LiveHas DEF HangUp, IInv, Counted, Sound, SalType
<1>2. u \in SalType /\ Settled(u)
  BY <1>1, TerminateKeeps, TerminateSettled
<1> HIDE DEF u
<1> QED BY <1>1, <1>2, OverSettled DEF Leaves

\* A re-INVITE or INFO of this side.
LEMMA RequestSettled ==
  ASSUME IInv, Settled(sal), UpdateOp \/ SendInfo
  PROVE  Leaves
<1>1. sal \in SalType
  BY DEF IInv, Counted
<1>2. CASE UpdateOp
  <2>1. InDialog(sal) /\ "INVITE" \in Method /\ "INVITE" # "BYE" /\ sal' = SendRequest(sal, "INVITE")
    BY <1>2 DEF UpdateOp, InDialog, Method
  <2> QED BY <1>1, <2>1, SendSettled DEF Leaves
<1>3. CASE SendInfo
  <2>1. "INFO" \in Method /\ "INFO" # "BYE" /\ "INFO" # "INVITE" /\ sal' = SendRequest(sal, "INFO")
    BY <1>3 DEF SendInfo, Method
  <2> QED BY <1>1, <2>1, SendSettled DEF Leaves
<1> QED BY <1>2, <1>3

\* The request that waited for the password.
LEMMA AuthenticateSettled ==
  ASSUME IInv, Settled(sal), Authenticate
  PROVE  Leaves
<1> DEFINE s == [sal EXCEPT !.asked = "none"]
<1>1. sal \in SalType /\ sal.asked \in {"INVITE", "BYE"} /\ sal' = SendRequest(s, sal.asked)
  BY DEF Authenticate, IInv, Counted, Settled, Placed
<1>2. /\ s \in SalType /\ s.faults = sal.faults /\ s.dir = sal.dir /\ s.app = sal.app
      /\ s.linked = sal.linked /\ s.later = sal.later /\ s.asked = "none"
      /\ s.dialog = sal.dialog /\ s.last = sal.last /\ s.event = sal.event
      /\ s.out = sal.out /\ s.invite = sal.invite /\ s.bye = sal.bye
  BY <1>1 DEF SalType
<1> HIDE DEF s
<1>3. \A m, st : HasState(s, m, st) <=> HasState(sal, m, st)
  BY <1>2 DEF HasState
<1>4. (Single(sal) <=> Single(s)) /\ (InDialog(s) <=> InDialog(sal))
      /\ (InCourse(s, "INVITE") <=> InCourse(sal, "INVITE"))
  BY <1>2, <1>3 DEF Single, InDialog, InCourse
<1>5. Placed(s)
  BY <1>2, <1>3, <1>4 DEF Settled, Placed
<1>6. Calling(s) /\ Done(s)
  BY <1>2, <1>3, <1>4 DEF Settled, Calling, Done, HasCall
<1>7. ~InDialog(s) => /\ sal.asked = "INVITE" /\ s.dialog = "none" /\ ~InCourse(s, "INVITE")
                      /\ HasCall(s) \/ "silent" \in s.faults
  BY <1>1, <1>2, <1>4 DEF Settled, Calling, HasCall
<1>8. sal.asked \in Method /\ Settled(s)
  BY <1>1, <1>5, <1>6 DEF Method, Settled
<1>9. Settled(SendRequest(s, sal.asked))
  BY <1>2, <1>7, <1>8, SendSettled
<1> QED BY <1>1, <1>9 DEF Leaves

\* A new call.
LEMMA PlaceSettled ==
  ASSUME IInv, Settled(sal), PlaceCall
  PROVE  Leaves
<1> DEFINE r == RefOp(sal)
           x == [r EXCEPT !.dir = "out"]
           y == [x EXCEPT !.app = "live"]
           t == SendRequest(y, "INVITE")
<1>1. sal \in SalType /\ sal.dir = "none" /\ sal' = t /\ Untouched(sal)
  BY DEF PlaceCall, IInv, Counted, Sound
<1>2. sal.linked = FALSE /\ DOMAIN sal.out = {} /\ sal.asked = "none" /\ sal.event = FALSE
      /\ sal.dialog = "none" /\ sal.last # "confirmed" /\ sal.later = FALSE /\ sal.bye = FALSE
      /\ sal.invite = "none"
  BY <1>1 DEF Untouched, Pointed, SalType, Settled, Placed
<1>3. r \in SalType /\ Alike(sal, r)
  BY <1>1, RefAlike
<1> HIDE DEF r
<1>4. /\ y \in SalType /\ y.dir = "out" /\ y.app = "live" /\ y.out = sal.out
      /\ y.linked = FALSE /\ y.asked = "none" /\ y.event = FALSE /\ y.dialog = "none"
      /\ y.last = sal.last /\ y.later = FALSE /\ y.bye = FALSE /\ y.invite = "none"
  BY ZenonT(60), <1>1, <1>2, <1>3 DEF SalType, Alike
<1> HIDE DEF y
<1>5. "INVITE" \in Method /\ ~InDialog(y) /\ \A m, st : ~HasState(y, m, st)
  BY <1>2, <1>4, StateIs DEF Method, InDialog
<1>6. Single(y) /\ ~InCourse(y, "INVITE")
  BY <1>5 DEF Single, InCourse
<1>7. Settled(y)
  BY <1>2, <1>4, <1>5, <1>6 DEF Settled, Placed, Calling, Done
<1>8. Settled(t)
  BY <1>4, <1>5, <1>6, <1>7, SendSettled DEF HasCall
<1> QED BY <1>1, <1>8 DEF Leaves

\* The INVITE of a new call.
LEMMA InviteReceivedSettled ==
  ASSUME IInv, Settled(sal), InviteReceived
  PROVE  Leaves
<1> DEFINE r == RefOp(sal)
           x == [r EXCEPT !.dir = "in"]
           a == InviteArrives(x)
           b == DialogBecomes(a, "null")
           s == LinkDialog(b, TRUE)
           t == [s EXCEPT !.app = "live"]
           d == DeclineInvite(s)
           l == [d EXCEPT !.lost = 1]
           g == [l EXCEPT !.app = "gone"]
<1>1. sal \in SalType /\ sal.dir = "none" /\ Untouched(sal)
      /\ sal' \in {t, ReleaseOp(d), g}
                  \cup IF "closed" \in sal.faults THEN {ReleaseOp(s)} ELSE {}
  BY DEF InviteReceived, IInv, Counted, Sound
<1>2. sal.linked = FALSE /\ DOMAIN sal.out = {} /\ sal.asked = "none" /\ sal.event = FALSE
      /\ sal.dialog = "none" /\ sal.last # "confirmed" /\ sal.later = FALSE /\ sal.bye = FALSE
      /\ sal.app = "none"
  BY <1>1 DEF Untouched, Pointed, SalType, Settled, Placed
<1>3. r \in SalType /\ Alike(sal, r)
  BY <1>1, RefAlike
<1> HIDE DEF r
<1>4. /\ x \in SalType /\ x.dir = "in" /\ x.out = sal.out /\ x.faults = sal.faults
      /\ x.asked = "none" /\ x.event = FALSE /\ x.dialog = "none" /\ x.last # "confirmed"
      /\ x.later = FALSE /\ x.bye = FALSE /\ x.app = "none"
  BY <1>1, <1>2, <1>3 DEF SalType, Alike
<1> HIDE DEF x
<1>5. a \in SalType /\ Served(x, a) /\ a.invite = "open"
  BY <1>4, ArrivesShape
<1> HIDE DEF a
<1>6. "null" \in DialogState /\ TRUE \in BOOLEAN
  BY DEF DialogState
<1>7. /\ b \in SalType /\ Steady(a, b) /\ b.out = a.out /\ b.invite = a.invite
      /\ b.dialog = "null" /\ b.last = "none" /\ ~b.event
  BY <1>4, <1>5, <1>6, DialogShape DEF Served, Kept
<1> HIDE DEF b
<1>8. s \in SalType /\ Alike([b EXCEPT !.linked = TRUE], s)
  BY <1>6, <1>7, LinkAlike
<1> HIDE DEF s
<1>9. /\ s.dir = "in" /\ s.out = sal.out /\ s.linked /\ s.asked = "none" /\ s.faults = sal.faults
      /\ ~s.event /\ s.dialog = "null" /\ s.last = "none" /\ s.invite = "open"
      /\ ~s.later /\ ~s.bye /\ s.app = "none"
  BY <1>4, <1>5, <1>7, <1>8 DEF Alike, Served, Kept, Steady, SalType
<1>10. ~InDialog(s) /\ \A m, st : ~HasState(s, m, st)
  BY <1>2, <1>9, StateIs DEF InDialog
<1>11. Single(s) /\ ~InCourse(s, "INVITE")
  BY <1>10 DEF Single, InCourse
<1>12. Settled(s)
  BY <1>9, <1>10, <1>11 DEF Settled, Placed, Calling, Done
<1>13. t \in SalType /\ Below(s, t) /\ t.linked = s.linked /\ HasCall(t)
  BY <1>8 DEF SalType, Below, HasCall
<1> HIDE DEF t
<1>14. Settled(t)
  BY <1>8, <1>12, <1>13, BelowSettled DEF Settled, Placed
<1>15. d \in SalType /\ Settled(d) /\ d.dialog = "terminated"
  BY <1>8, <1>9, <1>12, DeclineShape, DeclineSettled
<1> HIDE DEF d
<1>16. Settled(ReleaseOp(d))
  <2>1. Below(d, ReleaseOp(d)) /\ ReleaseOp(d).linked = d.linked
    BY <1>15, ReleaseShape
  <2> QED BY <1>15, <2>1, BelowSettled
<1>17. Settled(g)
  <2>1. l \in SalType /\ Below(d, l) /\ l.linked = d.linked
    BY <1>15 DEF SalType, Below
  <2> HIDE DEF l
  <2>2. g \in SalType /\ Below(l, g) /\ g.linked = l.linked
    BY <2>1 DEF SalType, Below
  <2> HIDE DEF g
  <2>3. Below(d, g) /\ g.linked = d.linked
    BY <2>1, <2>2 DEF Below
  <2> QED BY <1>15, <2>3, BelowSettled
<1>18. "closed" \in sal.faults => Settled(ReleaseOp(s))
  <2> DEFINE e == ReleaseOp(s)
  <2>1. Below(s, e) /\ e.linked = s.linked /\ e.app = "gone"
    BY <1>8, ReleaseShape
  <2> HIDE DEF e
  <2>2. \A m, st : HasState(e, m, st) <=> HasState(s, m, st)
    BY <2>1 DEF Below, HasState
  <2>3. (InDialog(e) <=> InDialog(s)) /\ (Single(e) <=> Single(s))
        /\ (InCourse(e, "INVITE") <=> InCourse(s, "INVITE"))
    BY <2>1, <2>2 DEF InDialog, Single, InCourse, Below
  <2>4. Placed(e)
    BY <1>9, <1>12, <2>1, <2>2, <2>3 DEF Settled, Placed, Below
  <2>5. Calling(e)
    BY <1>9, <1>11, <1>12, <2>1, <2>2, <2>3 DEF Settled, Calling, Below
  <2>6. "closed" \in sal.faults => Done(e)
    BY <1>9, <2>1 DEF Done, Below
  <2>7. "closed" \in sal.faults => Settled(e)
    BY <2>4, <2>5, <2>6 DEF Settled
  <2> QED BY <2>7 DEF e
<1> QED BY <1>1, <1>14, <1>16, <1>17, <1>18 DEF Leaves

-----------------------------------------------------------------------------
(* The end of a call is carried out                                        *)

\* The operation before and after its steps.
EndInv == IInv /\ Fresh /\ Settled(sal) /\ Ongoing(sal)

\* A re-INVITE of an outgoing call comes in its dialog.
LEMMA SettledInvited ==
  ASSUME Settled(sal)
  PROVE  Invited(sal)
BY DEF Settled, Placed, Calling, Invited, InDialog

\* Every response comes to a request that is on the way.
LEMMA RespondsAnswers ==
  ASSUME Responds
  PROVE  \E m \in Method, code \in Code : Answers(m, code) /\ Response(m, code)
<1>1. CASE \E code \in Code :
             /\ code = "ringing" => sal.dialog \in {"none", "early"}
             /\ code = "gone" => sal.dialog = "confirmed"
             /\ code = "challenge" => sal.dialog \in {"none", "confirmed"}
             /\ Response("INVITE", code)
  <2>1. "INVITE" \in Method
    BY DEF Method
  <2> QED BY <1>1, <2>1 DEF Answers
<1>2. CASE \E code \in {"ok", "error", "challenge"} : Response("BYE", code)
  <2>1. "BYE" \in Method /\ {"ok", "error", "challenge"} \subseteq Code
    BY DEF Method, Code
  <2> QED BY <1>2, <2>1 DEF Answers
<1>3. CASE \E code \in {"ok", "error"} : Response("CANCEL", code) \/ Response("INFO", code)
  <2>1. "CANCEL" \in Method /\ "INFO" \in Method /\ {"ok", "error"} \subseteq Code
    BY DEF Method, Code
  <2> QED BY <1>3, <2>1 DEF Answers
<1> QED BY <1>1, <1>2, <1>3 DEF Responds

\* Every step keeps a call on its way, and the far end in order.
LEMMA SalStepEnds ==
  ASSUME EndInv, SalStep
  PROVE  EndInv'
<1>1. IInv /\ Fresh /\ Settled(sal) /\ Ongoing(sal) /\ Invited(sal)
  BY SettledInvited DEF EndInv
<1>2. Upheld
  BY <1>1, SalStepUpheld
<1>3. Goes /\ Leaves
  <2>1. CASE MessageRead /\ Responds
    <3>1. PICK m \in Method, code \in Code : Answers(m, code) /\ Response(m, code)
      BY <2>1, RespondsAnswers
    <3> QED BY <1>1, <2>1, <3>1, ResponseOngoing, ResponseSettled DEF MessageRead
  <2>2. CASE \E m \in Method, st \in {"ended", "challenged"} : TransactionEnds(m, st)
    BY <1>1, <2>2, TransactionEndsOngoing, TransactionEndsSettled
  <2>3. CASE \E m \in Method : GivesUp(m)
    BY <1>1, <2>3, GivesUpOngoing, GivesUpSettled
  <2>4. CASE InviteReceived \/ ReinviteReceived \/ CancelReceived \/ ByeReceived
    BY <1>1, <2>4, InviteReceivedOngoing, InviteReceivedSettled, ReinviteOngoing,
       ReinviteSettled, CancelOngoing, CancelSettled, ByeReceivedOngoing, ByeReceivedSettled
  <2>5. CASE ServerTransactionEnds \/ DialogEnds \/ LaterReleased
    BY <1>1, <2>5, ServerEndsOngoing, ServerEndsSettled, DialogEndsOngoing, DialogEndsSettled,
       LaterOngoing, LaterSettled
  <2>6. CASE PlaceCall \/ HangUp \/ UpdateOp \/ SendInfo \/ Authenticate
    BY <1>1, <2>6, PlaceOngoing, PlaceSettled, HangUpOngoing, HangUpSettled, RequestOngoing,
       RequestSettled, AuthenticateOngoing, AuthenticateSettled
  <2>7. CASE NotifyRinging \/ AcceptInvite \/ RefuseInvite
    BY <1>1, <2>7, RingingOngoing, AcceptOngoing, RefuseOngoing, AnswerSettled
  <2> QED BY <2>1, <2>2, <2>3, <2>4, <2>5, <2>6, <2>7 DEF SalStep, MessageRead
<1>4. IInv' /\ Fresh'
  BY <1>2 DEF Upheld, IInv, Fresh, Sound
<1> QED BY <1>3, <1>4 DEF EndInv, Goes, Leaves

\* A call on its way to the release goes on to it.
LEMMA EndHolds ==
  ASSUME EndInv
  PROVE  EndIsCarriedOut
<1>1. sal \in SalType /\ (Untouched(sal) \/ Sound(sal))
  BY DEF EndInv, IInv, Counted
<1>2. ASSUME Mild(sal), sal.app = "over"  PROVE EndGoesOn
  <2>1. Fitting(sal) /\ Incoming(sal) /\ Outgoing(sal) /\ Dialogue(sal)
    BY <1>2 DEF EndInv, Ongoing, HasCall
  <2>2. sal.dir \in {"in", "out"}
    BY <1>1, <1>2 DEF Untouched, Sound, SalType
  <2>3. CASE sal.dialog = "terminated"
    BY <2>1, <2>3 DEF Dialogue, EndGoesOn
  <2>4. CASE sal.dialog = "confirmed"
    BY <1>2, <2>1, <2>4 DEF Dialogue, EndGoesOn
  <2>5. CASE sal.dialog \notin {"terminated", "confirmed"}
    <3>1. sal.dir = "out" /\ sal.dialog \in {"none", "early"}
      BY <1>1, <1>2, <2>1, <2>2, <2>5 DEF Incoming, Outgoing, SalType
    <3> QED BY <1>2, <2>1, <3>1 DEF Outgoing, EndGoesOn
  <2> QED BY <2>3, <2>4, <2>5
<1>3. ASSUME sal.faults \cap {"silent", "closed"} = {}, sal.app = "gone"  PROVE FarEndIsDone
  <2>1. Placed(sal) /\ Done(sal)
    BY DEF EndInv, Settled
  <2> QED BY <1>3, <2>1 DEF Placed, Done, FarEndIsDone, InDialog
<1> QED BY <1>2, <1>3 DEF EndIsCarriedOut, Mild

\* An operation not yet made is on no way.
LEMMA SalInitEnds ==
  ASSUME NEW faults \in SUBSET SalFaults, SalInit(faults)
  PROVE  EndInv
<1>1. IInv
  BY SalInitSound
<1>2. /\ sal.app = "none" /\ sal.dir = "none" /\ ~sal.released /\ sal.dialog = "none"
      /\ sal.last = "none" /\ ~sal.event /\ ~sal.later /\ ~sal.bye /\ ~sal.linked
      /\ sal.asked = "none" /\ sal.invite = "none" /\ sal.out = EmptyBag
  BY DEF SalInit
<1>3. \A m, st : ~HasState(sal, m, st)
  BY <1>2, StateIs DEF EmptyBag, SetToBag
<1>4. Single(sal) /\ ~InCourse(sal, "INVITE")
  BY <1>3 DEF Single, InCourse
<1>5. Settled(sal)
  BY <1>2, <1>3, <1>4 DEF Settled, Placed, Calling, Done
<1> QED BY <1>1, <1>2, <1>5 DEF EndInv, Fresh, Ongoing, HasCall

\* A call that is over goes on to its release, and the core gives up an operation only when
\* the far end is neither called nor in the call (sal_call_terminate(), cancelling_invite(),
\* call_process_response() and process_dialog_terminated() together), in whichever order
\* CANCEL, BYE, answers, refusals and timeouts cross, but for the faults named.
THEOREM EndOfCallIsCarriedOut == SalSpec => []EndIsCarriedOut
<1>1. (\E faults \in SUBSET SalFaults : SalInit(faults)) => EndInv
  BY SalInitEnds
<1>2. EndInv /\ [SalNext]_sal => EndInv'
  <2>1. CASE SalNext
    BY <2>1, SalStepEnds DEF SalNext
  <2>2. CASE UNCHANGED sal
    BY <2>2 DEF EndInv, IInv, Fresh
  <2> QED BY <2>1, <2>2
<1>3. EndInv => EndIsCarriedOut
  BY EndHolds
<1> QED BY <1>1, <1>2, <1>3, PTL DEF SalSpec
=============================================================================
