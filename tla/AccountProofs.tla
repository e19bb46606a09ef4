--------------------------- MODULE AccountProofs ----------------------------
(***************************************************************************)
(* Proofs about the account, for every set of proxies, friends, domains    *)
(* and scopes.  The invariant is Sound: the list of proxies is in order,   *)
(* every proxy is tended by someone and its publication is remembered, and *)
(* every friend has the subscription it is to have.  Each handler of       *)
(* Registration and Friends keeps it; what the code does for one proxy     *)
(* after the other, by the least proxy at which it would not.              *)
(***************************************************************************)
EXTENDS AccountProperties, SequenceTheorems, WellFoundedInduction, TLAPS

-----------------------------------------------------------------------------
(* A function defined step by step                                         *)

\* A set of natural numbers that is not empty has a least element.
LEMMA LeastNat ==
  ASSUME NEW T, T \subseteq Nat, T # {}
  PROVE  \E m \in T : \A k \in T : m <= k
<1>1. PICK m \in T : \A k \in T : ~ (<<k, m>> \in OpToRel(<, Nat))
  BY NatLessThanWellFounded, WFMin
<1>2. \A k \in T : ~ (k < m)
  BY <1>1 DEF OpToRel
<1> QED BY <1>2

\* What holds at the start and is kept by each step of f holds all along.
LEMMA Reaches ==
  ASSUME NEW n \in Nat, NEW A, NEW f, f[0] \in A, \A i \in 1..n : f[i - 1] \in A => f[i] \in A
  PROVE  \A i \in 0..n : f[i] \in A
<1> DEFINE T == {i \in 0..n : f[i] \notin A}
<1> SUFFICES ASSUME T # {} PROVE FALSE
  OBVIOUS
<1>1. PICK m \in T : \A k \in T : m <= k
  <2>1. T \subseteq Nat /\ T # {}
    OBVIOUS
  <2> HIDE DEF T
  <2> QED BY <2>1, LeastNat
<1>2. m # 0 /\ m \in 1..n
  BY <1>1
<1>3. m - 1 \notin T /\ m - 1 \in 0..n
  BY <1>1, <1>2
<1> QED BY <1>1, <1>2, <1>3

\* A function defined step by step, by one function per step.
Steps(n, A) == [1..n -> [A -> A]]

Stepwise(n, A, s, h, g) ==
  g \in [0..n -> A] /\ g[0] = s /\ \A i \in 1..n : g[i] = h[i][g[i - 1]]

\* There is a function of every list of steps.
LEMMA StepByStep ==
  ASSUME NEW n \in Nat, NEW A, NEW s \in A, NEW h \in Steps(n, A)
  PROVE  \E g : Stepwise(n, A, s, h, g)
<1> USE DEF Steps, Stepwise
<1> DEFINE Exists(k) == \E g \in [0..k -> A] : g[0] = s /\ \A i \in 1..k : g[i] = h[i][g[i - 1]]
           T == {k \in 0..n : ~Exists(k)}
<1> SUFFICES ASSUME T # {} PROVE FALSE
  <2>1. T = {} => Exists(n)
    <3> HIDE DEF Exists
    <3> QED OBVIOUS
  <2> QED BY <2>1
<1>1. PICK m \in T : \A k \in T : m <= k
  <2>1. T \subseteq Nat /\ T # {}
    OBVIOUS
  <2> HIDE DEF T
  <2> QED BY <2>1, LeastNat
<1>2. m # 0
  <2>1. Exists(0)
    <3> DEFINE g == [i \in 0..0 |-> s]
    <3>1. g \in [0..0 -> A] /\ g[0] = s /\ 1..0 = {}
      OBVIOUS
    <3> HIDE DEF g
    <3> QED BY <3>1
  <2> QED BY <2>1, <1>1
<1>3. Exists(m - 1) /\ m - 1 \in Nat /\ m \in 1..n
  <2>1. m \in 1..n /\ m - 1 \in 0..n /\ m - 1 \in Nat
    BY <1>2
  <2> HIDE DEF Exists
  <2>2. m - 1 \notin T
    BY <1>1, <2>1
  <2> QED BY <2>1, <2>2
<1>4. PICK g \in [0..(m - 1) -> A] :
        g[0] = s /\ \A i \in 1..(m - 1) : g[i] = h[i][g[i - 1]]
  BY <1>3
<1> DEFINE e == [i \in 0..m |-> IF i = m THEN h[m][g[m - 1]] ELSE g[i]]
<1>5. g[m - 1] \in A
  BY <1>3
<1>6. h[m][g[m - 1]] \in A
  BY <1>3, <1>5
<1>7. e \in [0..m -> A]
  BY <1>3, <1>6
<1>8. e[0] = s
  BY <1>3, <1>4
<1>9. ASSUME NEW i \in 1..m  PROVE e[i] = h[i][e[i - 1]]
  <2>1. CASE i = m
    <3>1. m - 1 \in 0..m /\ m - 1 # m /\ m \in 0..m
      BY <1>3
    <3> QED BY <2>1, <3>1
  <2>2. CASE i # m
    BY <1>3, <1>4, <2>2
  <2> QED BY <2>1, <2>2
<1>10. Exists(m)
  BY <1>7, <1>8, <1>9
<1> QED BY <1>1, <1>10

-----------------------------------------------------------------------------
(* The proxy of a friend                                                   *)

\* What a handler of one proxy leaves alone.
Same(s, t) ==
  /\ t.scope = s.scope /\ t.idle = s.idle /\ t.net = s.net /\ t.initial = s.initial
  /\ t.proxies = s.proxies /\ t.deleted = s.deleted /\ t.default = s.default

\* The list is a sequence of proxies.
LEMMA ListedAre ==
  ASSUME NEW s \in AccountType
  PROVE  /\ s.proxies \in Seq(Proxy) /\ Len(s.proxies) \in Nat
         /\ DOMAIN s.proxies = 1..Len(s.proxies)
         /\ ListedProxies(s) \subseteq Proxy
         /\ \A i \in 1..Len(s.proxies) : s.proxies[i] \in ListedProxies(s)
BY DEF AccountType, ListedProxies

\* The first proxy of the list in P is of the list and in P.
LEMMA FirstIsIn ==
  ASSUME NEW s \in AccountType, NEW P, P \cap ListedProxies(s) # {}
  PROVE  FirstOf(s, P) \in P \cap ListedProxies(s)
<1> DEFINE T == {i \in DOMAIN s.proxies : s.proxies[i] \in P}
<1>1. T \subseteq Nat /\ T # {}
  BY ListedAre DEF ListedProxies
<1>2. PICK m \in T : \A k \in T : m <= k
  <2> HIDE DEF T
  <2> QED BY <1>1, LeastNat
<1>3. m \in DOMAIN s.proxies /\ s.proxies[m] \in P /\ \A j \in 1..(m - 1) : s.proxies[j] \notin P
  BY <1>2, ListedAre
<1>4. PICK i \in DOMAIN s.proxies : FirstOf(s, P) = s.proxies[i] /\ s.proxies[i] \in P
  BY <1>3 DEF FirstOf
<1> QED BY <1>4 DEF ListedProxies

\* Which of the home proxies are registered.
RegisteredHome(s, f) == {p \in Home[f] \cap ListedProxies(s) : s.px[p].state = "Ok"}

\* What linphone_core_lookup_known_proxy() chooses.
LEMMA LookupIs ==
  ASSUME NEW s \in AccountType, NEW f \in Friend
  PROVE  /\ s.default \in Home[f] \/ Home[f] \cap ListedProxies(s) = {} =>
              LookupKnownProxy(s, f) = s.default
         /\ s.default \notin Home[f] /\ Home[f] \cap ListedProxies(s) # {} =>
              /\ LookupKnownProxy(s, f) \in Home[f] \cap ListedProxies(s)
              /\ RegisteredHome(s, f) # {} => LookupKnownProxy(s, f) \in RegisteredHome(s, f)
<1> DEFINE home == Home[f] \cap ListedProxies(s)
           registered == {p \in home : s.px[p].state = "Ok"}
           enabled == {p \in home : s.px[p].enabled}
           P == IF registered # {} THEN registered ELSE IF enabled # {} THEN enabled ELSE home
<1>1. CASE s.default \in Home[f] \/ home = {}
  BY <1>1 DEF LookupKnownProxy
<1>2. CASE s.default \notin Home[f] /\ home # {}
  <2>1. LookupKnownProxy(s, f) = FirstOf(s, P)
    BY <1>2 DEF LookupKnownProxy
  <2>2. P \cap ListedProxies(s) # {} /\ P \subseteq home
    BY <1>2
  <2>3. registered # {} => P = registered
    OBVIOUS
  <2>4. registered = RegisteredHome(s, f)
    BY DEF RegisteredHome
  <2> HIDE DEF P, registered
  <2>5. FirstOf(s, P) \in P \cap ListedProxies(s)
    BY <2>2, FirstIsIn
  <2> QED BY <1>2, <2>1, <2>2, <2>3, <2>4, <2>5
<1> QED BY <1>1, <1>2

\* linphone_core_lookup_known_proxy() returns a proxy or none.
LEMMA LookupInto ==
  ASSUME NEW s \in AccountType, NEW f \in Friend
  PROVE  LookupKnownProxy(s, f) \in Proxy \cup {NoProxy}
<1>1. s.default \in Proxy \cup {NoProxy} /\ ListedProxies(s) \subseteq Proxy
  BY ListedAre DEF AccountType
<1>2. CASE s.default \in Home[f] \/ Home[f] \cap ListedProxies(s) = {}
  BY <1>1, <1>2, LookupIs
<1>3. CASE s.default \notin Home[f] /\ Home[f] \cap ListedProxies(s) # {}
  BY <1>1, <1>3, LookupIs
<1> QED BY <1>2, <1>3

\* It depends on the list, on the default and on what the proxies are set and known to do.
LEMMA LookupSame ==
  ASSUME NEW s \in AccountType, NEW t \in AccountType, NEW f \in Friend,
         t.proxies = s.proxies, t.default = s.default,
         \A q \in Proxy : /\ t.px[q].enabled = s.px[q].enabled
                          /\ t.px[q].state = "Ok" <=> s.px[q].state = "Ok"
  PROVE  LookupKnownProxy(t, f) = LookupKnownProxy(s, f)
<1>1. ListedProxies(t) = ListedProxies(s) /\ ListedProxies(s) \subseteq Proxy
  BY ListedAre DEF ListedProxies
<1> DEFINE home == Home[f] \cap ListedProxies(s)
<1>2. {p \in home : t.px[p].state = "Ok"} = {p \in home : s.px[p].state = "Ok"}
  BY <1>1
<1>3. {p \in home : t.px[p].enabled} = {p \in home : s.px[p].enabled}
  BY <1>1
<1>4. \A P : FirstOf(t, P) = FirstOf(s, P)
  BY DEF FirstOf
<1> QED BY <1>1, <1>2, <1>3, <1>4 DEF LookupKnownProxy

\* The same list, with the same proxies registered, has the same proxy for a friend.
LEMMA CanSubscribeSame ==
  ASSUME NEW s \in AccountType, NEW t \in AccountType, NEW f \in Friend,
         t.proxies = s.proxies, t.default = s.default,
         \A q \in Proxy : /\ t.px[q].enabled = s.px[q].enabled
                          /\ t.px[q].state = "Ok" <=> s.px[q].state = "Ok"
  PROVE  CanSubscribe(t, f) <=> CanSubscribe(s, f)
<1>1. LookupKnownProxy(t, f) = LookupKnownProxy(s, f)
  BY LookupSame
<1> QED BY <1>1, LookupInto DEF CanSubscribe

\* A friend of another proxy than the one whose state changes could be subscribed to before.
LEMMA OthersCould ==
  ASSUME NEW s \in AccountType, NEW t \in AccountType, NEW f \in Friend, NEW p \in Proxy,
         t.proxies = s.proxies, t.default = s.default,
         \A q \in Proxy : t.px[q].enabled = s.px[q].enabled,
         \A q \in Proxy \ {p} : t.px[q].state = s.px[q].state,
         LookupKnownProxy(t, f) # p, CanSubscribe(t, f)
  PROVE  CanSubscribe(s, f)
<1>1. ListedProxies(t) = ListedProxies(s) /\ ListedProxies(s) \subseteq Proxy
  BY ListedAre DEF ListedProxies
<1>2. CASE s.default \in Home[f] \/ Home[f] \cap ListedProxies(s) = {}
  <2>1. LookupKnownProxy(t, f) = s.default /\ LookupKnownProxy(s, f) = s.default
    BY <1>1, <1>2, LookupIs
  <2> QED BY <2>1, LookupInto DEF CanSubscribe
<1>3. CASE s.default \notin Home[f] /\ Home[f] \cap ListedProxies(s) # {}
  <2> DEFINE q == LookupKnownProxy(t, f)
  <2>1. q \in Home[f] \cap ListedProxies(s)
    BY <1>1, <1>3, LookupIs
  <2>2. CASE ~OnlyWhenRegistered
    BY <2>2 DEF CanSubscribe
  <2>3. CASE OnlyWhenRegistered
    <3>1. q \in Proxy /\ q # NoProxy
      BY <1>1, <2>1, FriendsAssumption
    <3>2. t.px[q].state = "Ok"
      BY <2>3, <3>1 DEF CanSubscribe
    <3>3. s.px[q].state = "Ok"
      BY <3>1, <3>2
    <3>4. CASE RegisteredHome(s, f) # {}
      <4>1. LookupKnownProxy(s, f) \in RegisteredHome(s, f)
        BY <1>3, <3>4, LookupIs
      <4> QED BY <4>1 DEF RegisteredHome, CanSubscribe
    <3>5. CASE RegisteredHome(s, f) = {}
      <4>1. q \notin Home[f]
        BY <2>1, <3>3, <3>5 DEF RegisteredHome
      <4> QED BY <2>1, <4>1
    <3> QED BY <3>4, <3>5
  <2> QED BY <2>2, <2>3
<1> QED BY <1>2, <1>3

-----------------------------------------------------------------------------
(* The invariant of the friends                                            *)

\* A subscription that counts as active is asked for or refreshed, and an operation
\* has been asked or has a refresher; but for the excuses.
Live(me) ==
  me.excuse = "none" =>
    /\ me.active => me.sent \/ me.refresher = "on"
    /\ me.out => me.sent \/ me.refresher # "none"

FriendFine(me) == Live(me) /\ ("friends" \in me.lists => me.core)

\* WantedIsRefreshed, of one friend.
Wanted(s, f) ==
  IsListed(s, f) /\ s.fr[f].want /\ s.fr[f].excuse = "none" /\ s.net /\ s.initial /\ CanSubscribe(s, f)
    => s.fr[f].sent \/ s.fr[f].refresher = "on"

FriendsFine(s) == \A f \in Friend : FriendFine(s.fr[f]) /\ Wanted(s, f)

\* What an update of the subscription does not change.
SameFriend(me, r) ==
  /\ r \in FriendType /\ Live(r) /\ r.lists = me.lists /\ r.core = me.core /\ r.want = me.want

\* __linphone_friend_do_subscribe()
LEMMA SubscribedFriend ==
  ASSUME NEW me \in FriendType
  PROVE  SameFriend(me, DoSubscribe(me)) /\ DoSubscribe(me).sent
<1>1. PICK x : x = [me EXCEPT !.out = TRUE, !.sent = TRUE, !.refresher = "none"]
  OBVIOUS
<1>2. PICK r : r = [x EXCEPT !.active = TRUE, !.excuse = "none"]
  OBVIOUS
<1>3. r = DoSubscribe(me)
  BY <1>1, <1>2 DEF DoSubscribe, FriendType
<1>4. /\ x \in FriendType /\ x.sent /\ x.lists = me.lists /\ x.core = me.core
      /\ x.want = me.want
  BY <1>1 DEF FriendType
<1>5. /\ r \in FriendType /\ r.sent /\ r.lists = me.lists /\ r.core = me.core
      /\ r.want = me.want
  BY <1>2, <1>4 DEF FriendType
<1>6. SameFriend(me, r)
  BY <1>5 DEF SameFriend, Live
<1> QED BY <1>3, <1>5, <1>6

\* A subscription that is stopped no longer counts as active.
LEMMA StoppedFriend ==
  ASSUME NEW me \in FriendType, Live(me), NEW r, r = [Stopped(me) EXCEPT !.active = FALSE]
  PROVE  SameFriend(me, r)
<1>1. CASE me.refresher = "on"
  <2>1. r = [me EXCEPT !.refresher = "off", !.active = FALSE]
    BY <1>1 DEF Stopped
  <2> QED BY <2>1 DEF FriendType, SameFriend, Live
<1>2. CASE me.refresher # "on"
  <2>1. r = [me EXCEPT !.active = FALSE]
    BY <1>2 DEF Stopped
  <2> QED BY <2>1 DEF FriendType, SameFriend, Live
<1> QED BY <1>1, <1>2

\* linphone_friend_update_subscribes(): the friend keeps its subscription up, unless
\* it is told of another proxy than its own.
LEMMA UpdateOne ==
  ASSUME NEW s \in AccountType, NEW f \in Friend, NEW p \in Proxy \cup {NoProxy},
         NEW me, me = s.fr[f], Live(me), NEW r, r = UpdateSubscribes(s, f, p)
  PROVE  /\ SameFriend(me, r)
         /\ me.want /\ CanSubscribe(s, f) /\ r.excuse = "none" =>
              \/ r.sent \/ r.refresher = "on"
              \/ r = me /\ OnlyWhenRegistered /\ p # NoProxy /\ p # LookupKnownProxy(s, f)
<1>1. me \in FriendType
  BY DEF AccountType
<1>2. SameFriend(me, me) /\ SameFriend(me, DoSubscribe(me)) /\ DoSubscribe(me).sent
  BY <1>1, SubscribedFriend DEF SameFriend
<1>3. SameFriend(me, Suspend(me)) /\ SameFriend(me, Unsubscribe(me))
  BY <1>1, <1>2, StoppedFriend DEF Suspend, Unsubscribe
<1> DEFINE asks == OnlyWhenRegistered /\ (me.want \/ me.active)
           can == asks => CanSubscribe(s, f)
           another == asks /\ p # NoProxy /\ p # LookupKnownProxy(s, f)
<1>4. r = IF can /\ me.want /\ ~me.active /\ ~another THEN DoSubscribe(me)
          ELSE IF can /\ me.active /\ ~me.want /\ ~another THEN Unsubscribe(me)
          ELSE IF ~can /\ me.out /\ ~another THEN Suspend(me)
          ELSE me
  BY DEF UpdateSubscribes
<1>5. SameFriend(me, r)
  <2> HIDE DEF can, another
  <2> QED BY <1>2, <1>3, <1>4
<1>6. ASSUME me.want, CanSubscribe(s, f), r.excuse = "none"
      PROVE  \/ r.sent \/ r.refresher = "on"
             \/ r = me /\ OnlyWhenRegistered /\ p # NoProxy /\ p # LookupKnownProxy(s, f)
  <2>1. can /\ (another => OnlyWhenRegistered /\ p # NoProxy /\ p # LookupKnownProxy(s, f))
    BY <1>6
  <2> HIDE DEF can, another
  <2>2. CASE another
    BY <1>4, <1>6, <2>1, <2>2
  <2>3. CASE ~another /\ ~me.active
    BY <1>2, <1>4, <1>6, <2>1, <2>3
  <2>4. CASE ~another /\ me.active
    <3>1. r = me
      BY <1>4, <1>6, <2>1, <2>4
    <3> QED BY <1>6, <2>4, <3>1 DEF Live
  <2> QED BY <2>2, <2>3, <2>4
<1> QED BY <1>5, <1>6

\* A state with other friends.
LEMMA WithFriends ==
  ASSUME NEW s \in AccountType, NEW fr \in [Friend -> FriendType], NEW t, t = [s EXCEPT !.fr = fr]
  PROVE  /\ t \in AccountType /\ Same(s, t) /\ t.px = s.px /\ t.fr = fr
         /\ \A f \in Friend : /\ LookupKnownProxy(t, f) = LookupKnownProxy(s, f)
                              /\ CanSubscribe(t, f) <=> CanSubscribe(s, f)
<1>1. t \in AccountType /\ Same(s, t) /\ t.px = s.px /\ t.fr = fr
  BY DEF AccountType, Same
<1>2. \A f \in Friend : LookupKnownProxy(t, f) = LookupKnownProxy(s, f)
  BY ZenonT(60), <1>1, LookupSame DEF Same
<1>3. \A f \in Friend : CanSubscribe(t, f) <=> CanSubscribe(s, f)
  BY <1>1, CanSubscribeSame DEF Same
<1> QED BY <1>1, <1>2, <1>3

\* The friends are told of a proxy whose state has changed, or of none in particular.
LEMMA FriendsUpdated ==
  ASSUME NEW s \in AccountType, NEW p \in Proxy \cup {NoProxy}, NEW r, r = UpdateFriends(s, p),
         \A f \in Friend : FriendFine(s.fr[f]),
         \A f \in Friend : IsListed(s, f) /\ OnlyWhenRegistered /\ p # NoProxy
                             /\ p # LookupKnownProxy(s, f) => Wanted(s, f)
  PROVE  r \in AccountType /\ Same(s, r) /\ r.px = s.px /\ FriendsFine(r)
<1> DEFINE fr == [f \in Friend |-> IF IsListed(s, f) THEN UpdateSubscribes(s, f, p) ELSE s.fr[f]]
<1>1. r = [s EXCEPT !.fr = fr]
  BY DEF UpdateFriends
<1>2. ASSUME NEW f \in Friend
      PROVE  SameFriend(s.fr[f], UpdateSubscribes(s, f, p)) /\ s.fr[f] \in FriendType
  BY UpdateOne DEF AccountType, FriendFine
<1>3. fr \in [Friend -> FriendType]
  BY <1>2 DEF SameFriend
<1>4. /\ r \in AccountType /\ Same(s, r) /\ r.px = s.px /\ r.fr = fr
      /\ \A f \in Friend : CanSubscribe(r, f) <=> CanSubscribe(s, f)
  <2> HIDE DEF fr
  <2> QED BY <1>1, <1>3, WithFriends
<1>5. ASSUME NEW f \in Friend  PROVE FriendFine(r.fr[f]) /\ Wanted(r, f)
  <2> DEFINE me == s.fr[f]
             u == UpdateSubscribes(s, f, p)
  <2>1. CASE ~IsListed(s, f)
    <3>1. r.fr[f] = me
      BY <1>4, <2>1
    <3> QED BY <2>1, <3>1 DEF Wanted, IsListed
  <2>2. CASE IsListed(s, f)
    <3>1. r.fr[f] = u
      BY <1>4, <2>2
    <3>2. SameFriend(me, u) /\ FriendFine(me)
      BY <1>2
    <3>3. me.want /\ CanSubscribe(s, f) /\ u.excuse = "none" =>
              \/ u.sent \/ u.refresher = "on"
              \/ u = me /\ OnlyWhenRegistered /\ p # NoProxy /\ p # LookupKnownProxy(s, f)
      BY <3>2, UpdateOne DEF FriendFine
    <3>4. Wanted(r, f)
      <4> SUFFICES ASSUME u.want, u.excuse = "none", s.net, s.initial, CanSubscribe(s, f)
                   PROVE  u.sent \/ u.refresher = "on"
        BY <1>4, <3>1 DEF Wanted, Same
      <4> HIDE DEF u
      <4>1. CASE u = me /\ OnlyWhenRegistered /\ p # NoProxy /\ p # LookupKnownProxy(s, f)
        BY <2>2, <4>1 DEF Wanted
      <4> QED BY <3>2, <3>3, <4>1 DEF SameFriend
    <3> QED BY <3>1, <3>2, <3>4 DEF FriendFine, SameFriend
  <2> QED BY <2>1, <2>2
<1> QED BY <1>4, <1>5 DEF FriendsFine

-----------------------------------------------------------------------------
(* The invariant of the proxies                                            *)

\* An answer or a password is waited for on an operation with a refresher.
Heard(x) == x.busy \/ x.auth = "pending" => x.refresher # "none"

\* A proxy that registers, and that the application has left alone since, is tended by its
\* refresher.
Tended(x) ==
  x.enabled /\ ~x.paused /\ ~x.commit /\ ~x.editing =>
    /\ x.state = "Progress" => x.busy \/ x.refresher = "on"
    /\ x.state = "Ok" => x.refresher = "on"
    /\ x.busy /\ x.wants = "register" => x.refresher = "on"

\* PublishNotForgotten of one proxy; those that do not register keep their publication
\* without the network.
Remembered(x, net) ==
  x.publish /\ (net \/ ~x.enabled) => x.pubop \/ x.send \/ x.commit \/ x.editing

ProxiesFine(s) ==
  /\ \A p \in Proxy : Heard(s.px[p])
  /\ \A p \in ListedProxies(s) : Tended(s.px[p]) /\ Remembered(s.px[p], s.net)

Distinct(q) == \A i, j \in 1..Len(q) : q[i] = q[j] => i = j

Members(q) == {q[i] : i \in DOMAIN q}

\* The list has no proxy twice, and none that was removed; the first subscriptions
\* have been made on a network that is still there.
Ordered(s) ==
  /\ s.initial => s.net
  /\ Distinct(s.proxies)
  /\ s.deleted \cap ListedProxies(s) = {}
  /\ s.default \in ListedProxies(s) \cup {NoProxy}

Sound(s) == s \in AccountType /\ Ordered(s) /\ ProxiesFine(s) /\ FriendsFine(s)

-----------------------------------------------------------------------------
(* One proxy                                                               *)

\* The friends are not told, and need not be.
LEMMA QuietProxies ==
  ASSUME NEW s \in AccountType, NEW t \in AccountType, FriendsFine(s), Same(s, t), t.fr = s.fr,
         \A q \in Proxy : /\ t.px[q].enabled = s.px[q].enabled
                          /\ t.px[q].state = "Ok" <=> s.px[q].state = "Ok"
  PROVE  FriendsFine(t)
<1>1. \A f \in Friend : CanSubscribe(t, f) <=> CanSubscribe(s, f)
  BY CanSubscribeSame DEF Same
<1> QED BY <1>1 DEF FriendsFine, Wanted, Same, IsListed

\* The same for one proxy.
LEMMA QuietProxy ==
  ASSUME NEW s \in AccountType, NEW t \in AccountType, NEW p \in Proxy,
         NEW x \in ProxyType, FriendsFine(s),
         Same(s, t), t.fr = s.fr, t.px = [s.px EXCEPT ![p] = x],
         x.enabled = s.px[p].enabled, x.state = s.px[p].state
  PROVE  FriendsFine(t)
<1>1. s.px \in [Proxy -> ProxyType]
  BY DEF AccountType
<1>2. \A q \in Proxy : t.px[q].enabled = s.px[q].enabled /\ t.px[q].state = s.px[q].state
  BY <1>1
<1>3. \A f \in Friend : CanSubscribe(t, f) <=> CanSubscribe(s, f)
  BY <1>2, CanSubscribeSame DEF Same
<1> QED BY <1>3 DEF FriendsFine, Wanted, Same, IsListed

\* linphone_proxy_config_set_state()
LEMMA StateSet ==
  ASSUME NEW s \in AccountType, NEW p \in Proxy, NEW state \in RegState, FriendsFine(s),
         NEW r, r = SetState(s, p, state)
  PROVE  /\ r \in AccountType /\ Same(s, r) /\ FriendsFine(r)
         /\ r.px = [s.px EXCEPT ![p] = [s.px[p] EXCEPT !.state = state]]
<1> DEFINE x == [s.px[p] EXCEPT !.state = state]
           t == [s EXCEPT !.px[p] = x]
<1>1. s.px \in [Proxy -> ProxyType] /\ s.px[p] \in ProxyType
  BY DEF AccountType
<1>2. x \in ProxyType /\ x.state = state /\ x.enabled = s.px[p].enabled
  BY <1>1 DEF ProxyType
<1>3. t = [s EXCEPT !.px[p].state = state]
  OBVIOUS
<1>4. r = IF OnlyWhenRegistered /\ (s.px[p].state = "Ok") # (state = "Ok")
          THEN UpdateFriends(t, p) ELSE t
  BY <1>3 DEF SetState
<1> HIDE DEF x, t
<1>5. t \in AccountType /\ Same(s, t) /\ t.fr = s.fr /\ t.px = [s.px EXCEPT ![p] = x]
  BY <1>1, <1>2 DEF t, AccountType, Same
<1>6. \A q \in Proxy : t.px[q].enabled = s.px[q].enabled
  BY <1>1, <1>2, <1>5
<1>7. \A q \in Proxy \ {p} : t.px[q].state = s.px[q].state
  BY <1>1, <1>5
<1>8. t.px[p].state = state
  BY <1>1, <1>2, <1>5
<1>9. CASE r = UpdateFriends(t, p)
  <2>1. ASSUME NEW f \in Friend, IsListed(t, f), p # LookupKnownProxy(t, f)  PROVE Wanted(t, f)
    <3>1. CanSubscribe(t, f) => CanSubscribe(s, f)
      BY <1>5, <1>6, <1>7, <2>1, OthersCould DEF Same
    <3>2. Wanted(s, f)
      BY DEF FriendsFine
    <3> QED BY <1>5, <3>1, <3>2 DEF Wanted, Same, IsListed
  <2>2. \A f \in Friend : FriendFine(t.fr[f])
    BY <1>5 DEF FriendsFine
  <2>3. r \in AccountType /\ Same(t, r) /\ r.px = t.px /\ FriendsFine(r)
    BY <1>5, <1>9, <2>1, <2>2, FriendsUpdated
  <2> QED BY <1>5, <2>3 DEF Same, x
<1>10. CASE r = t /\ (~OnlyWhenRegistered \/ (s.px[p].state = "Ok" <=> state = "Ok"))
  <2>1. ASSUME NEW f \in Friend  PROVE CanSubscribe(t, f) => CanSubscribe(s, f)
    <3>1. CASE ~OnlyWhenRegistered
      BY <3>1 DEF CanSubscribe
    <3>2. CASE s.px[p].state = "Ok" <=> state = "Ok"
      BY ZenonT(60), <1>5, <1>6, <1>7, <1>8, <3>2, CanSubscribeSame DEF Same
    <3> QED BY <1>10, <3>1, <3>2
  <2>2. FriendsFine(t)
    BY <1>5, <2>1 DEF FriendsFine, Wanted, Same, IsListed
  <2> QED BY <1>5, <1>10, <2>2 DEF x
<1> QED BY <1>4, <1>9, <1>10

\* A step on one proxy.
LEMMA ProxyStepped ==
  ASSUME NEW s, Sound(s), NEW p \in Proxy, NEW x \in ProxyType, NEW r \in AccountType, Same(s, r),
         FriendsFine(r), r.px = [s.px EXCEPT ![p] = x], Heard(x),
         p \in ListedProxies(s) => Tended(x) /\ Remembered(x, s.net)
  PROVE  Sound(r)
<1>1. s \in AccountType /\ s.px \in [Proxy -> ProxyType] /\ ListedProxies(s) \subseteq Proxy
  BY ListedAre DEF Sound, AccountType
<1>2. ListedProxies(r) = ListedProxies(s)
  BY DEF Same, ListedProxies
<1>3. Ordered(r)
  BY <1>2 DEF Sound, Ordered, Same
<1>4. ProxiesFine(r)
  BY <1>1, <1>2 DEF Sound, ProxiesFine, Same
<1> QED BY <1>3, <1>4 DEF Sound

\* A handler has taken s to r, and the record of p to x.
Stepped(s, p, x, r) ==
  /\ r \in AccountType /\ Same(s, r) /\ FriendsFine(r)
  /\ x \in ProxyType /\ r.px = [s.px EXCEPT ![p] = x]

\* A step that changes neither the state of the proxy nor whether it registers.
LEMMA QuietlyStepped ==
  ASSUME NEW s \in AccountType, NEW p \in Proxy, NEW x \in ProxyType,
         NEW t, t = [s EXCEPT !.px[p] = x],
         FriendsFine(s), x.enabled = s.px[p].enabled, x.state = s.px[p].state
  PROVE  Stepped(s, p, x, t)
<1>1. t \in AccountType /\ Same(s, t) /\ t.fr = s.fr /\ t.px = [s.px EXCEPT ![p] = x]
  BY DEF AccountType, Same
<1>2. ASSUME NEW u \in AccountType, Same(s, u), u.fr = s.fr, u.px = [s.px EXCEPT ![p] = x]
      PROVE  FriendsFine(u)
  BY <1>2, QuietProxy
<1> QED BY <1>1, <1>2 DEF Stepped

\* One step on a proxy after the other.
LEMMA SteppedOn ==
  ASSUME NEW s \in AccountType, NEW p \in Proxy, NEW x, NEW t, Stepped(s, p, x, t),
         NEW y, NEW r, Stepped(t, p, y, r)
  PROVE  Stepped(s, p, y, r)
BY DEF Stepped, Same, AccountType

\* What a step on a proxy comes to.
LEMMA SteppedTo ==
  ASSUME NEW s \in AccountType, NEW p \in Proxy, NEW x, NEW t, Stepped(s, p, x, t)
  PROVE  t \in AccountType /\ FriendsFine(t) /\ t.px[p] = x /\ x \in ProxyType
BY DEF Stepped, AccountType

InState(x, state) == [x EXCEPT !.state = state]

\* linphone_proxy_config_set_state() is a step on the proxy, whose friends are told.
LEMMA StateStepped ==
  ASSUME NEW s \in AccountType, NEW p \in Proxy, NEW state \in RegState, FriendsFine(s)
  PROVE  Stepped(s, p, InState(s.px[p], state), SetState(s, p, state))
<1>1. s.px[p] \in ProxyType
  BY DEF AccountType
<1>2. InState(s.px[p], state) \in ProxyType
  BY <1>1 DEF ProxyType, InState
<1> QED BY <1>2, StateSet DEF Stepped, InState

-----------------------------------------------------------------------------
(* The records of a proxy                                                  *)

\* What the registration of a proxy leaves alone.
SameSettings(x, y) ==
  /\ y \in ProxyType /\ y.enabled = x.enabled /\ y.publish = x.publish /\ y.send = x.send
  /\ y.commit = x.commit /\ y.pubop = x.pubop /\ y.editing = x.editing

\* sal_op_release(): nothing of the operation is left.
LEMMA WithoutOperation ==
  ASSUME NEW x \in ProxyType, NEW y, y = NoOperation(x)
  PROVE  /\ SameSettings(x, y) /\ y.state = x.state /\ ~y.op /\ ~y.busy /\ ~y.paused
         /\ y.wants = "register" /\ y.refresher = "none" /\ y.auth = "none"
<1>1. PICK x1 : x1 = [x EXCEPT !.op = FALSE, !.busy = FALSE, !.wants = "register"]
  OBVIOUS
<1>2. PICK x2 : x2 = [x1 EXCEPT !.refresher = "none", !.auth = "none", !.paused = FALSE]
  OBVIOUS
<1>3. x2 = y
  BY <1>1, <1>2 DEF NoOperation, ProxyType
<1>4. /\ SameSettings(x, x1) /\ x1.state = x.state /\ ~x1.op /\ ~x1.busy
      /\ x1.wants = "register"
  BY <1>1 DEF ProxyType, SameSettings
<1>5. /\ SameSettings(x1, x2) /\ x2.state = x1.state /\ x2.op = x1.op /\ x2.busy = x1.busy
      /\ x2.wants = x1.wants /\ ~x2.paused /\ x2.refresher = "none" /\ x2.auth = "none"
  BY <1>2, <1>4 DEF ProxyType, SameSettings
<1> QED BY <1>3, <1>4, <1>5 DEF SameSettings

\* sal_register_refresh()
LEMMA Refreshed ==
  ASSUME NEW x \in ProxyType, NEW wants \in {"register", "unregister"}, NEW y, y = Refresh(x, wants)
  PROVE  /\ SameSettings(x, y) /\ y.state = x.state /\ y.auth = x.auth /\ y.op = x.op
         /\ x.refresher = "none" => y = x
         /\ x.refresher # "none" => y.busy /\ y.wants = wants /\ ~y.paused
         /\ x.refresher # "none" /\ wants = "register" => y.refresher = "on"
         /\ x.refresher # "none" => y.refresher # "none"
<1>1. CASE x.refresher = "none"
  BY <1>1 DEF Refresh, SameSettings
<1>2. CASE x.refresher # "none" /\ wants = "register"
  <2>1. PICK x1 : x1 = [x EXCEPT !.busy = TRUE, !.wants = wants]
    OBVIOUS
  <2>2. PICK x2 : x2 = [x1 EXCEPT !.paused = FALSE, !.refresher = "on"]
    OBVIOUS
  <2>3. x2 = y
    BY <1>2, <2>1, <2>2 DEF Refresh, ProxyType
  <2>4. SameSettings(x, x1) /\ x1.state = x.state /\ x1.auth = x.auth /\ x1.op = x.op /\ x1.busy /\ x1.wants = wants
    BY <2>1 DEF ProxyType, SameSettings
  <2>5. /\ SameSettings(x1, x2) /\ x2.state = x1.state /\ x2.auth = x1.auth /\ x2.op = x1.op
        /\ x2.busy = x1.busy /\ x2.wants = x1.wants /\ ~x2.paused /\ x2.refresher = "on"
    BY <2>2, <2>4 DEF ProxyType, SameSettings
  <2> QED BY ZenonT(60), <1>2, <2>3, <2>4, <2>5 DEF SameSettings
<1>3. CASE x.refresher # "none" /\ wants = "unregister"
  <2>1. PICK x1 : x1 = [x EXCEPT !.busy = TRUE, !.wants = wants]
    OBVIOUS
  <2>2. PICK x2 : x2 = [x1 EXCEPT !.paused = FALSE, !.refresher = "off"]
    OBVIOUS
  <2>3. x2 = y
    BY <1>3, <2>1, <2>2 DEF Refresh, ProxyType
  <2>4. SameSettings(x, x1) /\ x1.state = x.state /\ x1.auth = x.auth /\ x1.op = x.op /\ x1.busy /\ x1.wants = wants
    BY <2>1 DEF ProxyType, SameSettings
  <2>5. /\ SameSettings(x1, x2) /\ x2.state = x1.state /\ x2.auth = x1.auth /\ x2.op = x1.op
        /\ x2.busy = x1.busy /\ x2.wants = x1.wants /\ ~x2.paused /\ x2.refresher = "off"
    BY <2>2, <2>4 DEF ProxyType, SameSettings
  <2> QED BY ZenonT(60), <1>3, <2>3, <2>4, <2>5 DEF SameSettings
<1> QED BY <1>1, <1>2, <1>3

\* sal_op_stop_refreshing()
LEMMA RefreshStopped ==
  ASSUME NEW x \in ProxyType, NEW y, y = StopRefreshing(x)
  PROVE  /\ SameSettings(x, y) /\ y.state = x.state /\ y.auth = x.auth /\ y.busy = x.busy
         /\ y.cfg = x.cfg /\ y.saved = x.saved /\ y.paused = x.paused
         /\ x.refresher = "none" <=> y.refresher = "none"
         /\ x.refresher # "on" => y = x
BY DEF StopRefreshing, ProxyType, SameSettings

-----------------------------------------------------------------------------
(* REGISTER and PUBLISH of one proxy                                       *)

\* What linphone_proxy_config_register() leaves of a proxy that registers.
Asked(x) ==
  x.state # "Ok" /\ (x.state = "Progress" => x.refresher = "on") /\ (x.busy => x.refresher = "on")

\* The state alone is changed.
LEMMA StateOnly ==
  ASSUME NEW x \in ProxyType, NEW state \in RegState, NEW y, y = InState(x, state)
  PROVE  /\ SameSettings(x, y) /\ y.state = state /\ y.auth = x.auth /\ y.refresher = x.refresher
         /\ y.busy = x.busy /\ y.wants = x.wants /\ y.paused = x.paused /\ y.op = x.op
BY DEF ProxyType, SameSettings, InState

Asking(w, sent, refresher) ==
  [w EXCEPT !.op = TRUE, !.busy = sent, !.refresher = refresher]

\* A new operation, and its REGISTER.
LEMMA AskedToRegister ==
  ASSUME NEW x \in ProxyType, NEW w, w = NoOperation(x), NEW sent \in BOOLEAN,
         NEW refresher \in {"none", "on"}, NEW y, y = Asking(w, sent, refresher)
  PROVE  /\ SameSettings(x, y) /\ y.state = x.state /\ y.auth = "none" /\ y.busy = sent
         /\ y.refresher = refresher
<1>1. /\ SameSettings(x, w) /\ w.state = x.state /\ w.refresher = "none" /\ w.auth = "none"
  BY WithoutOperation
<1>2. /\ SameSettings(w, y) /\ y.state = w.state /\ y.auth = w.auth /\ y.refresher = refresher
      /\ y.busy = sent
  BY ZenonT(60), <1>1 DEF ProxyType, SameSettings, Asking
<1> QED BY <1>1, <1>2 DEF SameSettings

\* _linphone_proxy_config_unregister()
LEMMA Unregistered ==
  ASSUME NEW x \in ProxyType, Heard(x), NEW y, y = Unregister(x)
  PROVE  SameSettings(x, y) /\ y.state = x.state /\ Heard(y)
<1>1. SameSettings(x, x)
  BY DEF SameSettings
<1>2. PICK z : z = Refresh(x, "unregister")
  OBVIOUS
<1>3. SameSettings(x, z) /\ z.state = x.state /\ z.auth = x.auth
  BY <1>2, Refreshed
<1>4. x.refresher = "none" => z = x
  BY <1>2, Refreshed
<1>5. x.refresher # "none" => z.refresher # "none"
  BY <1>2, Refreshed
<1>6. Heard(z)
  BY <1>3, <1>4, <1>5 DEF Heard
<1> QED BY <1>1, <1>2, <1>3, <1>6 DEF Unregister

\* linphone_proxy_config_register()
LEMMA RegisterStepped ==
  ASSUME NEW s \in AccountType, NEW p \in Proxy,
         NEW sent \in BOOLEAN, FriendsFine(s), Heard(s.px[p]),
         NEW r, r = Register(s, p, sent)
  PROVE  \E x : /\ Stepped(s, p, x, r) /\ SameSettings(s.px[p], x) /\ Heard(x)
                /\ x.enabled => Asked(x)
<1>1. s.px \in [Proxy -> ProxyType] /\ s.px[p] \in ProxyType
  BY DEF AccountType
<1>2. CASE s.px[p].enabled
  <2>1. PICK me \in ProxyType : me = s.px[p]
    BY <1>1
  <2>2. PICK refresher \in {"none", "on"}, state \in {"Progress", "Failed"} :
          /\ refresher = IF sent THEN "on" ELSE "none"
          /\ state = IF sent THEN "Progress" ELSE "Failed"
    OBVIOUS
  <2>3. PICK w, y, x : /\ w = NoOperation(me)
                       /\ y = Asking(w, sent, refresher)
                       /\ x = InState(y, state)
    OBVIOUS
  <2>4. /\ SameSettings(me, y) /\ y.state = me.state /\ y.auth = "none" /\ y.busy = sent
        /\ y.refresher = refresher
    BY <2>3, AskedToRegister
  <2>5. /\ y \in ProxyType /\ y.state = s.px[p].state /\ y.enabled = s.px[p].enabled
    BY <2>1, <2>4 DEF SameSettings
  <2>6. SameSettings(y, x) /\ x.state = state /\ x.auth = "none" /\ x.busy = sent /\ x.refresher = refresher
    <3>1. state \in RegState
      BY DEF RegState
    <3> QED BY <2>3, <2>4, <2>5, <3>1, StateOnly
  <2>7. SameSettings(s.px[p], x) /\ Heard(x) /\ Asked(x)
    BY <2>1, <2>2, <2>4, <2>6 DEF SameSettings, Heard, Asked
  <2>8. PICK t : t = [s EXCEPT !.px[p] = y]
    OBVIOUS
  <2>9. r = SetState(t, p, state)
    BY <1>2, <2>1, <2>2, <2>3, <2>8 DEF Register, Asking
  <2>10. Stepped(s, p, y, t)
    BY <2>5, <2>8, QuietlyStepped
  <2>11. t \in AccountType /\ FriendsFine(t) /\ t.px[p] = y /\ state \in RegState
    BY <2>10, SteppedTo DEF RegState
  <2>12. Stepped(t, p, x, r)
    BY <2>3, <2>9, <2>11, StateStepped
  <2> QED BY <2>7, <2>10, <2>12, SteppedOn
<1>3. CASE ~s.px[p].enabled
  <2>1. PICK t : t = IF s.px[p].state = "Progress" THEN SetState(s, p, "Cleared") ELSE s
    OBVIOUS
  <2>2. PICK y : Stepped(s, p, y, t) /\ SameSettings(s.px[p], y) /\ Heard(y)
    <3>1. CASE s.px[p].state = "Progress"
      <4>1. PICK y : y = InState(s.px[p], "Cleared")
        OBVIOUS
      <4>2. SameSettings(s.px[p], y) /\ Heard(y)
        <5>1. "Cleared" \in RegState
          BY DEF RegState
        <5> QED BY <1>1, <4>1, <5>1, StateOnly DEF Heard
      <4>3. Stepped(s, p, y, t)
        <5>1. "Cleared" \in RegState /\ t = SetState(s, p, "Cleared")
          BY <2>1, <3>1 DEF RegState
        <5> QED BY <4>1, <5>1, StateStepped
      <4> QED BY <4>2, <4>3
    <3>2. CASE s.px[p].state # "Progress"
      <4>1. Stepped(s, p, s.px[p], s)
        BY <1>1 DEF Stepped, Same
      <4> QED BY <1>1, <2>1, <3>2, <4>1 DEF SameSettings
    <3> QED BY <3>1, <3>2
  <2>3. t \in AccountType /\ FriendsFine(t) /\ t.px[p] = y /\ y \in ProxyType
    BY <2>2, SteppedTo
  <2>4. PICK x : x = Unregister(y)
    OBVIOUS
  <2>5. SameSettings(y, x) /\ x.state = y.state /\ Heard(x)
    BY <2>2, <2>3, <2>4, Unregistered
  <2>6. r = [t EXCEPT !.px[p] = x]
    BY <1>3, <2>1, <2>3, <2>4 DEF Register
  <2>7. Stepped(t, p, x, r)
    BY <2>3, <2>5, <2>6, QuietlyStepped DEF SameSettings
  <2>8. Stepped(s, p, x, r)
    BY <2>2, <2>7, SteppedOn
  <2> QED BY <1>3, <2>2, <2>5, <2>8 DEF SameSettings
<1> QED BY <1>2, <1>3

Committed(x, publish) == [x EXCEPT !.commit = FALSE, !.send = @ \/ publish]

\* The commit of linphone_proxy_config_update() is done.
LEMMA CommittedIs ==
  ASSUME NEW x \in ProxyType, NEW publish \in BOOLEAN, NEW y, y = Committed(x, publish)
  PROVE  /\ y \in ProxyType /\ y.state = x.state /\ y.enabled = x.enabled /\ y.publish = x.publish
         /\ y.editing = x.editing /\ y.pubop = x.pubop /\ y.auth = x.auth /\ y.busy = x.busy
         /\ y.wants = x.wants /\ y.refresher = x.refresher /\ (publish => y.send)
BY DEF ProxyType, Committed

Published(x) == [SendPublish(x) EXCEPT !.send = FALSE]

\* The PUBLISH of linphone_proxy_config_update() is sent.
LEMMA PublishedIs ==
  ASSUME NEW x \in ProxyType, CanPublish(x), NEW y, y = Published(x)
  PROVE  /\ y \in ProxyType /\ y.state = x.state /\ y.enabled = x.enabled /\ y.publish = x.publish
         /\ y.editing = x.editing /\ y.pubop /\ y.auth = x.auth /\ y.busy = x.busy
         /\ y.wants = x.wants /\ y.refresher = x.refresher /\ y.commit = x.commit /\ y.paused = x.paused
BY DEF ProxyType, Published, SendPublish

\* linphone_proxy_config_update()
LEMMA ProxyUpdated ==
  ASSUME NEW s, Sound(s), NEW p \in ListedProxies(s), NEW sent \in BOOLEAN,
         NEW r, r = UpdateProxy(s, p, sent)
  PROVE  Sound(r) /\ Same(s, r)
<1>1. /\ s \in AccountType /\ FriendsFine(s) /\ p \in Proxy /\ Heard(s.px[p]) /\ s.px[p] \in ProxyType
      /\ Tended(s.px[p]) /\ Remembered(s.px[p], s.net)
  BY ListedAre DEF Sound, ProxiesFine, AccountType
<1>2. PICK t : t = IF s.px[p].commit /\ s.net
                   THEN [Register(s, p, sent) EXCEPT !.px[p].commit = FALSE,
                                                     !.px[p].send = @ \/ s.px[p].publish]
                   ELSE s
  OBVIOUS
<1>3. PICK x : Stepped(s, p, x, t) /\ Heard(x) /\ Tended(x) /\ Remembered(x, s.net)
  <2>1. CASE ~(s.px[p].commit /\ s.net)
    <3>1. Stepped(s, p, s.px[p], s)
      BY <1>1 DEF Stepped, Same, AccountType
    <3> QED BY <1>1, <1>2, <2>1, <3>1
  <2>2. CASE s.px[p].commit /\ s.net
    <3>1. PICK u : u = Register(s, p, sent)
      OBVIOUS
    <3>2. PICK y : /\ Stepped(s, p, y, u) /\ SameSettings(s.px[p], y) /\ Heard(y)
                   /\ y.enabled => Asked(y)
      BY <1>1, <3>1, RegisterStepped
    <3>3. u \in AccountType /\ FriendsFine(u) /\ u.px[p] = y /\ y \in ProxyType
      BY <1>1, <3>2, SteppedTo
    <3>4. PICK publish \in BOOLEAN : publish = s.px[p].publish
      BY <1>1 DEF ProxyType
    <3>5. PICK x : x = Committed(y, publish)
      OBVIOUS
    <3>6. /\ x \in ProxyType /\ x.state = y.state /\ x.enabled = y.enabled /\ x.publish = y.publish
          /\ x.editing = y.editing /\ x.auth = y.auth /\ x.busy = y.busy
          /\ x.refresher = y.refresher /\ (publish => x.send)
      BY <3>3, <3>5, CommittedIs
    <3>7. t = [u EXCEPT !.px[p] = x]
      BY <1>1, <1>2, <2>2, <3>1, <3>3, <3>4, <3>5 DEF Committed, AccountType
    <3>8. Stepped(u, p, x, t)
      BY <1>1, <3>3, <3>6, <3>7, QuietlyStepped
    <3>9. Stepped(s, p, x, t)
      BY <1>1, <3>2, <3>8, SteppedOn
    <3>10. Heard(x) /\ Tended(x) /\ Remembered(x, s.net)
      BY <3>2, <3>4, <3>6 DEF Heard, Asked, Tended, Remembered, SameSettings
    <3> QED BY <3>9, <3>10
  <2> QED BY <2>1, <2>2
<1>4. t \in AccountType /\ FriendsFine(t) /\ t.px[p] = x /\ x \in ProxyType
  BY <1>1, <1>3, SteppedTo
<1>5. CASE r = t
  <2>1. Stepped(s, p, x, r)
    BY <1>3, <1>5
  <2> QED BY <1>1, <1>3, <2>1, ProxyStepped DEF Stepped
<1>6. CASE CanPublish(x) /\ r = [t EXCEPT !.px[p] = Published(x)]
  <2>1. PICK y : y = Published(x)
    OBVIOUS
  <2>2. /\ y \in ProxyType /\ y.state = x.state /\ y.enabled = x.enabled /\ y.publish = x.publish
        /\ y.editing = x.editing /\ y.pubop /\ y.auth = x.auth /\ y.busy = x.busy
        /\ y.wants = x.wants /\ y.refresher = x.refresher /\ y.commit = x.commit /\ y.paused = x.paused
    BY <1>4, <1>6, <2>1, PublishedIs
  <2>3. r = [t EXCEPT !.px[p] = y]
    BY <1>6, <2>1
  <2>4. Stepped(t, p, y, r)
    BY <1>1, <1>4, <2>2, <2>3, QuietlyStepped
  <2>5. Stepped(s, p, y, r)
    BY <1>1, <1>3, <2>4, SteppedOn
  <2>6. Heard(y) /\ Tended(y) /\ Remembered(y, s.net)
    BY <1>3, <2>2 DEF Heard, Tended, Remembered
  <2> QED BY <1>1, <2>5, <2>6, ProxyStepped DEF Stepped
<1>7. r = IF x.send /\ CanPublish(x) THEN [t EXCEPT !.px[p] = Published(x)] ELSE t
  BY <1>2, <1>4 DEF UpdateProxy, Published
<1> QED BY <1>5, <1>6, <1>7

\* linphone_proxy_config_refresh_register()
LEMMA RegisterRefreshed ==
  ASSUME NEW s, Sound(s), NEW p \in Proxy, NEW r, r = RefreshRegisterOf(s, p)
  PROVE  Sound(r) /\ Same(s, r)
<1>1. /\ s \in AccountType /\ FriendsFine(s) /\ Heard(s.px[p]) /\ s.px[p] \in ProxyType
      /\ p \in ListedProxies(s) => Remembered(s.px[p], s.net)
  BY DEF Sound, ProxiesFine, AccountType
<1>2. CASE r = s
  BY <1>2 DEF Same
<1>3. CASE s.px[p].refresher # "none" /\ r = SetState([s EXCEPT !.px[p] = Refresh(s.px[p], "register")], p, "Progress")
  <2>1. PICK y, t : y = Refresh(s.px[p], "register") /\ t = [s EXCEPT !.px[p] = y]
    OBVIOUS
  <2>2. /\ SameSettings(s.px[p], y) /\ y.state = s.px[p].state /\ y.auth = s.px[p].auth
        /\ y.busy /\ y.refresher = "on"
    BY <1>1, <1>3, <2>1, Refreshed
  <2>3. Stepped(s, p, y, t)
    BY <1>1, <2>1, <2>2, QuietlyStepped DEF SameSettings
  <2>4. t \in AccountType /\ FriendsFine(t) /\ t.px[p] = y /\ y \in ProxyType
    BY <1>1, <2>3, SteppedTo
  <2>5. PICK x : x = InState(y, "Progress")
    OBVIOUS
  <2>6. "Progress" \in RegState
    BY DEF RegState
  <2>7. /\ SameSettings(y, x) /\ x.state = "Progress" /\ x.auth = y.auth /\ x.refresher = "on"
        /\ x.busy
    BY <2>2, <2>4, <2>5, <2>6, StateOnly
  <2>8. Stepped(t, p, x, r)
    BY <1>3, <2>1, <2>4, <2>5, <2>6, StateStepped
  <2>9. Stepped(s, p, x, r)
    BY <1>1, <2>3, <2>8, SteppedOn
  <2>10. Heard(x) /\ Tended(x) /\ (p \in ListedProxies(s) => Remembered(x, s.net))
    BY <1>1, <2>2, <2>7 DEF SameSettings, Heard, Tended, Remembered
  <2> QED BY <1>1, <2>9, <2>10, ProxyStepped DEF Stepped
<1> QED BY <1>2, <1>3 DEF RefreshRegisterOf

-----------------------------------------------------------------------------
(* One proxy after the other                                               *)

\* What a handler of one proxy after the other makes of s, if it keeps Sound.
Kept(s) == {t \in AccountType : Sound(t) /\ Same(s, t)}

\* A handler that keeps Sound keeps to Kept(s).
LEMMA KeptOn ==
  ASSUME NEW s, Sound(s)
  PROVE  /\ s \in Kept(s)
         /\ \A t \in Kept(s) : /\ Sound(t) /\ ListedProxies(t) = ListedProxies(s)
                               /\ \A r : Sound(r) /\ Same(t, r) => r \in Kept(s)
BY DEF Kept, Same, Sound, ListedProxies

\* linphone_core_refresh_registers()
LEMMA AllRefreshed ==
  ASSUME NEW s, Sound(s)
  PROVE  Sound(RefreshRegisters(s))
<1>1. PICK n \in Nat : n = Len(s.proxies)
  BY ListedAre DEF Sound
<1> DEFINE Is(f) == f = [i \in 0..n |-> IF i = 0 THEN s ELSE RefreshRegisterOf(f[i - 1], s.proxies[i])]
<1>2. s \in Kept(s)
  BY KeptOn
<1>3. ASSUME NEW t \in Kept(s), NEW i \in 1..n
      PROVE  RefreshRegisterOf(t, s.proxies[i]) \in Kept(s)
  <2>1. Sound(t) /\ s.proxies[i] \in Proxy
    BY <1>1, KeptOn, ListedAre DEF Sound
  <2> QED BY <2>1, KeptOn, RegisterRefreshed
<1>4. PICK h : h = [i \in 1..n |-> [t \in Kept(s) |-> RefreshRegisterOf(t, s.proxies[i])]]
  OBVIOUS
<1>5. h \in Steps(n, Kept(s))
  BY <1>3, <1>4 DEF Steps
<1>6. PICK g : Stepwise(n, Kept(s), s, h, g)
  BY <1>2, <1>5, StepByStep
<1>7. \A i \in 1..n : g[i] = RefreshRegisterOf(g[i - 1], s.proxies[i])
  <2> TAKE i \in 1..n
  <2>1. g[i - 1] \in Kept(s)
    BY <1>6 DEF Stepwise
  <2> QED BY <1>4, <1>6, <2>1 DEF Stepwise
<1>8. Is(g)
  BY <1>6, <1>7 DEF Stepwise
<1>9. PICK f : f = (CHOOSE e : Is(e)) /\ Is(f)
  BY <1>8
<1>10. f[0] = s /\ \A i \in 1..n : f[i] = RefreshRegisterOf(f[i - 1], s.proxies[i])
  <2>1. 0 \in 0..n /\ \A i \in 1..n : i \in 0..n /\ i # 0
    OBVIOUS
  <2>2. f = [i \in 0..n |-> IF i = 0 THEN s ELSE RefreshRegisterOf(f[i - 1], s.proxies[i])]
    BY <1>9
  <2> HIDE DEF Is
  <2>3. f[0] = s
    BY <2>1, <2>2
  <2>4. ASSUME NEW i \in 1..n  PROVE f[i] = RefreshRegisterOf(f[i - 1], s.proxies[i])
    BY <2>1, <2>2
  <2> QED BY <2>3, <2>4
<1>11. f[n] \in Kept(s)
  <2>1. \A i \in 1..n : f[i - 1] \in Kept(s) => f[i] \in Kept(s)
    BY <1>3, <1>10
  <2>2. \A i \in 0..n : f[i] \in Kept(s)
    BY <1>2, <1>10, <2>1, Reaches
  <2> QED BY <2>2
<1>12. RefreshRegisters(s) = f[n]
  BY <1>1, <1>9 DEF RefreshRegisters, ForEachProxy
<1> QED BY <1>11, <1>12, KeptOn

-----------------------------------------------------------------------------
(* Steps on the proxies                                                    *)

\* linphone_proxy_config_edit() leaves the proxy to done().
LEMMA EditedIs ==
  ASSUME NEW x \in ProxyType, Heard(x), NEW y, y = EditProxy(x)
  PROVE  /\ y \in ProxyType /\ y.state = x.state /\ y.enabled = x.enabled /\ Heard(y)
         /\ Tended(y) /\ \A net : Remembered(y, net)
<1>1. PICK z : z = StopRefreshing(x)
  OBVIOUS
<1>2. /\ z \in ProxyType /\ z.state = x.state /\ z.enabled = x.enabled /\ Heard(z)
  BY <1>1, RefreshStopped DEF SameSettings, Heard
<1>3. y = [z EXCEPT !.pubop = @ /\ ~x.publish, !.saved = x.cfg, !.editing = TRUE]
  BY <1>1 DEF EditProxy
<1>4. /\ y \in ProxyType /\ y.state = z.state /\ y.enabled = z.enabled /\ y.editing
      /\ y.busy = z.busy /\ y.auth = z.auth /\ y.refresher = z.refresher
  <2>1. PICK pubop \in BOOLEAN, cfg \in Address : pubop = (z.pubop /\ ~x.publish) /\ cfg = x.cfg
    BY DEF ProxyType
  <2>2. y = [z EXCEPT !.pubop = pubop, !.saved = cfg, !.editing = TRUE]
    BY <1>3, <2>1
  <2> QED BY ZenonT(60), <1>2, <2>2 DEF ProxyType
<1> QED BY <1>2, <1>4 DEF Heard, Tended, Remembered

\* linphone_proxy_config_done() leaves the proxy to the main loop.
LEMMA DoneIs ==
  ASSUME NEW x \in ProxyType, Heard(x), NEW y, y = DoneProxy(x)
  PROVE  /\ y \in ProxyType /\ y.state = x.state /\ y.enabled = x.enabled /\ Heard(y)
         /\ Tended(y) /\ \A net : Remembered(y, net)
<1>1. PICK z : z = IF ServerConfigChanged(x) THEN NoOperation(x) ELSE x
  OBVIOUS
<1>2. /\ z \in ProxyType /\ z.state = x.state /\ z.enabled = x.enabled /\ Heard(z)
  <2>1. CASE z = NoOperation(x)
    BY <2>1, WithoutOperation DEF SameSettings, Heard
  <2>2. CASE z = x
    BY <2>2
  <2> QED BY <1>1, <2>1, <2>2
<1>3. y = [z EXCEPT !.commit = TRUE, !.editing = FALSE]
  BY <1>1 DEF DoneProxy
<1>4. /\ y \in ProxyType /\ y.state = z.state /\ y.enabled = z.enabled /\ y.commit
      /\ y.busy = z.busy /\ y.auth = z.auth /\ y.refresher = z.refresher
  BY <1>2, <1>3 DEF ProxyType
<1> QED BY <1>2, <1>4 DEF Heard, Tended, Remembered

\* A step on one proxy that its friends need not be told of.
LEMMA QuietStep ==
  ASSUME NEW s, Sound(s), NEW p \in Proxy, NEW x \in ProxyType, NEW r, r = [s EXCEPT !.px[p] = x],
         x.enabled = s.px[p].enabled, x.state = s.px[p].state,
         Heard(x), p \in ListedProxies(s) => Tended(x) /\ Remembered(x, s.net)
  PROVE  Sound(r)
<1>1. s \in AccountType /\ FriendsFine(s)
  BY DEF Sound
<1>2. Stepped(s, p, x, r)
  BY <1>1, QuietlyStepped
<1>3. r \in AccountType /\ Same(s, r) /\ FriendsFine(r) /\ r.px = [s.px EXCEPT ![p] = x]
  BY <1>2 DEF Stepped
<1> QED BY <1>3, ProxyStepped

\* A step on all proxies.
WithProxies(s, px) == [s EXCEPT !.px = px]

\* Every proxy changes, none in its state.
LEMMA ProxiesStepped ==
  ASSUME NEW s, Sound(s), NEW px \in [Proxy -> ProxyType],
         \A q \in Proxy : /\ px[q].enabled = s.px[q].enabled /\ px[q].state = s.px[q].state
                          /\ Heard(px[q]),
         \A q \in ListedProxies(s) : Tended(px[q]) /\ Remembered(px[q], s.net)
  PROVE  Sound(WithProxies(s, px))
<1>1. PICK r : r = WithProxies(s, px)
  OBVIOUS
<1>2. r \in AccountType /\ Same(s, r) /\ r.fr = s.fr /\ r.px = px /\ s \in AccountType
  BY <1>1 DEF WithProxies, Sound, AccountType, Same
<1>3. \A f \in Friend : CanSubscribe(r, f) <=> CanSubscribe(s, f)
  BY <1>2, CanSubscribeSame DEF Same
<1>4. FriendsFine(r)
  BY <1>2, <1>3 DEF Sound, FriendsFine, Wanted, Same, IsListed
<1>5. Ordered(r) /\ ProxiesFine(r)
  BY <1>2 DEF Sound, Ordered, ProxiesFine, Same, ListedProxies
<1> QED BY <1>1, <1>2, <1>4, <1>5 DEF Sound

\* __linphone_core_invalidate_registers()
LEMMA Invalidated ==
  ASSUME NEW s, Sound(s)
  PROVE  Sound(InvalidateRegisters(s))
<1> DEFINE px == [p \in Proxy |-> IF p \in ListedProxies(s)
                                 THEN IF s.px[p].enabled THEN DoneProxy(EditProxy(s.px[p])) ELSE s.px[p]
                                 ELSE s.px[p]]
<1>1. s \in AccountType /\ s.px \in [Proxy -> ProxyType] /\ ListedProxies(s) \subseteq Proxy
  BY ListedAre DEF Sound, AccountType
<1>2. ASSUME NEW p \in Proxy
      PROVE  /\ px[p] \in ProxyType /\ px[p].enabled = s.px[p].enabled /\ px[p].state = s.px[p].state
             /\ Heard(px[p])
             /\ p \in ListedProxies(s) => Tended(px[p]) /\ Remembered(px[p], s.net)
  <2>1. PICK x \in ProxyType : x = s.px[p] /\ Heard(x)
    BY <1>1 DEF Sound, ProxiesFine
  <2>2. PICK y, z : y = EditProxy(x) /\ z = DoneProxy(y)
    OBVIOUS
  <2>3. y \in ProxyType /\ y.state = x.state /\ y.enabled = x.enabled /\ Heard(y)
    BY <2>1, <2>2, EditedIs
  <2>4. /\ z \in ProxyType /\ z.state = y.state /\ z.enabled = y.enabled /\ Heard(z)
        /\ Tended(z) /\ \A net : Remembered(z, net)
    BY <2>2, <2>3, DoneIs
  <2>5. CASE px[p] = z
    BY <2>1, <2>3, <2>4, <2>5
  <2>6. CASE px[p] = x
    BY <2>1, <2>6 DEF Sound, ProxiesFine
  <2>7. px[p] = z \/ px[p] = x
    BY <2>1, <2>2
  <2> QED BY <2>5, <2>6, <2>7
<1>3. InvalidateRegisters(s) = WithProxies(s, px)
  BY DEF InvalidateRegisters, EachProxy, WithProxies
<1>4. px \in [Proxy -> ProxyType]
  BY <1>2
<1> HIDE DEF px
<1> QED BY <1>1, <1>2, <1>3, <1>4, ProxiesStepped

\* A state with other friends.
LEMMA FriendsChanged ==
  ASSUME NEW s, Sound(s), NEW fr \in [Friend -> FriendType], NEW r, r = [s EXCEPT !.fr = fr],
         \A f \in Friend : FriendFine(fr[f]),
         \A f \in Friend : /\ "friends" \in fr[f].lists /\ fr[f].want /\ fr[f].excuse = "none"
                           /\ s.net /\ s.initial /\ CanSubscribe(s, f)
                           => fr[f].sent \/ fr[f].refresher = "on"
  PROVE  Sound(r) /\ Same(s, r) /\ r.px = s.px /\ r.fr = fr
<1>1. s \in AccountType
  BY DEF Sound
<1>2. /\ r \in AccountType /\ Same(s, r) /\ r.px = s.px /\ r.fr = fr
      /\ \A f \in Friend : CanSubscribe(r, f) <=> CanSubscribe(s, f)
  BY <1>1, WithFriends
<1>3. FriendsFine(r)
  BY <1>2 DEF FriendsFine, Wanted, IsListed, Same
<1>4. Ordered(r) /\ ProxiesFine(r)
  BY <1>2 DEF Sound, Ordered, ProxiesFine, Same, ListedProxies
<1> QED BY <1>2, <1>3, <1>4 DEF Sound

\* linphone_core_send_presence()
LEMMA PresenceSent ==
  ASSUME NEW s, Sound(s)
  PROVE  Sound(SendPresence(s))
<1>1. PICK t : t = NotifyAllFriends(s)
  OBVIOUS
<1> DEFINE fr == [f \in Friend |-> IF IsListed(s, f) THEN Notify(s.fr[f], "presence") ELSE s.fr[f]]
<1>2. s \in AccountType /\ s.fr \in [Friend -> FriendType]
  BY DEF Sound, AccountType
<1>3. ASSUME NEW f \in Friend
      PROVE  /\ fr[f] \in FriendType /\ fr[f].lists = s.fr[f].lists /\ fr[f].core = s.fr[f].core
             /\ fr[f].want = s.fr[f].want /\ fr[f].excuse = s.fr[f].excuse /\ fr[f].active = s.fr[f].active
             /\ fr[f].sent = s.fr[f].sent /\ fr[f].refresher = s.fr[f].refresher /\ fr[f].out = s.fr[f].out
  <2>1. PICK me \in FriendType : me = s.fr[f]
    BY <1>2
  <2>2. CASE fr[f] = [me EXCEPT !.told = "presence"]
    BY <2>1, <2>2 DEF FriendType
  <2>3. CASE fr[f] = me
    BY <2>1, <2>3
  <2> QED BY <2>1, <2>2, <2>3 DEF Notify
<1>4. fr \in [Friend -> FriendType] /\ t = [s EXCEPT !.fr = fr]
  BY <1>1, <1>3 DEF NotifyAllFriends
<1>5. \A f \in Friend : FriendFine(fr[f])
  BY <1>3 DEF Sound, FriendsFine, FriendFine, Live
<1>6. \A f \in Friend : /\ "friends" \in fr[f].lists /\ fr[f].want /\ fr[f].excuse = "none"
                           /\ s.net /\ s.initial /\ CanSubscribe(s, f)
                           => fr[f].sent \/ fr[f].refresher = "on"
  BY <1>3 DEF Sound, FriendsFine, Wanted, IsListed
<1>7. Sound(t)
  <2> HIDE DEF fr
  <2> QED BY <1>4, <1>5, <1>6, FriendsChanged
<1> DEFINE px == [p \in Proxy |-> IF p \in ListedProxies(t)
                                 THEN IF t.px[p].publish THEN SendPublish(t.px[p]) ELSE t.px[p]
                                 ELSE t.px[p]]
<1>8. t \in AccountType /\ t.px \in [Proxy -> ProxyType]
  BY <1>7 DEF Sound, AccountType
<1>9. ASSUME NEW p \in Proxy
      PROVE  /\ px[p] \in ProxyType /\ px[p].enabled = t.px[p].enabled /\ px[p].state = t.px[p].state
             /\ Heard(px[p])
             /\ p \in ListedProxies(t) => Tended(px[p]) /\ Remembered(px[p], t.net)
  <2>1. PICK x \in ProxyType : x = t.px[p] /\ Heard(x)
    BY <1>7, <1>8 DEF Sound, ProxiesFine
  <2>2. p \in ListedProxies(t) => Tended(x) /\ Remembered(x, t.net)
    BY <1>7, <2>1 DEF Sound, ProxiesFine
  <2>3. PICK y : y = SendPublish(x)
    OBVIOUS
  <2>4. /\ y \in ProxyType /\ y.state = x.state /\ y.enabled = x.enabled /\ y.busy = x.busy
        /\ y.auth = x.auth /\ y.refresher = x.refresher /\ y.commit = x.commit /\ y.paused = x.paused
        /\ y.editing = x.editing /\ y.wants = x.wants /\ (y.pubop \/ y.send)
    BY <2>3 DEF SendPublish, ProxyType
  <2>5. Heard(y) /\ (\A net : Remembered(y, net)) /\ (p \in ListedProxies(t) => Tended(y))
    BY <2>1, <2>2, <2>4 DEF Heard, Remembered, Tended
  <2>6. px[p] = y \/ px[p] = x
    BY <2>1, <2>3
  <2> HIDE DEF px
  <2> QED BY <2>1, <2>2, <2>4, <2>5, <2>6
<1>10. SendPresence(s) = WithProxies(t, px) /\ px \in [Proxy -> ProxyType]
  BY <1>1, <1>9 DEF SendPresence, EachProxy, WithProxies
<1> HIDE DEF px
<1>11. \A q \in ListedProxies(t) : q \in Proxy
  BY <1>8, ListedAre
<1> QED BY <1>7, <1>9, <1>10, <1>11, ProxiesStepped

\* set_network_reachable(), up
LEMMA NetworkIsUp ==
  ASSUME NEW s, Sound(s), ~s.net
  PROVE  Sound(NetworkUp(s))
<1> DEFINE px == [p \in Proxy |-> IF p \in ListedProxies(s)
                                 THEN IF s.px[p].enabled THEN [s.px[p] EXCEPT !.commit = TRUE] ELSE s.px[p]
                                 ELSE s.px[p]]
<1>1. s \in AccountType /\ s.px \in [Proxy -> ProxyType] /\ ListedProxies(s) \subseteq Proxy
  BY ListedAre DEF Sound, AccountType
<1>2. ASSUME NEW p \in Proxy
      PROVE  /\ px[p] \in ProxyType /\ Heard(px[p])
             /\ p \in ListedProxies(s) => Tended(px[p]) /\ Remembered(px[p], TRUE)
  <2>1. PICK x \in ProxyType : x = s.px[p] /\ Heard(x)
    BY <1>1 DEF Sound, ProxiesFine
  <2>2. CASE px[p] = [x EXCEPT !.commit = TRUE]
    BY <2>1, <2>2 DEF ProxyType, Heard, Tended, Remembered
  <2>3. CASE px[p] = x /\ (p \in ListedProxies(s) => ~x.enabled)
    BY <2>1, <2>3 DEF Sound, ProxiesFine, Tended, Remembered
  <2> QED BY <2>1, <2>2, <2>3
<1>3. PICK r : r = NetworkUp(s)
  OBVIOUS
<1>4. r = [[s EXCEPT !.px = px] EXCEPT !.net = TRUE] /\ px \in [Proxy -> ProxyType]
  BY <1>2, <1>3 DEF NetworkUp, EachProxy
<1> HIDE DEF px
<1>5. /\ r \in AccountType /\ r.px = px /\ r.net = TRUE /\ r.initial = s.initial /\ r.fr = s.fr
      /\ r.proxies = s.proxies /\ r.deleted = s.deleted /\ r.default = s.default
  BY <1>1, <1>4 DEF AccountType
<1>6. ~r.initial
  BY <1>5 DEF Sound, Ordered
<1>7. Ordered(r) /\ ProxiesFine(r)
  BY <1>1, <1>2, <1>5 DEF Sound, Ordered, ProxiesFine, ListedProxies
<1>8. FriendsFine(r)
  BY <1>5, <1>6 DEF Sound, FriendsFine, Wanted
<1> QED BY <1>3, <1>5, <1>7, <1>8 DEF Sound

-----------------------------------------------------------------------------
(* A password is found                                                     *)

\* linphone_core_add_auth_info() of one operation.
LEMMA AgainIs ==
  ASSUME NEW x \in ProxyType, Heard(x), NEW y, y = Again(x)
  PROVE  /\ SameSettings(x, y) /\ y.state = x.state /\ Heard(y)
         /\ ~Waiting(x) => y = x
         /\ Waiting(x) => y.busy /\ (y.wants = "register" => y.refresher = "on")
<1>1. CASE ~Waiting(x)
  BY <1>1 DEF Again, SameSettings
<1>2. CASE Waiting(x)
  <2>1. PICK wants \in {"register", "unregister"} : wants = x.wants
    BY DEF ProxyType
  <2>2. y = Refresh(x, wants) /\ x.refresher # "none"
    BY <1>2, <2>1 DEF Again, Waiting, Heard
  <2>3. /\ SameSettings(x, y) /\ y.state = x.state /\ y.auth = x.auth /\ y.busy /\ y.wants = wants
        /\ (wants = "register" => y.refresher = "on") /\ y.refresher # "none"
    BY <2>2, Refreshed
  <2> QED BY <1>2, <2>3 DEF Heard
<1> QED BY <1>1, <1>2

\* linphone_core_add_auth_info() of one proxy of the list.
LEMMA RestartedOne ==
  ASSUME NEW s, Sound(s), NEW p \in Proxy, NEW r, r = Restarted(s, p)
  PROVE  Sound(r) /\ Same(s, r)
<1>1. /\ s \in AccountType /\ FriendsFine(s) /\ Heard(s.px[p]) /\ s.px[p] \in ProxyType
      /\ p \in ListedProxies(s) => Remembered(s.px[p], s.net)
  BY DEF Sound, ProxiesFine, AccountType
<1>2. CASE ~Waiting(s.px[p])
  BY <1>2 DEF Restarted, Same
<1>3. CASE Waiting(s.px[p])
  <2>1. PICK u, y : u = SetState(s, p, "Progress") /\ y = InState(s.px[p], "Progress")
    OBVIOUS
  <2>2. "Progress" \in RegState
    BY DEF RegState
  <2>3. Stepped(s, p, y, u)
    BY <1>1, <2>1, <2>2, StateStepped
  <2>4. u \in AccountType /\ FriendsFine(u) /\ u.px[p] = y /\ y \in ProxyType
    BY <1>1, <2>3, SteppedTo
  <2>5. PICK x : x = Again(y)
    OBVIOUS
  <2>6. r = [u EXCEPT !.px[p] = x]
    BY <1>3, <2>1, <2>4, <2>5 DEF Restarted
  <2>7. /\ SameSettings(s.px[p], y) /\ y.state = "Progress" /\ y.auth = s.px[p].auth
        /\ y.refresher = s.px[p].refresher /\ y.busy = s.px[p].busy /\ y.op = s.px[p].op
    BY <1>1, <2>1, <2>2, StateOnly
  <2>8. Heard(y) /\ Waiting(y)
    BY <1>1, <1>3, <2>7 DEF Heard, Waiting
  <2>9. /\ SameSettings(y, x) /\ x.state = "Progress" /\ Heard(x) /\ x.busy
        /\ (x.wants = "register" => x.refresher = "on")
    BY <2>4, <2>5, <2>7, <2>8, AgainIs
  <2>10. Stepped(u, p, x, r)
    BY <1>1, <2>4, <2>6, <2>7, <2>9, QuietlyStepped DEF SameSettings
  <2>11. Stepped(s, p, x, r)
    BY <1>1, <2>3, <2>10, SteppedOn
  <2>12. Tended(x) /\ (p \in ListedProxies(s) => Remembered(x, s.net))
    BY <1>1, <2>7, <2>9 DEF SameSettings, Tended, Remembered
  <2> QED BY <1>1, <2>9, <2>11, <2>12, ProxyStepped DEF Stepped
<1> QED BY <1>2, <1>3

\* linphone_core_add_auth_info()
LEMMA PasswordAdded ==
  ASSUME NEW s, Sound(s)
  PROVE  Sound(AddAuthInfoTo(s))
<1>1. PICK n \in Nat : n = Len(s.proxies)
  BY ListedAre DEF Sound
<1> DEFINE Is(f) == f = [i \in 0..n |-> IF i = 0 THEN s ELSE Restarted(f[i - 1], s.proxies[i])]
<1>2. s \in Kept(s)
  BY KeptOn
<1>3. ASSUME NEW t \in Kept(s), NEW i \in 1..n
      PROVE  Restarted(t, s.proxies[i]) \in Kept(s)
  <2>1. Sound(t) /\ s.proxies[i] \in Proxy
    BY <1>1, KeptOn, ListedAre DEF Sound
  <2> QED BY <2>1, KeptOn, RestartedOne
<1>4. PICK h : h = [i \in 1..n |-> [t \in Kept(s) |-> Restarted(t, s.proxies[i])]]
  OBVIOUS
<1>5. h \in Steps(n, Kept(s))
  BY <1>3, <1>4 DEF Steps
<1>6. PICK g : Stepwise(n, Kept(s), s, h, g)
  BY <1>2, <1>5, StepByStep
<1>7. \A i \in 1..n : g[i] = Restarted(g[i - 1], s.proxies[i])
  <2> TAKE i \in 1..n
  <2>1. g[i - 1] \in Kept(s)
    BY <1>6 DEF Stepwise
  <2> QED BY <1>4, <1>6, <2>1 DEF Stepwise
<1>8. Is(g)
  BY <1>6, <1>7 DEF Stepwise
<1>9. PICK f : f = (CHOOSE e : Is(e)) /\ Is(f)
  BY <1>8
<1>10. f[0] = s /\ \A i \in 1..n : f[i] = Restarted(f[i - 1], s.proxies[i])
  <2>1. 0 \in 0..n /\ \A i \in 1..n : i \in 0..n /\ i # 0
    OBVIOUS
  <2>2. f = [i \in 0..n |-> IF i = 0 THEN s ELSE Restarted(f[i - 1], s.proxies[i])]
    BY <1>9
  <2> HIDE DEF Is
  <2>3. f[0] = s
    BY <2>1, <2>2
  <2>4. ASSUME NEW i \in 1..n  PROVE f[i] = Restarted(f[i - 1], s.proxies[i])
    BY <2>1, <2>2
  <2> QED BY <2>3, <2>4
<1>11. PICK t \in Kept(s) : t = f[n]
  <2>1. \A i \in 1..n : f[i - 1] \in Kept(s) => f[i] \in Kept(s)
    BY <1>3, <1>10
  <2>2. \A i \in 0..n : f[i] \in Kept(s)
    BY <1>2, <1>10, <2>1, Reaches
  <2> QED BY <2>2
<1> DEFINE px == [p \in Proxy |-> IF p \in ListedProxies(t) THEN t.px[p] ELSE Again(t.px[p])]
<1>12. AddAuthInfoTo(s) = RestartedUnlisted(t)
  BY <1>1, <1>9, <1>11 DEF AddAuthInfoTo, ForEachProxy
<1>13. AddAuthInfoTo(s) = WithProxies(t, px)
  BY <1>12 DEF RestartedUnlisted, WithProxies
<1>14. /\ Sound(t) /\ ListedProxies(t) = ListedProxies(s) /\ t \in AccountType
       /\ ListedProxies(t) \subseteq Proxy
  BY KeptOn, ListedAre DEF Sound
<1>15. ASSUME NEW p \in Proxy
       PROVE  /\ px[p] \in ProxyType /\ px[p].enabled = t.px[p].enabled /\ px[p].state = t.px[p].state
              /\ Heard(px[p])
              /\ p \in ListedProxies(t) => Tended(px[p]) /\ Remembered(px[p], t.net)
  <2>1. PICK x \in ProxyType : x = t.px[p] /\ Heard(x)
    BY <1>14 DEF Sound, ProxiesFine, AccountType
  <2>2. CASE p \in ListedProxies(t)
    BY <1>14, <2>1, <2>2 DEF Sound, ProxiesFine
  <2>3. CASE p \notin ListedProxies(t)
    <3>1. PICK y : y = Again(x)
      OBVIOUS
    <3>2. SameSettings(x, y) /\ y.state = x.state /\ Heard(y)
      BY <2>1, <3>1, AgainIs
    <3> QED BY <1>14, <2>1, <2>3, <3>1, <3>2 DEF SameSettings
  <2> QED BY <2>2, <2>3
<1>16. px \in [Proxy -> ProxyType]
  BY <1>15
<1> HIDE DEF px
<1> QED BY <1>13, <1>14, <1>15, <1>16, ProxiesStepped

-----------------------------------------------------------------------------
(* The network goes down                                                   *)

\* Without the network, what is published is as good as forgotten.
Leaving(s) ==
  /\ s \in AccountType /\ Ordered(s) /\ FriendsFine(s)
  /\ \A p \in Proxy : Heard(s.px[p])
  /\ \A p \in ListedProxies(s) : Tended(s.px[p]) /\ Remembered(s.px[p], FALSE)

NoPublication(x) == [NoOperation(x) EXCEPT !.pubop = FALSE]

\* set_network_reachable() of one proxy.
LEMMA ReleasedOne ==
  ASSUME NEW s, Leaving(s), NEW p \in Proxy, NEW r, r = Released(s, p)
  PROVE  Leaving(r) /\ Same(s, r)
<1>1. s \in AccountType /\ s.px \in [Proxy -> ProxyType] /\ FriendsFine(s) /\ s.px[p] \in ProxyType
  BY DEF Leaving, AccountType
<1>2. CASE ~s.px[p].enabled
  BY <1>2 DEF Released, Same
<1>3. CASE s.px[p].enabled
  <2>1. PICK w, y, x, t : /\ w = NoOperation(s.px[p]) /\ y = NoPublication(s.px[p])
                          /\ x = InState(y, "None") /\ t = [s EXCEPT !.px[p] = y]
    OBVIOUS
  <2>2. /\ SameSettings(s.px[p], w) /\ w.state = s.px[p].state /\ ~w.busy /\ w.auth = "none"
    BY <1>1, <2>1, WithoutOperation
  <2>3. /\ y \in ProxyType /\ y.state = s.px[p].state /\ y.enabled /\ ~y.busy /\ y.auth = "none"
        /\ y.enabled = s.px[p].enabled
    <3>1. y = [w EXCEPT !.pubop = FALSE]
      BY <2>1 DEF NoPublication
    <3> QED BY <1>3, <2>2, <3>1 DEF ProxyType, SameSettings
  <2>4. Stepped(s, p, y, t)
    BY <1>1, <2>1, <2>3, QuietlyStepped
  <2>5. t \in AccountType /\ FriendsFine(t) /\ t.px[p] = y
    BY <1>1, <2>4, SteppedTo
  <2>6. "None" \in RegState
    BY DEF RegState
  <2>7. r = SetState(t, p, "None")
    BY <1>3, <2>1 DEF Released, NoPublication
  <2>8. Stepped(t, p, x, r)
    BY <2>1, <2>5, <2>6, <2>7, StateStepped
  <2>9. Stepped(s, p, x, r)
    BY <1>1, <2>4, <2>8, SteppedOn
  <2>10. /\ x.enabled /\ x.state = "None" /\ ~x.busy /\ x.auth = "none"
    BY <2>1, <2>3, <2>6, StateOnly DEF SameSettings
  <2>11. Heard(x) /\ Tended(x) /\ Remembered(x, FALSE)
    BY <2>10 DEF Heard, Tended, Remembered
  <2>12. r \in AccountType /\ Same(s, r) /\ FriendsFine(r) /\ r.px = [s.px EXCEPT ![p] = x]
    BY <2>9 DEF Stepped
  <2>13. ListedProxies(r) = ListedProxies(s)
    BY <2>12 DEF Same, ListedProxies
  <2>14. ListedProxies(s) \subseteq Proxy
    BY <1>1, ListedAre
  <2>15. Ordered(r)
    BY <2>12, <2>13 DEF Leaving, Ordered, Same
  <2> QED BY <1>1, <2>11, <2>12, <2>13, <2>14, <2>15 DEF Leaving
<1> QED BY <1>2, <1>3

Freed(s) == {t \in AccountType : Leaving(t) /\ Same(s, t)}

\* A handler that keeps Leaving keeps to Freed(s).
LEMMA FreedOn ==
  ASSUME NEW s, Leaving(s)
  PROVE  /\ s \in Freed(s)
         /\ \A t \in Freed(s) : /\ Leaving(t)
                                /\ \A r : Leaving(r) /\ Same(t, r) => r \in Freed(s)
BY DEF Freed, Same, Leaving

\* linphone_core_invalidate_friend_subscriptions()
LEMMA SubscriptionsLost ==
  ASSUME NEW s, Leaving(s)
  PROVE  Sound(NetworkLost(s))
<1>1. s \in AccountType /\ s.fr \in [Friend -> FriendType]
  BY DEF Leaving, AccountType
<1>2. PICK t : t = [s EXCEPT !.net = FALSE]
  OBVIOUS
<1>3. /\ t \in AccountType /\ t.net = FALSE /\ t.px = s.px /\ t.fr = s.fr /\ t.proxies = s.proxies
      /\ t.deleted = s.deleted /\ t.default = s.default
  BY <1>1, <1>2 DEF AccountType
<1> DEFINE fr == [f \in Friend |-> IF IsListed(t, f) /\ t.fr[f].out THEN NoSubscription(t.fr[f]) ELSE t.fr[f]]
<1>4. ASSUME NEW f \in Friend  PROVE fr[f] \in FriendType /\ FriendFine(fr[f])
  <2>1. PICK me \in FriendType : me = t.fr[f] /\ FriendFine(me)
    BY <1>1, <1>3 DEF Leaving, FriendsFine
  <2>2. CASE fr[f] = NoSubscription(me)
    <3>1. PICK r : r = NoSubscription(me)
      OBVIOUS
    <3>2. /\ r \in FriendType /\ ~r.out /\ ~r.active /\ r.lists = me.lists /\ r.core = me.core
      BY <3>1 DEF NoSubscription, FriendType
    <3> QED BY <2>1, <2>2, <3>1, <3>2 DEF FriendFine, Live
  <2>3. CASE fr[f] = me
    BY <2>1, <2>3
  <2> QED BY <2>1, <2>2, <2>3
<1>5. fr \in [Friend -> FriendType] /\ NetworkLost(s) = [t EXCEPT !.initial = FALSE, !.fr = fr]
  BY <1>2, <1>4 DEF NetworkLost, InvalidateFriends
<1> HIDE DEF fr
<1>6. PICK r : r = NetworkLost(s)
  OBVIOUS
<1>7. /\ r \in AccountType /\ r.net = FALSE /\ r.initial = FALSE /\ r.px = s.px /\ r.fr = fr
      /\ r.proxies = s.proxies /\ r.deleted = s.deleted /\ r.default = s.default
  BY <1>3, <1>5, <1>6 DEF AccountType
<1>8. Ordered(r) /\ ProxiesFine(r)
  BY <1>7 DEF Leaving, Ordered, ProxiesFine, ListedProxies
<1>9. FriendsFine(r)
  BY <1>4, <1>7 DEF FriendsFine, Wanted
<1> QED BY <1>6, <1>7, <1>8, <1>9 DEF Sound

\* set_network_reachable(), down
LEMMA NetworkIsDown ==
  ASSUME NEW s, Sound(s)
  PROVE  Sound(NetworkDown(s))
<1>1. PICK n \in Nat : n = Len(s.proxies)
  BY ListedAre DEF Sound
<1> DEFINE Is(f) == f = [i \in 0..n |-> IF i = 0 THEN s ELSE Released(f[i - 1], s.proxies[i])]
<1>2. Leaving(s) /\ s \in Freed(s)
  <2>1. \A p \in ListedProxies(s) : Remembered(s.px[p], FALSE)
    BY DEF Sound, ProxiesFine, Remembered
  <2>2. Leaving(s)
    BY <2>1 DEF Sound, ProxiesFine, Leaving
  <2> QED BY <2>2, FreedOn
<1>3. ASSUME NEW t \in Freed(s), NEW i \in 1..n
      PROVE  Released(t, s.proxies[i]) \in Freed(s)
  <2>1. Leaving(t) /\ s.proxies[i] \in Proxy
    BY <1>1, <1>2, FreedOn, ListedAre DEF Sound
  <2> QED BY <1>2, <2>1, FreedOn, ReleasedOne
<1>4. PICK h : h = [i \in 1..n |-> [t \in Freed(s) |-> Released(t, s.proxies[i])]]
  OBVIOUS
<1>5. h \in Steps(n, Freed(s))
  BY <1>3, <1>4 DEF Steps
<1>6. PICK g : Stepwise(n, Freed(s), s, h, g)
  BY <1>2, <1>5, StepByStep
<1>7. \A i \in 1..n : g[i] = Released(g[i - 1], s.proxies[i])
  <2> TAKE i \in 1..n
  <2>1. g[i - 1] \in Freed(s)
    BY <1>6 DEF Stepwise
  <2> QED BY <1>4, <1>6, <2>1 DEF Stepwise
<1>8. Is(g)
  BY <1>6, <1>7 DEF Stepwise
<1>9. PICK f : f = (CHOOSE e : Is(e)) /\ Is(f)
  BY <1>8
<1>10. f[0] = s /\ \A i \in 1..n : f[i] = Released(f[i - 1], s.proxies[i])
  <2>1. 0 \in 0..n /\ \A i \in 1..n : i \in 0..n /\ i # 0
    OBVIOUS
  <2>2. f = [i \in 0..n |-> IF i = 0 THEN s ELSE Released(f[i - 1], s.proxies[i])]
    BY <1>9
  <2> HIDE DEF Is
  <2>3. f[0] = s
    BY <2>1, <2>2
  <2>4. ASSUME NEW i \in 1..n  PROVE f[i] = Released(f[i - 1], s.proxies[i])
    BY <2>1, <2>2
  <2> QED BY <2>3, <2>4
<1>11. f[n] \in Freed(s)
  <2>1. \A i \in 1..n : f[i - 1] \in Freed(s) => f[i] \in Freed(s)
    BY <1>3, <1>10
  <2>2. \A i \in 0..n : f[i] \in Freed(s)
    BY <1>2, <1>10, <2>1, Reaches
  <2> QED BY <2>2
<1>12. NetworkDown(s) = NetworkLost(f[n])
  BY <1>1, <1>9 DEF NetworkDown, ForEachProxy
<1> QED BY <1>2, <1>11, <1>12, FreedOn, SubscriptionsLost

-----------------------------------------------------------------------------
(* linphone_core_iterate()                                                 *)

\* proxy_update()
LEMMA AllUpdated ==
  ASSUME NEW s, Sound(s), NEW unsent
  PROVE  Sound(ProxiesUpdated(s, unsent)) /\ Same(s, ProxiesUpdated(s, unsent))
<1>1. PICK n \in Nat : n = Len(s.proxies)
  BY ListedAre DEF Sound
<1> DEFINE Is(f) == f = [i \in 0..n |-> IF i = 0 THEN s
                                        ELSE UpdateProxy(f[i - 1], s.proxies[i], s.proxies[i] \notin unsent)]
<1>2. s \in Kept(s)
  BY KeptOn
<1>3. ASSUME NEW t \in Kept(s), NEW i \in 1..n
      PROVE  UpdateProxy(t, s.proxies[i], s.proxies[i] \notin unsent) \in Kept(s)
  <2>1. Sound(t) /\ s.proxies[i] \in ListedProxies(t)
    BY <1>1, KeptOn, ListedAre DEF Sound
  <2>2. PICK sent \in BOOLEAN : sent <=> s.proxies[i] \notin unsent
    OBVIOUS
  <2>3. UpdateProxy(t, s.proxies[i], sent) \in Kept(s)
    BY <2>1, KeptOn, ProxyUpdated
  <2> QED BY <2>2, <2>3
<1>4. PICK h : h = [i \in 1..n |-> [t \in Kept(s) |-> UpdateProxy(t, s.proxies[i], s.proxies[i] \notin unsent)]]
  OBVIOUS
<1>5. h \in Steps(n, Kept(s))
  BY <1>3, <1>4 DEF Steps
<1>6. PICK g : Stepwise(n, Kept(s), s, h, g)
  BY <1>2, <1>5, StepByStep
<1>7. \A i \in 1..n : g[i] = UpdateProxy(g[i - 1], s.proxies[i], s.proxies[i] \notin unsent)
  <2> TAKE i \in 1..n
  <2>1. g[i - 1] \in Kept(s)
    BY <1>6 DEF Stepwise
  <2> QED BY <1>4, <1>6, <2>1 DEF Stepwise
<1>8. Is(g)
  BY <1>6, <1>7 DEF Stepwise
<1>9. PICK f : f = (CHOOSE e : Is(e)) /\ Is(f)
  BY <1>8
<1>10. f[0] = s /\ \A i \in 1..n : f[i] = UpdateProxy(f[i - 1], s.proxies[i], s.proxies[i] \notin unsent)
  <2>1. 0 \in 0..n /\ \A i \in 1..n : i \in 0..n /\ i # 0
    OBVIOUS
  <2>2. f = [i \in 0..n |-> IF i = 0 THEN s
                            ELSE UpdateProxy(f[i - 1], s.proxies[i], s.proxies[i] \notin unsent)]
    BY <1>9
  <2> HIDE DEF Is
  <2>3. f[0] = s
    BY <2>1, <2>2
  <2>4. ASSUME NEW i \in 1..n
        PROVE  f[i] = UpdateProxy(f[i - 1], s.proxies[i], s.proxies[i] \notin unsent)
    BY <2>1, <2>2
  <2> QED BY <2>3, <2>4
<1>11. f[n] \in Kept(s)
  <2>1. \A i \in 1..n : f[i - 1] \in Kept(s) => f[i] \in Kept(s)
    BY <1>3, <1>10
  <2>2. \A i \in 0..n : f[i] \in Kept(s)
    BY <1>2, <1>10, <2>1, Reaches
  <2> QED BY <2>2
<1>12. ProxiesUpdated(s, unsent) = f[n]
  BY <1>1, <1>9 DEF ProxiesUpdated, ForEachProxy
<1> QED BY <1>11, <1>12 DEF Kept

\* The list stays in order while nobody touches it.
LEMMA OrderedOn ==
  ASSUME NEW s, Ordered(s), NEW t, t.proxies = s.proxies, t.deleted = s.deleted,
         t.default = s.default, t.initial => t.net
  PROVE  Ordered(t)
BY DEF Ordered, ListedProxies

\* linphone_core_iterate()
LEMMA IteratedOnce ==
  ASSUME NEW s, Sound(s), NEW unsent, NEW subscribe \in BOOLEAN, subscribe => s.net,
         NEW t, t = ProxiesUpdated(s, unsent),
         NEW r, r = IF subscribe THEN UpdateFriends([t EXCEPT !.initial = TRUE], NoProxy) ELSE t
  PROVE  Sound(r)
<1>1. Sound(t) /\ Same(s, t)
  BY AllUpdated
<1>2. CASE ~subscribe
  BY <1>1, <1>2
<1>3. CASE subscribe
  <2>1. PICK u : u = [t EXCEPT !.initial = TRUE]
    OBVIOUS
  <2>2. /\ u \in AccountType /\ u.initial = TRUE /\ u.net = t.net /\ u.px = t.px /\ u.fr = t.fr
        /\ u.proxies = t.proxies /\ u.deleted = t.deleted /\ u.default = t.default
    BY <1>1, <2>1 DEF Sound, AccountType
  <2>3. /\ r = UpdateFriends(u, NoProxy) /\ \A f \in Friend : FriendFine(u.fr[f])
        /\ NoProxy \in Proxy \cup {NoProxy}
    BY <1>1, <1>3, <2>1, <2>2 DEF Sound, FriendsFine
  <2>4. r \in AccountType /\ Same(u, r) /\ r.px = u.px /\ FriendsFine(r)
    BY <2>2, <2>3, FriendsUpdated
  <2>5. /\ r.proxies = t.proxies /\ r.deleted = t.deleted /\ r.default = t.default /\ r.net = t.net
        /\ r.px = t.px /\ r.net
    BY <1>1, <1>3, <2>2, <2>4 DEF Same
  <2>6. ListedProxies(r) = ListedProxies(t)
    BY <2>5 DEF ListedProxies
  <2>7. Ordered(r)
    BY <1>1, <2>5, OrderedOn DEF Sound
  <2>8. ProxiesFine(r)
    BY <1>1, <2>5, <2>6 DEF Sound, ProxiesFine
  <2> QED BY <2>4, <2>7, <2>8 DEF Sound
<1> QED BY <1>2, <1>3

-----------------------------------------------------------------------------
(* The answers to a REGISTER                                               *)

Answered(x) == [x EXCEPT !.busy = FALSE, !.auth = IF @ = "pending" THEN "known" ELSE @]

\* The REGISTER is answered with 200.
LEMMA AnsweredIs ==
  ASSUME NEW x \in ProxyType, NEW y, y = Answered(x)
  PROVE  /\ SameSettings(x, y) /\ y.state = x.state /\ ~y.busy /\ y.auth # "pending"
         /\ y.refresher = x.refresher /\ y.paused = x.paused
<1>1. PICK auth \in {"none", "known"} : auth = IF x.auth = "pending" THEN "known" ELSE x.auth
  BY DEF ProxyType
<1>2. y = [x EXCEPT !.busy = FALSE, !.auth = auth]
  BY <1>1 DEF Answered
<1> QED BY <1>1, <1>2 DEF ProxyType, SameSettings

\* register_success()
LEMMA Succeeded ==
  ASSUME NEW s, Sound(s), NEW p \in Proxy, s.px[p].busy, NEW r, r = RegisterSuccess(s, p)
  PROVE  Sound(r)
<1>1. /\ s \in AccountType /\ FriendsFine(s) /\ Heard(s.px[p]) /\ s.px[p] \in ProxyType
      /\ p \in ListedProxies(s) => Tended(s.px[p]) /\ Remembered(s.px[p], s.net)
  BY DEF Sound, ProxiesFine, AccountType
<1>2. PICK state \in RegState : state = IF s.px[p].wants = "register" THEN "Ok" ELSE "Cleared"
  BY DEF RegState
<1>3. PICK y, x, t : y = Answered(s.px[p]) /\ x = InState(y, state) /\ t = [s EXCEPT !.px[p] = y]
  OBVIOUS
<1>4. /\ SameSettings(s.px[p], y) /\ y.state = s.px[p].state /\ ~y.busy /\ y.auth # "pending"
      /\ y.refresher = s.px[p].refresher /\ y.paused = s.px[p].paused
  BY <1>1, <1>3, AnsweredIs
<1>5. Stepped(s, p, y, t)
  BY <1>1, <1>3, <1>4, QuietlyStepped DEF SameSettings
<1>6. t \in AccountType /\ FriendsFine(t) /\ t.px[p] = y /\ y \in ProxyType
  BY <1>1, <1>5, SteppedTo
<1>7. r = SetState(t, p, state)
  BY <1>2, <1>3 DEF RegisterSuccess, Answered
<1>8. Stepped(t, p, x, r)
  BY <1>3, <1>6, <1>7, StateStepped
<1>9. Stepped(s, p, x, r)
  BY <1>1, <1>5, <1>8, SteppedOn
<1>10. /\ SameSettings(y, x) /\ x.state = state /\ x.auth = y.auth /\ x.refresher = y.refresher
       /\ x.busy = y.busy /\ x.paused = y.paused
  BY <1>3, <1>6, StateOnly
<1>11. Heard(x) /\ (p \in ListedProxies(s) => Tended(x) /\ Remembered(x, s.net))
  BY <1>1, <1>2, <1>4, <1>10 DEF SameSettings, Heard, Tended, Remembered
<1> QED BY <1>9, <1>11, ProxyStepped DEF Stepped

\* The REGISTER fails.
LEMMA FailedIs ==
  ASSUME NEW x \in ProxyType, NEW how \in Failure, Heard(x), x.busy, NEW y, y = Failed(x, how)
  PROVE  /\ SameSettings(x, y) /\ y.state = x.state /\ ~y.busy /\ y.refresher # "none"
         /\ y.paused = x.paused
         /\ how = "unavailable" => y.refresher = x.refresher
<1>1. PICK refresher \in {"on", "off"} :
        refresher = IF x.refresher = "on" /\ how \in {"challenge", "refused"} THEN "off" ELSE x.refresher
  BY DEF ProxyType, Heard
<1>2. PICK auth \in {"none", "pending"} :
        auth = IF how = "challenge" \/ x.auth # "none" THEN "pending" ELSE x.auth
  OBVIOUS
<1>3. y = [x EXCEPT !.busy = FALSE, !.refresher = refresher, !.auth = auth]
  BY <1>1, <1>2 DEF Failed
<1>4. how = "unavailable" => refresher = x.refresher
  BY <1>1
<1>5. y \in ProxyType
  BY ZenonT(60), <1>3 DEF ProxyType
<1>6. /\ y.state = x.state /\ y.busy = FALSE /\ y.refresher = refresher /\ y.paused = x.paused
      /\ y.enabled = x.enabled /\ y.publish = x.publish /\ y.send = x.send
      /\ y.commit = x.commit /\ y.pubop = x.pubop /\ y.editing = x.editing
  BY <1>3 DEF ProxyType
<1> QED BY <1>4, <1>5, <1>6 DEF SameSettings

\* register_failure(): the publication is kept for later.
LEMMA LaterIs ==
  ASSUME NEW x \in ProxyType, NEW y, y = PublishLater(x)
  PROVE  /\ y \in ProxyType /\ y.state = x.state /\ y.enabled = x.enabled /\ y.busy = x.busy
         /\ y.auth = x.auth /\ y.refresher = x.refresher /\ y.commit = x.commit /\ y.paused = x.paused
         /\ y.editing = x.editing /\ y.wants = x.wants
         /\ \A net : Remembered(x, net) => Remembered(y, net)
BY DEF PublishLater, ProxyType, Remembered

\* register_failure()
LEMMA RegistrationFailed ==
  ASSUME NEW s, Sound(s), NEW p \in Proxy, NEW how \in Failure, s.px[p].busy,
         NEW r, r = RegisterFailure(s, p, how)
  PROVE  Sound(r)
<1>1. /\ s \in AccountType /\ FriendsFine(s) /\ Heard(s.px[p]) /\ s.px[p] \in ProxyType
      /\ p \in ListedProxies(s) => Tended(s.px[p]) /\ Remembered(s.px[p], s.net)
  BY DEF Sound, ProxiesFine, AccountType
<1>2. PICK state \in RegState : state = StateAfter(s.px[p], how)
  BY DEF RegState, StateAfter
<1>3. PICK y, x, t : y = Failed(s.px[p], how) /\ x = InState(y, state) /\ t = [s EXCEPT !.px[p] = y]
  OBVIOUS
<1>4. /\ SameSettings(s.px[p], y) /\ y.state = s.px[p].state /\ ~y.busy /\ y.refresher # "none"
      /\ y.paused = s.px[p].paused
      /\ how = "unavailable" => y.refresher = s.px[p].refresher
  BY <1>1, <1>3, FailedIs
<1>5. Stepped(s, p, y, t)
  BY <1>1, <1>3, <1>4, QuietlyStepped DEF SameSettings
<1>6. t \in AccountType /\ FriendsFine(t) /\ t.px[p] = y /\ y \in ProxyType
  BY <1>1, <1>5, SteppedTo
<1>7. PICK u : u = SetState(t, p, state)
  OBVIOUS
<1>8. Stepped(t, p, x, u)
  BY <1>3, <1>6, <1>7, StateStepped
<1>9. Stepped(s, p, x, u)
  BY <1>1, <1>5, <1>8, SteppedOn
<1>10. u \in AccountType /\ FriendsFine(u) /\ u.px[p] = x /\ x \in ProxyType
  BY <1>1, <1>9, SteppedTo
<1>11. /\ SameSettings(y, x) /\ x.state = state /\ x.auth = y.auth /\ x.refresher = y.refresher
       /\ x.busy = y.busy /\ x.paused = y.paused
  BY <1>3, <1>6, StateOnly
<1>12. Heard(x) /\ (p \in ListedProxies(s) => Tended(x) /\ Remembered(x, s.net))
  BY <1>1, <1>2, <1>4, <1>11 DEF SameSettings, Heard, Tended, Remembered, StateAfter
<1>13. PICK z : z = PublishLater(x)
  OBVIOUS
<1>14. /\ z \in ProxyType /\ z.state = x.state /\ z.enabled = x.enabled /\ z.busy = x.busy
       /\ z.auth = x.auth /\ z.refresher = x.refresher /\ z.commit = x.commit /\ z.paused = x.paused
       /\ z.editing = x.editing /\ z.wants = x.wants
       /\ \A net : Remembered(x, net) => Remembered(z, net)
  BY <1>10, <1>13, LaterIs
<1>15. r = [u EXCEPT !.px[p] = z]
  BY <1>2, <1>3, <1>7, <1>10, <1>13 DEF RegisterFailure
<1>16. Stepped(u, p, z, r)
  BY <1>10, <1>14, <1>15, QuietlyStepped
<1>17. Stepped(s, p, z, r)
  BY <1>1, <1>9, <1>16, SteppedOn
<1>18. Heard(z) /\ (p \in ListedProxies(s) => Tended(z) /\ Remembered(z, s.net))
  BY <1>12, <1>14 DEF Heard, Tended
<1> QED BY <1>17, <1>18, ProxyStepped DEF Stepped

-----------------------------------------------------------------------------
(* Steps of the application on a proxy                                     *)

\* The refresher sends a REGISTER of its own.
LEMMA RefreshedInTime ==
  ASSUME NEW s, Sound(s), NEW p \in Proxy, s.px[p].refresher = "on",
         NEW r, r = [s EXCEPT !.px[p] = Refresh(@, "register")]
  PROVE  Sound(r)
<1>1. /\ s.px[p] \in ProxyType
      /\ p \in ListedProxies(s) => Remembered(s.px[p], s.net)
  BY DEF Sound, ProxiesFine, AccountType
<1>2. PICK x : x = Refresh(s.px[p], "register")
  OBVIOUS
<1>3. /\ SameSettings(s.px[p], x) /\ x.state = s.px[p].state /\ x.busy /\ x.refresher = "on"
  BY <1>1, <1>2, Refreshed
<1>4. Heard(x) /\ Tended(x) /\ (p \in ListedProxies(s) => Remembered(x, s.net))
  BY <1>1, <1>3 DEF SameSettings, Heard, Tended, Remembered
<1>5. x \in ProxyType /\ x.enabled = s.px[p].enabled /\ r = [s EXCEPT !.px[p] = x]
  BY <1>2, <1>3 DEF SameSettings
<1> QED BY <1>3, <1>4, <1>5, QuietStep

\* linphone_proxy_config_pause_register(), of the record.
LEMMA PausedIs ==
  ASSUME NEW x \in ProxyType, NEW y, y = PauseRegisterOf(x)
  PROVE  /\ SameSettings(x, y) /\ y.state = x.state
         /\ Heard(x) => Heard(y)
         /\ Tended(x) => Tended(y)
<1>1. PICK z : z = StopRefreshing(x)
  OBVIOUS
<1>2. /\ SameSettings(x, z) /\ z.state = x.state /\ z.auth = x.auth /\ z.busy = x.busy
      /\ z.paused = x.paused
      /\ x.refresher = "none" <=> z.refresher = "none"
      /\ x.refresher # "on" => z = x
  BY <1>1, RefreshStopped
<1>3. PICK paused \in BOOLEAN : paused = (x.paused \/ x.refresher = "on")
  OBVIOUS
<1>4. y = [z EXCEPT !.paused = paused]
  BY <1>1, <1>2, <1>3 DEF PauseRegisterOf
<1>5. /\ SameSettings(z, y) /\ y.state = z.state /\ y.auth = z.auth /\ y.busy = z.busy
      /\ y.refresher = z.refresher /\ y.paused = paused /\ y.wants = z.wants
  BY <1>2, <1>4 DEF ProxyType, SameSettings
<1> QED BY <1>2, <1>3, <1>5 DEF SameSettings, Heard, Tended

\* linphone_proxy_config_pause_register()
LEMMA RegisterPaused ==
  ASSUME NEW s, Sound(s), NEW p \in Proxy, NEW r, r = [s EXCEPT !.px[p] = PauseRegisterOf(@)]
  PROVE  Sound(r)
<1>1. /\ s.px[p] \in ProxyType /\ Heard(s.px[p])
      /\ p \in ListedProxies(s) => Tended(s.px[p]) /\ Remembered(s.px[p], s.net)
  BY DEF Sound, ProxiesFine, AccountType
<1>2. PICK x : x = PauseRegisterOf(s.px[p])
  OBVIOUS
<1>3. SameSettings(s.px[p], x) /\ x.state = s.px[p].state /\ Heard(x) /\ (Tended(s.px[p]) => Tended(x))
  BY <1>1, <1>2, PausedIs
<1>4. p \in ListedProxies(s) => Tended(x) /\ Remembered(x, s.net)
  BY <1>1, <1>3 DEF SameSettings, Remembered
<1>5. x \in ProxyType /\ x.enabled = s.px[p].enabled /\ r = [s EXCEPT !.px[p] = x]
  BY <1>2, <1>3 DEF SameSettings
<1> QED BY <1>3, <1>4, <1>5, QuietStep

\* linphone_proxy_config_edit() and linphone_proxy_config_done()
LEMMA ProxyEdited ==
  ASSUME NEW s, Sound(s), NEW p \in Proxy, NEW r,
         r = [s EXCEPT !.px[p] = EditProxy(@)] \/ r = [s EXCEPT !.px[p] = DoneProxy(@)]
  PROVE  Sound(r)
<1>1. s.px[p] \in ProxyType /\ Heard(s.px[p])
  BY DEF Sound, ProxiesFine, AccountType
<1>2. PICK x, y : x = EditProxy(s.px[p]) /\ y = DoneProxy(s.px[p])
  OBVIOUS
<1>3. /\ x \in ProxyType /\ x.state = s.px[p].state /\ x.enabled = s.px[p].enabled /\ Heard(x)
      /\ Tended(x) /\ Remembered(x, s.net)
  BY <1>1, <1>2, EditedIs
<1>4. /\ y \in ProxyType /\ y.state = s.px[p].state /\ y.enabled = s.px[p].enabled /\ Heard(y)
      /\ Tended(y) /\ Remembered(y, s.net)
  BY <1>1, <1>2, DoneIs
<1>5. CASE r = [s EXCEPT !.px[p] = x]
  BY <1>3, <1>5, QuietStep
<1>6. CASE r = [s EXCEPT !.px[p] = y]
  BY <1>4, <1>6, QuietStep
<1> QED BY <1>2, <1>5, <1>6

\* A proxy that is not listed is not looked at.
LEMMA UnlistedUnseen ==
  ASSUME NEW s \in AccountType, NEW t \in AccountType, NEW f \in Friend, Ordered(s),
         t.proxies = s.proxies, t.default = s.default,
         \A q \in ListedProxies(s) : t.px[q] = s.px[q]
  PROVE  CanSubscribe(t, f) <=> CanSubscribe(s, f)
<1>1. ListedProxies(t) = ListedProxies(s) /\ ListedProxies(s) \subseteq Proxy
  BY ListedAre DEF ListedProxies
<1> DEFINE home == Home[f] \cap ListedProxies(s)
<1>2. {p \in home : t.px[p].state = "Ok"} = {p \in home : s.px[p].state = "Ok"}
  BY <1>1
<1>3. {p \in home : t.px[p].enabled} = {p \in home : s.px[p].enabled}
  BY <1>1
<1>4. \A P : FirstOf(t, P) = FirstOf(s, P)
  BY DEF FirstOf
<1>5. LookupKnownProxy(t, f) = LookupKnownProxy(s, f)
  BY <1>1, <1>2, <1>3, <1>4 DEF LookupKnownProxy
<1>6. LookupKnownProxy(s, f) \in ListedProxies(s) \cup {NoProxy}
  BY LookupIs DEF Ordered
<1> QED BY <1>5, <1>6 DEF CanSubscribe

\* proxy_update(): the object of a removed proxy is freed.
LEMMA ProxyForgotten ==
  ASSUME NEW s, Sound(s), NEW p \in s.deleted, NEW r, r = ForgetProxy(s, p)
  PROVE  Sound(r)
<1>1. s \in AccountType /\ p \in Proxy /\ p \notin ListedProxies(s) /\ Ordered(s)
      /\ s.px \in [Proxy -> ProxyType] /\ ListedProxies(s) \subseteq Proxy
  BY ListedAre DEF Sound, Ordered, AccountType
<1>2. NewProxy \in ProxyType /\ Heard(NewProxy)
  BY DEF NewProxy, ProxyType, RegState, Address, Heard
<1>3. PICK x \in ProxyType, deleted \in SUBSET Proxy, px \in [Proxy -> ProxyType] :
        x = NewProxy /\ deleted = s.deleted \ {p} /\ px = [s.px EXCEPT ![p] = x]
  BY <1>1, <1>2 DEF AccountType
<1>4. r = [s EXCEPT !.deleted = deleted, !.px = px]
  BY <1>3 DEF ForgetProxy
<1>5. /\ r \in AccountType /\ r.net = s.net /\ r.initial = s.initial /\ r.proxies = s.proxies
      /\ r.default = s.default /\ r.fr = s.fr /\ r.deleted = deleted
      /\ r.px = px
  BY <1>1, <1>4 DEF AccountType
<1>6. ListedProxies(r) = ListedProxies(s)
  BY <1>5 DEF ListedProxies
<1>7. \A q \in ListedProxies(s) : r.px[q] = s.px[q]
  BY <1>1, <1>3, <1>5
<1>8. \A f \in Friend : CanSubscribe(r, f) <=> CanSubscribe(s, f)
  BY <1>1, <1>5, <1>7, UnlistedUnseen
<1>9. FriendsFine(r)
  BY <1>5, <1>8 DEF Sound, FriendsFine, Wanted, IsListed
<1>10. Ordered(r)
  BY <1>3, <1>5, <1>6 DEF Sound, Ordered
<1>11. \A q \in Proxy : Heard(r.px[q])
  BY <1>1, <1>2, <1>3, <1>5 DEF Sound, ProxiesFine
<1>12. ProxiesFine(r)
  BY <1>5, <1>6, <1>7, <1>11 DEF Sound, ProxiesFine
<1> QED BY <1>5, <1>9, <1>10, <1>12 DEF Sound

-----------------------------------------------------------------------------
(* What changes the proxy of a friend                                      *)

\* Two sequences in a row.
LEMMA Joined ==
  ASSUME NEW S, NEW a \in Seq(S), NEW b \in Seq(S), NEW r, r = a \o b
  PROVE  /\ r \in Seq(S) /\ Len(r) = Len(a) + Len(b)
         /\ \A i \in 1..(Len(a) + Len(b)) : r[i] = IF i <= Len(a) THEN a[i] ELSE b[i - Len(a)]
BY ConcatProperties

\* A list without one of its members.
LEMMA Without ==
  ASSUME NEW S, NEW q \in Seq(S), NEW k \in 1..Len(q),
         Distinct(q), NEW r, r = RemoveAt(q, k)
  PROVE  r \in Seq(S) /\ Distinct(r) /\ Members(r) = Members(q) \ {q[k]}
<1>1. PICK n \in Nat : n = Len(q)
  OBVIOUS
<1>2. PICK a, b : a = SubSeq(q, 1, k - 1) /\ b = SubSeq(q, k + 1, n)
  OBVIOUS
<1>3. a \in Seq(S) /\ Len(a) = k - 1 /\ \A i \in 1..(k - 1) : a[i] = q[i]
  BY <1>1, <1>2
<1>4. b \in Seq(S) /\ Len(b) = n - k /\ \A i \in 1..(n - k) : b[i] = q[k + i]
  BY <1>1, <1>2
<1>5. r = a \o b
  BY <1>1, <1>2 DEF RemoveAt
<1>6. /\ r \in Seq(S) /\ Len(r) = Len(a) + Len(b)
      /\ \A i \in 1..(Len(a) + Len(b)) : r[i] = IF i <= Len(a) THEN a[i] ELSE b[i - Len(a)]
  <2>1. a \in Seq(S) /\ b \in Seq(S)
    BY <1>3, <1>4
  <2> QED BY <1>5, <2>1, Joined
<1>7. /\ r \in Seq(S) /\ Len(r) = n - 1
      /\ \A i \in 1..(n - 1) : r[i] = IF i <= k - 1 THEN a[i] ELSE b[i - (k - 1)]
  <2>1. Len(a) = k - 1 /\ Len(a) + Len(b) = n - 1
    BY <1>1, <1>3, <1>4
  <2> QED BY <1>6, <2>1
<1>8. ASSUME NEW i \in 1..(n - 1)  PROVE r[i] = IF i < k THEN q[i] ELSE q[i + 1]
  <2>1. CASE i < k
    BY <1>1, <1>3, <1>7, <2>1
  <2>2. CASE ~(i < k)
    <3>1. i - (k - 1) \in 1..(n - k) /\ k + (i - (k - 1)) = i + 1
      BY <1>1, <2>2
    <3>2. r[i] = b[i - (k - 1)]
      BY <1>1, <1>7, <2>2
    <3> QED BY <1>4, <2>2, <3>1, <3>2
  <2> QED BY <2>1, <2>2
<1>9. \A i, j \in 1..Len(r) : r[i] = r[j] => i = j
  BY <1>1, <1>7, <1>8 DEF Distinct
<1>10. DOMAIN r = 1..(n - 1) /\ DOMAIN q = 1..n
  BY <1>1, <1>7
<1>11. ASSUME NEW i \in 1..(n - 1)  PROVE \E j \in 1..n : r[i] = q[j] /\ q[j] # q[k]
  <2>1. CASE i < k
    BY <1>1, <1>8, <2>1 DEF Distinct
  <2>2. CASE ~(i < k)
    <3>1. i + 1 \in 1..n /\ i + 1 # k
      BY <1>1, <2>2
    <3> QED BY <1>1, <1>8, <2>2, <3>1 DEF Distinct
  <2> QED BY <2>1, <2>2
<1>12. ASSUME NEW j \in 1..n, q[j] # q[k]  PROVE \E i \in 1..(n - 1) : r[i] = q[j]
  <2>1. CASE j < k
    BY <1>1, <1>8, <2>1
  <2>2. CASE j > k
    <3>1. j - 1 \in 1..(n - 1) /\ ~(j - 1 < k) /\ (j - 1) + 1 = j
      BY <1>1, <2>2
    <3> QED BY <1>8, <3>1
  <2>3. j # k
    BY <1>12
  <2> QED BY <1>1, <2>1, <2>2, <2>3
<1>13. {r[i] : i \in 1..(n - 1)} = {q[i] : i \in 1..n} \ {q[k]}
  <2> PICK R, Q : R = {r[i] : i \in 1..(n - 1)} /\ Q = {q[i] : i \in 1..n}
    OBVIOUS
  <2>1. \A e : e \in R <=> \E i \in 1..(n - 1) : e = r[i]
    OBVIOUS
  <2>2. \A e : e \in Q <=> \E i \in 1..n : e = q[i]
    OBVIOUS
  <2>3. \A e : e \in R => e \in Q /\ e # q[k]
    BY <1>11, <2>1, <2>2
  <2>4. \A e : e \in Q /\ e # q[k] => e \in R
    BY <1>12, <2>1, <2>2
  <2> QED BY <2>3, <2>4
<1> QED BY <1>7, <1>9, <1>10, <1>13 DEF Distinct, Members

\* The list or the default proxy changes: friends that now belong to another proxy have
\* their excuse, the others still belong to one in the same state.
LEMMA MovedOn ==
  ASSUME NEW s, Sound(s), NEW t \in AccountType, t.fr = s.fr, t.net = s.net, t.initial = s.initial,
         \A q \in Proxy : t.px[q].state = s.px[q].state, Ordered(t), ProxiesFine(t),
         NEW r, r = Moved(s, t)
  PROVE  Sound(r)
<1> DEFINE fr == [f \in Friend |-> IF LookupKnownProxy(s, f) # LookupKnownProxy(t, f)
                                  THEN [t.fr[f] EXCEPT !.excuse = "moved"] ELSE t.fr[f]]
<1>1. t.fr \in [Friend -> FriendType] /\ s \in AccountType
  BY DEF AccountType, Sound
<1>2. ASSUME NEW f \in Friend
      PROVE  fr[f] \in FriendType /\ FriendFine(fr[f]) /\ (fr[f].excuse # "none" \/ fr[f] = s.fr[f])
  <2>1. PICK me \in FriendType : me = s.fr[f] /\ FriendFine(me)
    BY <1>1 DEF Sound, FriendsFine
  <2>2. CASE fr[f] = [me EXCEPT !.excuse = "moved"]
    <3>1. PICK y : y = [me EXCEPT !.excuse = "moved"]
      OBVIOUS
    <3>2. y \in FriendType /\ y.excuse = "moved" /\ y.lists = me.lists /\ y.core = me.core
      BY <3>1 DEF FriendType
    <3> QED BY <2>1, <2>2, <3>1, <3>2 DEF FriendFine, Live
  <2>3. CASE fr[f] = me
    BY <2>1, <2>3
  <2> QED BY <2>1, <2>2, <2>3
<1>3. fr \in [Friend -> FriendType] /\ r = [t EXCEPT !.fr = fr]
  BY <1>2 DEF Moved
<1>4. ASSUME NEW f \in Friend, CanSubscribe(t, f)
      PROVE  fr[f].excuse = "none" => CanSubscribe(s, f)
  <2>1. CASE LookupKnownProxy(s, f) = LookupKnownProxy(t, f)
    <3>1. PICK cfg \in Proxy \cup {NoProxy} : cfg = LookupKnownProxy(s, f) /\ cfg = LookupKnownProxy(t, f)
      BY <1>1, <2>1, LookupInto
    <3> QED BY <1>4, <3>1 DEF CanSubscribe
  <2>2. CASE LookupKnownProxy(s, f) # LookupKnownProxy(t, f)
    <3>1. fr[f] = [s.fr[f] EXCEPT !.excuse = "moved"] /\ s.fr[f] \in FriendType
      BY <1>1, <2>2
    <3>2. fr[f].excuse = "moved"
      BY <3>1 DEF FriendType
    <3> QED BY <3>2
  <2> QED BY <2>1, <2>2
<1> HIDE DEF fr
<1>5. /\ r \in AccountType /\ Same(t, r) /\ r.px = t.px /\ r.fr = fr
      /\ \A f \in Friend : CanSubscribe(r, f) <=> CanSubscribe(t, f)
  BY <1>3, WithFriends
<1>6. FriendsFine(r)
  <2> SUFFICES ASSUME NEW f \in Friend  PROVE Wanted(r, f)
    BY <1>2, <1>5 DEF FriendsFine
  <2> SUFFICES ASSUME IsListed(r, f), fr[f].want, fr[f].excuse = "none", r.net, r.initial, CanSubscribe(r, f)
               PROVE  fr[f].sent \/ fr[f].refresher = "on"
    BY <1>5 DEF Wanted
  <2>1. fr[f] = s.fr[f] /\ CanSubscribe(s, f) /\ s.net /\ s.initial
    BY <1>2, <1>4, <1>5 DEF Same
  <2> QED BY <1>5, <2>1 DEF Sound, FriendsFine, Wanted, IsListed
<1>7. Ordered(r)
  BY <1>5, OrderedOn DEF Same, Ordered
<1>8. ProxiesFine(r)
  BY <1>5 DEF ProxiesFine, Same, ListedProxies
<1> QED BY <1>5, <1>6, <1>7, <1>8 DEF Sound

Having(s, p, x) == [s EXCEPT !.px[p] = x]

\* One proxy has another record.
LEMMA ProxyReplaced ==
  ASSUME NEW s \in AccountType, NEW p \in Proxy, NEW x \in ProxyType, NEW t, t = Having(s, p, x)
  PROVE  t \in AccountType /\ Same(s, t) /\ t.fr = s.fr /\ t.px = [s.px EXCEPT ![p] = x]
BY DEF AccountType, Same, Having

\* The setters of a proxy, of the record.
LEMMA ConfiguredIs ==
  ASSUME NEW x \in ProxyType, NEW enabled \in BOOLEAN, NEW publish \in BOOLEAN, NEW cfg \in Address,
         NEW y, y = [x EXCEPT !.enabled = enabled, !.publish = publish, !.cfg = cfg]
  PROVE  /\ y \in ProxyType /\ y.state = x.state /\ y.editing = x.editing
         /\ y.busy = x.busy /\ y.auth = x.auth /\ y.refresher = x.refresher
BY DEF ProxyType

\* The setters of a proxy that is not in the list, or is being edited.
LEMMA Configured ==
  ASSUME NEW s, Sound(s), NEW p \in Proxy, p \in ListedProxies(s) => s.px[p].editing,
         NEW x \in ProxyType, x.state = s.px[p].state, x.editing = s.px[p].editing,
         x.busy = s.px[p].busy, x.auth = s.px[p].auth, x.refresher = s.px[p].refresher,
         NEW t, t = Having(s, p, x)
  PROVE  Sound(Moved(s, t))
<1>1. /\ s \in AccountType /\ s.px \in [Proxy -> ProxyType] /\ s.px[p] \in ProxyType
      /\ Heard(s.px[p])
  BY DEF Sound, ProxiesFine, AccountType
<1>4. Heard(x) /\ (p \in ListedProxies(s) => Tended(x) /\ Remembered(x, s.net))
  BY <1>1 DEF Heard, Tended, Remembered
<1>6. /\ t \in AccountType /\ Same(s, t) /\ t.fr = s.fr /\ t.px = [s.px EXCEPT ![p] = x]
  BY <1>1, ProxyReplaced
<1>7. \A q \in Proxy : t.px[q].state = s.px[q].state
  BY <1>1, <1>6
<1>8. ListedProxies(t) = ListedProxies(s)
  BY <1>6 DEF Same, ListedProxies
<1>9. Ordered(t)
  BY <1>6, OrderedOn DEF Same, Sound, Ordered
<1>10. ProxiesFine(t)
  <2>1. ListedProxies(s) \subseteq Proxy /\ t.net = s.net
    BY <1>1, <1>6, ListedAre DEF Same
  <2> QED BY <1>1, <1>4, <1>6, <1>8, <2>1 DEF Sound, ProxiesFine
<1> QED BY <1>6, <1>7, <1>9, <1>10, MovedOn DEF Same

\* linphone_core_set_default_proxy()
LEMMA DefaultSet ==
  ASSUME NEW s, Sound(s), NEW p \in ListedProxies(s) \cup {NoProxy},
         NEW t, t = [s EXCEPT !.default = p]
  PROVE  Sound(Moved(s, t))
<1>1. s \in AccountType /\ p \in Proxy \cup {NoProxy}
  BY ListedAre DEF Sound
<1>2. /\ t \in AccountType /\ t.fr = s.fr /\ t.net = s.net /\ t.initial = s.initial /\ t.px = s.px
      /\ t.proxies = s.proxies /\ t.deleted = s.deleted /\ t.default = p
  BY <1>1 DEF AccountType
<1>3. ListedProxies(t) = ListedProxies(s)
  BY <1>2 DEF ListedProxies
<1>4. Ordered(t) /\ ProxiesFine(t)
  BY <1>2, <1>3 DEF Sound, Ordered, ProxiesFine
<1>5. \A q \in Proxy : t.px[q].state = s.px[q].state
  BY <1>2
<1> QED BY <1>2, <1>4, <1>5, MovedOn

\* linphone_core_add_proxy_config()
LEMMA ProxyAdded ==
  ASSUME NEW s, Sound(s), NEW p \in Proxy, p \notin s.deleted, p \notin ListedProxies(s),
         NEW t, t = AddProxyTo(s, p)
  PROVE  Sound(Moved(s, t))
<1>1. /\ s \in AccountType /\ s.px \in [Proxy -> ProxyType] /\ s.px[p] \in ProxyType
      /\ Heard(s.px[p])
  BY DEF Sound, ProxiesFine, AccountType
<1>2. PICK x : x = DoneProxy(s.px[p])
  OBVIOUS
<1>3. /\ x \in ProxyType /\ x.state = s.px[p].state /\ Heard(x) /\ Tended(x) /\ Remembered(x, s.net)
  BY <1>1, <1>2, DoneIs
<1>4. PICK n \in Nat, q \in Seq(Proxy) : n = Len(s.proxies) /\ q = Append(s.proxies, p)
  <2>1. PICK list \in Seq(Proxy) : list = s.proxies
    BY <1>1, ListedAre
  <2>2. Len(list) \in Nat /\ Append(list, p) \in Seq(Proxy)
    OBVIOUS
  <2> QED BY <2>1, <2>2
<1>5. /\ Len(q) = n + 1 /\ q[n + 1] = p /\ \A i \in 1..n : q[i] = s.proxies[i]
  BY <1>1, <1>4, ListedAre
<1>6. PICK u : u = Having(s, p, x)
  OBVIOUS
<1>7. u \in AccountType /\ Same(s, u) /\ u.fr = s.fr /\ u.px = [s.px EXCEPT ![p] = x]
  BY <1>1, <1>3, <1>6, ProxyReplaced
<1>8. t = [u EXCEPT !.proxies = q]
  BY <1>1, <1>2, <1>4, <1>6 DEF AddProxyTo, Having, AccountType
<1>9. /\ t \in AccountType /\ t.fr = s.fr /\ t.net = s.net /\ t.initial = s.initial /\ t.px = u.px
      /\ t.proxies = q /\ t.deleted = s.deleted /\ t.default = s.default
  BY <1>7, <1>8 DEF AccountType, Same
<1>10. ListedProxies(t) = ListedProxies(s) \cup {p}
  <2>1. DOMAIN q = 1..(n + 1) /\ DOMAIN s.proxies = 1..n
    BY <1>1, <1>4, <1>5, ListedAre
  <2>2. {q[i] : i \in 1..(n + 1)} = {s.proxies[i] : i \in 1..n} \cup {p}
    <3>1. \A i \in 1..n : i \in 1..(n + 1)
      BY <1>4
    <3>2. n + 1 \in 1..(n + 1) /\ \A i \in 1..(n + 1) : i = n + 1 \/ i \in 1..n
      BY <1>4
    <3> QED BY <1>5, <3>1, <3>2
  <2>3. ListedProxies(t) = {q[i] : i \in 1..(n + 1)} /\ ListedProxies(s) = {s.proxies[i] : i \in 1..n}
    BY <1>9, <2>1 DEF ListedProxies
  <2> QED BY <2>2, <2>3
<1>11. Ordered(t)
  <2>1. \A i \in 1..n : s.proxies[i] # p
    BY <1>1, <1>4, ListedAre
  <2>2. \A i, j \in 1..n : s.proxies[i] = s.proxies[j] => i = j
    BY <1>4 DEF Sound, Ordered, Distinct
  <2>3. Distinct(t.proxies)
    BY <1>5, <1>9, <2>1, <2>2 DEF Distinct
  <2> QED BY <1>9, <1>10, <2>3 DEF Sound, Ordered
<1>12. ListedProxies(s) \subseteq Proxy
  BY <1>1, ListedAre
<1>13. ProxiesFine(t)
  BY <1>1, <1>3, <1>7, <1>9, <1>10, <1>12 DEF Sound, ProxiesFine
<1>14. \A q1 \in Proxy : t.px[q1].state = s.px[q1].state
  BY <1>1, <1>3, <1>7, <1>9
<1> QED BY <1>9, <1>11, <1>13, <1>14, MovedOn

\* A proxy that is unregistered, so that what is left to it is to say so.
LEMMA LeftIs ==
  ASSUME NEW s \in AccountType, NEW p \in Proxy, ~s.px[p].enabled, s.px[p].state = "Ok", Heard(s.px[p])
  PROVE  \E x \in ProxyType : /\ UpdateProxy(s, p, TRUE) = Having(s, p, x)
                              /\ x.state = "Ok" /\ Heard(x)
<1>1. PICK me \in ProxyType : me = s.px[p]
  BY DEF AccountType
<1>2. PICK t : t = IF s.px[p].commit /\ s.net
                   THEN [Register(s, p, TRUE) EXCEPT !.px[p].commit = FALSE,
                                                     !.px[p].send = @ \/ s.px[p].publish]
                   ELSE s
  OBVIOUS
<1>3. PICK y \in ProxyType : t = Having(s, p, y) /\ y.state = "Ok" /\ Heard(y)
  <2>1. CASE ~(s.px[p].commit /\ s.net)
    <3>1. s = Having(s, p, me)
      BY <1>1 DEF Having, AccountType
    <3> QED BY <1>1, <1>2, <2>1, <3>1
  <2>2. CASE s.px[p].commit /\ s.net
    <3>1. PICK z, u : z = Unregister(me) /\ u = Having(s, p, z)
      OBVIOUS
    <3>2. z \in ProxyType /\ z.state = "Ok" /\ Heard(z)
      BY <1>1, <3>1, Unregistered DEF SameSettings
    <3>3. Register(s, p, TRUE) = u
      BY <1>1, <3>1 DEF Register, Having
    <3>4. PICK publish \in BOOLEAN : publish = me.publish
      BY DEF ProxyType
    <3>5. PICK y : y = Committed(z, publish)
      OBVIOUS
    <3>6. y \in ProxyType /\ y.state = "Ok" /\ Heard(y)
      BY <3>2, <3>5, CommittedIs DEF Heard
    <3>7. u \in AccountType /\ u.px[p] = z
      BY <3>1, <3>2 DEF Having, AccountType
    <3>8. t = Having(u, p, y)
      BY <1>1, <1>2, <2>2, <3>3, <3>4, <3>5, <3>7 DEF Committed, Having, AccountType
    <3>9. t = Having(s, p, y)
      BY <3>1, <3>8 DEF Having, AccountType
    <3> QED BY <3>6, <3>9
  <2> QED BY <2>1, <2>2
<1>4. t \in AccountType /\ t.px[p] = y
  BY <1>3 DEF Having, AccountType
<1>5. UpdateProxy(s, p, TRUE) = IF y.send /\ CanPublish(y) THEN Having(t, p, Published(y)) ELSE t
  BY <1>2, <1>4 DEF UpdateProxy, Published, Having
<1>6. CASE UpdateProxy(s, p, TRUE) = t
  BY <1>3, <1>6
<1>7. CASE CanPublish(y) /\ UpdateProxy(s, p, TRUE) = Having(t, p, Published(y))
  <2>1. PICK x : x = Published(y)
    OBVIOUS
  <2>2. x \in ProxyType /\ x.state = "Ok" /\ Heard(x)
    BY <1>3, <1>7, <2>1, PublishedIs DEF Heard
  <2>3. Having(t, p, x) = Having(s, p, x)
    BY <1>3 DEF Having, AccountType
  <2> QED BY <1>7, <2>1, <2>2, <2>3
<1> QED BY <1>5, <1>6, <1>7

\* A removed proxy is edited, disabled and done with.
LEMMA ClosedIs ==
  ASSUME NEW x \in ProxyType, Heard(x), NEW y, y = DoneProxy(Disabled(x))
  PROVE  y \in ProxyType /\ y.state = x.state /\ ~y.enabled /\ Heard(y)
<1>1. PICK e, d : e = EditProxy(x) /\ d = Disabled(x)
  OBVIOUS
<1>2. e \in ProxyType /\ e.state = x.state /\ Heard(e)
  BY <1>1, EditedIs
<1>3. d = [e EXCEPT !.enabled = FALSE]
  BY <1>1 DEF Disabled
<1>4. d \in ProxyType /\ d.state = e.state /\ ~d.enabled /\ Heard(d)
  BY <1>2, <1>3 DEF ProxyType, Heard
<1>5. y = DoneProxy(d)
  BY <1>1
<1>6. y \in ProxyType /\ y.state = d.state /\ y.enabled = d.enabled /\ Heard(y)
  BY <1>4, <1>5, DoneIs
<1> QED BY <1>2, <1>4, <1>6

\* linphone_core_remove_proxy_config()
LEMMA ProxyRemoved ==
  ASSUME NEW s, Sound(s), NEW p \in ListedProxies(s), NEW t, t = RemoveProxyFrom(s, p)
  PROVE  Sound(Moved(s, t))
<1>1. /\ s \in AccountType /\ p \in Proxy /\ s.px \in [Proxy -> ProxyType] /\ s.px[p] \in ProxyType
      /\ Heard(s.px[p]) /\ ListedProxies(s) \subseteq Proxy
  BY ListedAre DEF Sound, ProxiesFine, AccountType
<1>2. PICK k : k = CHOOSE i \in DOMAIN s.proxies : s.proxies[i] = p
  OBVIOUS
<1>3. k \in DOMAIN s.proxies /\ s.proxies[k] = p
  BY <1>2 DEF ListedProxies
<1>4. PICK list : list = s.proxies
  OBVIOUS
<1>5. list \in Seq(Proxy) /\ k \in 1..Len(list) /\ Distinct(list)
  BY <1>1, <1>3, <1>4, ListedAre DEF Sound, Ordered
<1>6. PICK q : q = RemoveAt(list, k)
  OBVIOUS
<1>7. q \in Seq(Proxy) /\ Distinct(q) /\ Members(q) = Members(list) \ {list[k]}
  BY <1>5, <1>6, Without
<1>8. PICK gone, deleted : gone = [s EXCEPT !.proxies = q, !.deleted = deleted] /\ deleted = s.deleted \cup {p}
  OBVIOUS
<1>9. /\ gone \in AccountType /\ gone.fr = s.fr /\ gone.net = s.net /\ gone.initial = s.initial
      /\ gone.px = s.px /\ gone.proxies = q /\ gone.deleted = deleted /\ gone.default = s.default
  <2>1. deleted \in SUBSET Proxy
    BY <1>1, <1>8 DEF AccountType
  <2> QED BY <1>1, <1>7, <1>8, <2>1 DEF AccountType
<1>10. PICK x, left :
         /\ x \in ProxyType /\ left = Having(gone, p, x) /\ x.state = s.px[p].state /\ Heard(x)
         /\ t = [left EXCEPT !.default = IF @ = p THEN NoProxy ELSE @]
  <2>1. PICK y, edited : y = DoneProxy(Disabled(s.px[p])) /\ edited = Having(gone, p, y)
    OBVIOUS
  <2>2. y \in ProxyType /\ y.state = s.px[p].state /\ ~y.enabled /\ Heard(y)
    BY <1>1, <2>1, ClosedIs
  <2>3. edited \in AccountType /\ edited.px[p] = y
    BY <1>1, <1>9, <2>1, <2>2 DEF Having, AccountType
  <2>4. PICK left : left = IF s.px[p].state = "Ok" THEN UpdateProxy(edited, p, TRUE) ELSE gone
    OBVIOUS
  <2>5. gone = Unlisted(s, p)
    BY <1>2, <1>4, <1>6, <1>8 DEF Unlisted
  <2>6. edited = [gone EXCEPT !.px[p] = DoneProxy(Disabled(@))]
    BY <1>9, <2>1 DEF Having
  <2>7. t = [left EXCEPT !.default = IF @ = p THEN NoProxy ELSE @]
    BY <2>4, <2>5, <2>6 DEF RemoveProxyFrom
  <2>8. CASE s.px[p].state = "Ok"
    <3>1. PICK x \in ProxyType : UpdateProxy(edited, p, TRUE) = Having(edited, p, x) /\ x.state = "Ok" /\ Heard(x)
      BY <1>1, <2>2, <2>3, <2>8, LeftIs
    <3>2. Having(edited, p, x) = Having(gone, p, x)
      BY <1>9, <2>1 DEF Having, AccountType
    <3> QED BY <2>4, <2>7, <2>8, <3>1, <3>2
  <2>9. CASE s.px[p].state # "Ok"
    <3>1. gone = Having(gone, p, s.px[p])
      BY <1>1, <1>9 DEF Having, AccountType
    <3> QED BY <1>1, <2>4, <2>7, <2>9, <3>1
  <2> QED BY <2>8, <2>9
<1>11. left \in AccountType /\ Same(gone, left) /\ left.fr = gone.fr /\ left.px = [gone.px EXCEPT ![p] = x]
  BY <1>1, <1>9, <1>10, ProxyReplaced
<1>12. PICK d : d = IF left.default = p THEN NoProxy ELSE left.default
  OBVIOUS
<1>13. d \in Proxy \cup {NoProxy} /\ t = [left EXCEPT !.default = d]
  BY <1>10, <1>11, <1>12 DEF AccountType
<1>14. /\ t \in AccountType /\ t.fr = s.fr /\ t.net = s.net /\ t.initial = s.initial
       /\ t.px = [s.px EXCEPT ![p] = x] /\ t.proxies = q /\ t.deleted = deleted /\ t.default = d
  BY <1>9, <1>11, <1>13 DEF AccountType, Same
<1>15. ListedProxies(t) = ListedProxies(s) \ {p}
  <2>1. ListedProxies(t) = Members(q) /\ ListedProxies(s) = Members(list)
    BY <1>4, <1>14 DEF ListedProxies, Members
  <2> QED BY <1>3, <1>4, <1>7, <2>1
<1>16. Ordered(t)
  <2>1. t.deleted \cap ListedProxies(t) = {}
    BY <1>8, <1>14, <1>15 DEF Sound, Ordered
  <2>2. d \in ListedProxies(t) \cup {NoProxy}
    BY <1>9, <1>11, <1>12, <1>15 DEF Sound, Ordered, Same
  <2>3. t.initial => t.net
    BY <1>14 DEF Sound, Ordered
  <2> QED BY <1>7, <1>14, <2>1, <2>2, <2>3 DEF Ordered
<1>17. ProxiesFine(t)
  BY <1>1, <1>10, <1>14, <1>15 DEF Sound, ProxiesFine
<1>18. \A r \in Proxy : t.px[r].state = s.px[r].state
  BY <1>1, <1>10, <1>14
<1> QED BY <1>14, <1>16, <1>17, <1>18, MovedOn

-----------------------------------------------------------------------------
(* Steps on a friend                                                       *)

Befriended(s, f, me) == [s EXCEPT !.fr[f] = me]

\* The subscription to f is kept up, were its record me.
KeptUp(s, f, me) ==
  /\ "friends" \in me.lists /\ me.want /\ me.excuse = "none"
  /\ s.net /\ s.initial /\ CanSubscribe(s, f)
  => me.sent \/ me.refresher = "on"

\* Wanted is a property of the record of the friend and of its proxy.
LEMMA WantedIs ==
  ASSUME NEW s, NEW f \in Friend
  PROVE  Wanted(s, f) <=> KeptUp(s, f, s.fr[f])
BY DEF Wanted, KeptUp, IsListed

\* All but f are as they should be.
OthersFine(s, f) ==
  /\ s \in AccountType /\ Ordered(s) /\ ProxiesFine(s) /\ FriendFine(s.fr[f])
  /\ \A g \in Friend \ {f} : FriendFine(s.fr[g]) /\ Wanted(s, g)

\* One friend has another record.
LEMMA Replaced ==
  ASSUME NEW s, NEW f \in Friend, OthersFine(s, f), NEW me \in FriendType, FriendFine(me),
         NEW r, r = Befriended(s, f, me)
  PROVE  /\ OthersFine(r, f) /\ Same(s, r) /\ r.px = s.px /\ r.fr[f] = me
         /\ CanSubscribe(r, f) <=> CanSubscribe(s, f)
         /\ KeptUp(s, f, me) => Sound(r)
<1>1. s \in AccountType /\ s.fr \in [Friend -> FriendType]
  BY DEF OthersFine, AccountType
<1>2. PICK fr \in [Friend -> FriendType] : fr = [s.fr EXCEPT ![f] = me]
  BY <1>1
<1>3. r = [s EXCEPT !.fr = fr]
  BY <1>1, <1>2 DEF Befriended, AccountType
<1>4. /\ r \in AccountType /\ Same(s, r) /\ r.px = s.px /\ r.fr = fr
      /\ \A g \in Friend : CanSubscribe(r, g) <=> CanSubscribe(s, g)
  BY <1>1, <1>3, WithFriends
<1>5. fr[f] = me /\ \A g \in Friend \ {f} : fr[g] = s.fr[g]
  BY <1>1, <1>2
<1>6. Ordered(r)
  BY <1>4, OrderedOn DEF OthersFine, Ordered, Same
<1>7. ProxiesFine(r)
  BY <1>4 DEF OthersFine, ProxiesFine, Same, ListedProxies
<1>8. \A g \in Friend \ {f} : FriendFine(r.fr[g]) /\ Wanted(r, g)
  BY <1>4, <1>5 DEF OthersFine, Wanted, IsListed, Same
<1>9. OthersFine(r, f)
  BY <1>4, <1>5, <1>6, <1>7, <1>8 DEF OthersFine
<1>10. ASSUME KeptUp(s, f, me)  PROVE Sound(r)
  <2>1. Wanted(r, f)
    BY <1>4, <1>5, <1>10 DEF KeptUp, Wanted, IsListed, Same
  <2> QED BY <1>9, <2>1 DEF OthersFine, Sound, FriendsFine
<1> QED BY <1>4, <1>5, <1>9, <1>10

\* What is sound is sound without the friend as well.
LEMMA SoundOthers ==
  ASSUME NEW s, Sound(s), NEW f \in Friend
  PROVE  OthersFine(s, f) /\ s.fr[f] \in FriendType /\ KeptUp(s, f, s.fr[f])
BY WantedIs DEF Sound, OthersFine, FriendsFine, AccountType

\* The notification owed to a new subscriber changes nothing of our subscription.
LEMMA NotifiedIs ==
  ASSUME NEW me \in FriendType, FriendFine(me), NEW r, r = NotifyPending(me)
  PROVE  /\ r \in FriendType /\ FriendFine(r) /\ r.lists = me.lists /\ r.core = me.core
<1>1. PICK what \in {"nothing", "waiting", "presence"} :
        what = CASE me.pol = "wait" -> "waiting" [] me.pol = "accept" -> "presence"
                 [] me.pol = "deny" -> "nothing"
  <2>1. me.pol \in {"wait", "accept", "deny"}
    BY DEF FriendType, Policy
  <2> QED BY <2>1
<1>2. PICK told : told = Notify(me, what)
  OBVIOUS
<1>3. told = me \/ told = [me EXCEPT !.told = what]
  BY <1>2 DEF Notify
<1>4. /\ told \in FriendType /\ FriendFine(told) /\ told.lists = me.lists /\ told.core = me.core
  BY <1>3 DEF FriendType, FriendFine, Live
<1>5. r = me \/ r = [told EXCEPT !.pend = FALSE]
  BY <1>1, <1>2 DEF NotifyPending
<1> QED BY ZenonT(60), <1>4, <1>5 DEF FriendType, FriendFine, Live

\* linphone_friend_apply()
LEMMA Applied ==
  ASSUME NEW s, NEW f \in Friend, OthersFine(s, f), NEW r, r = Apply(s, f)
  PROVE  Sound(r)
<1>1. s.fr[f] \in FriendType /\ FriendFine(s.fr[f])
  BY DEF OthersFine, AccountType
<1>2. PICK me, t : me = NotifyPending(s.fr[f]) /\ t = Befriended(s, f, me)
  OBVIOUS
<1>3. me \in FriendType /\ FriendFine(me)
  BY <1>1, <1>2, NotifiedIs
<1>4. OthersFine(t, f) /\ t.fr[f] = me
  BY <1>2, <1>3, Replaced
<1>5. PICK u : u = UpdateSubscribes(t, f, NoProxy)
  OBVIOUS
<1>6. r = Befriended(t, f, u)
  BY <1>2, <1>5 DEF Apply, Befriended
<1>7. t \in AccountType /\ NoProxy \in Proxy \cup {NoProxy} /\ Live(me)
  BY <1>3, <1>4 DEF OthersFine, FriendFine
<1>8. /\ SameFriend(me, u)
      /\ me.want /\ CanSubscribe(t, f) /\ u.excuse = "none" =>
           \/ u.sent \/ u.refresher = "on"
           \/ u = me /\ OnlyWhenRegistered /\ NoProxy # NoProxy /\ NoProxy # LookupKnownProxy(t, f)
  BY <1>4, <1>5, <1>7, UpdateOne
<1>9. u \in FriendType /\ FriendFine(u) /\ KeptUp(t, f, u)
  BY <1>3, <1>8 DEF SameFriend, FriendFine, KeptUp
<1> QED BY <1>4, <1>6, <1>9, Replaced

\* linphone_friend_done()
LEMMA DoneWith ==
  ASSUME NEW s, NEW f \in Friend, OthersFine(s, f), NEW r, r = FriendDone(s, f)
  PROVE  Sound(r)
<1>1. CASE s.fr[f].core
  BY <1>1, Applied DEF FriendDone
<1>2. CASE ~s.fr[f].core
  <2>1. Wanted(s, f)
    BY <1>2 DEF OthersFine, FriendFine, Wanted, IsListed
  <2> QED BY <1>2, <2>1 DEF FriendDone, OthersFine, Sound, FriendsFine
<1> QED BY <1>1, <1>2

\* A friend of the core is given another record, and a step on it follows.
LEMMA Rewritten ==
  ASSUME NEW s, Sound(s), NEW f \in Friend, NEW me \in FriendType, FriendFine(me)
  PROVE  /\ OthersFine(Befriended(s, f, me), f)
         /\ KeptUp(s, f, me) => Sound(Befriended(s, f, me))
BY SoundOthers, Replaced

NewFine == NewFriend \in FriendType /\ FriendFine(NewFriend) /\ NewFriend.lists = {}

\* linphone_friend_new()
LEMMA NewIsFine == NewFine
BY DEF NewFine, NewFriend, FriendType, Policy, FriendFine, Live

\* linphone_subscription_new()
LEMMA NewSubscription ==
  ASSUME NEW s, Sound(s), NEW f \in Friend, NEW r, r = SubscriptionNew(s, f)
  PROVE  Sound(r)
<1>1. s.fr[f] \in FriendType /\ FriendFine(s.fr[f])
  BY SoundOthers DEF OthersFine
<1>2. CASE IsListed(s, f)
  <2>1. PICK x : x = [s.fr[f] EXCEPT !.insub = TRUE, !.pend = TRUE]
    OBVIOUS
  <2>2. x \in FriendType /\ FriendFine(x)
    BY <1>1, <2>1 DEF FriendType, FriendFine, Live
  <2>3. r = FriendDone(Befriended(s, f, x), f)
    BY <1>2, <2>1 DEF SubscriptionNew, Befriended
  <2> QED BY <2>2, <2>3, Rewritten, DoneWith
<1>3. CASE ~IsListed(s, f) /\ "subscribers" \in s.fr[f].lists
  BY <1>3 DEF SubscriptionNew
<1>4. CASE ~IsListed(s, f) /\ "subscribers" \notin s.fr[f].lists
  <2>1. PICK x : x = [NewFriend EXCEPT !.lists = {"subscribers"}, !.insub = TRUE, !.pend = TRUE]
    OBVIOUS
  <2>2. PICK y \in FriendType : y = NewFriend /\ FriendFine(y)
    BY NewIsFine DEF NewFine
  <2>3. x \in FriendType /\ FriendFine(x) /\ "friends" \notin x.lists
    BY <2>1, <2>2 DEF FriendType, FriendFine, Live
  <2>4. r = Befriended(s, f, x)
    BY <1>4, <2>1 DEF SubscriptionNew, Befriended
  <2>5. KeptUp(s, f, x)
    BY <2>3 DEF KeptUp
  <2> QED BY <2>3, <2>4, <2>5, Rewritten
<1> QED BY <1>2, <1>3, <1>4

\* linphone_core_add_friend()
LEMMA FriendAdded ==
  ASSUME NEW s, Sound(s), NEW f \in Friend,
         NEW r, r = AddFriendTo([s EXCEPT !.fr[f].held = TRUE], f)
  PROVE  Sound(r)
<1>1. s.fr[f] \in FriendType /\ FriendFine(s.fr[f]) /\ s \in AccountType
  BY SoundOthers DEF OthersFine
<1>2. PICK y, x : y = [s.fr[f] EXCEPT !.held = TRUE] /\ x = [y EXCEPT !.lists = @ \cup {"friends"}, !.core = TRUE]
  OBVIOUS
<1>3. y \in FriendType /\ FriendFine(y)
  BY <1>1, <1>2 DEF FriendType, FriendFine, Live
<1>4. x \in FriendType /\ FriendFine(x)
  <2>1. PICK lists \in SUBSET {"friends", "subscribers"} : lists = y.lists \cup {"friends"}
    BY <1>3 DEF FriendType
  <2>2. x = [y EXCEPT !.lists = lists, !.core = TRUE]
    BY <1>2, <1>3, <2>1 DEF FriendType
  <2> QED BY <1>3, <2>2 DEF FriendType, FriendFine, Live
<1>5. PICK t : t = Befriended(s, f, y)
  OBVIOUS
<1>6. t = [s EXCEPT !.fr[f].held = TRUE] /\ t.fr[f] = y
  BY <1>1, <1>2, <1>5 DEF Befriended, AccountType
<1>7. Befriended(t, f, x) = Befriended(s, f, x)
  BY <1>1, <1>5 DEF Befriended, AccountType
<1>8. r = Apply(Befriended(s, f, x), f)
  BY <1>2, <1>6, <1>7 DEF AddFriendTo, Befriended
<1> QED BY <1>4, <1>8, Rewritten, Applied

\* A record that is freed is of no list.
LEMMA CollectedIs ==
  ASSUME NEW x \in FriendType, FriendFine(x), NEW y, y = Collected(x)
  PROVE  y \in FriendType /\ FriendFine(y) /\ ("friends" \notin y.lists \/ y = x)
<1>1. PICK new \in FriendType : new = NewFriend /\ FriendFine(new) /\ new.lists = {}
  BY NewIsFine DEF NewFine
<1> QED BY <1>1 DEF Collected

\* linphone_core_remove_friend() and linphone_friend_unref()
LEMMA FriendDropped ==
  ASSUME NEW s, Sound(s), NEW f \in Friend, NEW r,
         \/ r = RemoveFriendFrom(s, f)
         \/ r = [s EXCEPT !.fr[f] = Collected([@ EXCEPT !.held = FALSE])]
  PROVE  Sound(r)
<1>1. s.fr[f] \in FriendType /\ FriendFine(s.fr[f]) /\ KeptUp(s, f, s.fr[f])
  BY SoundOthers DEF OthersFine
<1>2. PICK me \in FriendType : me = s.fr[f] /\ FriendFine(me)
  BY <1>1
<1>3. PICK x, y : x = [me EXCEPT !.lists = @ \ {"friends"}] /\ y = [me EXCEPT !.held = FALSE]
  OBVIOUS
<1>4. x \in FriendType /\ FriendFine(x) /\ "friends" \notin x.lists
  BY <1>2, <1>3 DEF FriendType, FriendFine, Live
<1>5. /\ y \in FriendType /\ FriendFine(y) /\ y.lists = me.lists /\ y.want = me.want
      /\ y.excuse = me.excuse /\ y.sent = me.sent /\ y.refresher = me.refresher
  BY <1>2, <1>3 DEF FriendType, FriendFine, Live
<1>6. PICK cx, cy : cx = Collected(x) /\ cy = Collected(y)
  OBVIOUS
<1>7. cx \in FriendType /\ FriendFine(cx) /\ ("friends" \notin cx.lists \/ cx = x)
  BY <1>4, <1>6, CollectedIs
<1>8. cy \in FriendType /\ FriendFine(cy) /\ ("friends" \notin cy.lists \/ cy = y)
  BY <1>5, <1>6, CollectedIs
<1>9. KeptUp(s, f, cx) /\ KeptUp(s, f, cy)
  BY <1>1, <1>2, <1>4, <1>5, <1>7, <1>8 DEF KeptUp
<1>10. r = Befriended(s, f, cx) \/ r = Befriended(s, f, cy)
  <2>1. CASE r = RemoveFriendFrom(s, f)
    BY <1>2, <1>3, <1>6, <2>1 DEF RemoveFriendFrom, Befriended
  <2>2. CASE r = [s EXCEPT !.fr[f] = Collected([@ EXCEPT !.held = FALSE])]
    BY <1>2, <1>3, <1>6, <2>2 DEF Befriended
  <2> QED BY <2>1, <2>2
<1> QED BY <1>7, <1>8, <1>9, <1>10, Rewritten

\* linphone_friend_enable_subscribes() and linphone_friend_set_inc_subscribe_policy()
LEMMA FriendSet ==
  ASSUME NEW s, Sound(s), NEW f \in Friend, NEW want \in BOOLEAN, NEW pol \in Policy, NEW r,
         \/ r = FriendDone([s EXCEPT !.fr[f].want = want], f)
         \/ r = FriendDone([s EXCEPT !.fr[f] = [@ EXCEPT !.pol = pol, !.told = "nothing"]], f)
  PROVE  Sound(r)
<1>1. s.fr[f] \in FriendType /\ FriendFine(s.fr[f])
  BY SoundOthers DEF OthersFine
<1>2. PICK me \in FriendType : me = s.fr[f] /\ FriendFine(me)
  BY <1>1
<1>3. PICK x, y : x = [me EXCEPT !.want = want] /\ y = [me EXCEPT !.pol = pol, !.told = "nothing"]
  OBVIOUS
<1>4. x \in FriendType /\ FriendFine(x)
  BY <1>2, <1>3 DEF FriendType, FriendFine, Live
<1>5. y \in FriendType /\ FriendFine(y)
  BY <1>2, <1>3 DEF FriendType, FriendFine, Live
<1>6. r = FriendDone(Befriended(s, f, x), f) \/ r = FriendDone(Befriended(s, f, y), f)
  BY <1>2, <1>3 DEF Befriended
<1> QED BY <1>4, <1>5, <1>6, Rewritten, DoneWith

\* What the SAL makes of a record, and when.
Answers(me, x) ==
  \/ me.sent /\ (x = SubscribeAccepted(me) \/ x = SubscribeUnanswered(me))
  \/ x = SubscriptionEnded(me)
  \/ me.out /\ x = NotifyReceived(me)
  \/ x = SubscriptionLost(me)
  \/ x = RefreshRefused(me)

\* A far end that is heard leaves the friend with a subscription as good as it was, or
\* with an excuse.
LEMMA AnswerFine ==
  ASSUME NEW me \in FriendType, FriendFine(me), NEW x, Answers(me, x)
  PROVE  /\ x \in FriendType /\ FriendFine(x)
         /\ \/ x.excuse # "none" \/ x.sent \/ x.refresher = "on"
            \/ /\ x.lists = me.lists /\ x.want = me.want /\ me.excuse = "none"
               /\ x.sent = me.sent /\ x.refresher = me.refresher
<1>1. CASE x = SubscribeAccepted(me) \/ x = SubscribeUnanswered(me)
  BY ZenonT(60), <1>1 DEF SubscribeAccepted, SubscribeUnanswered, FriendType, FriendFine, Live
<1>2. CASE x = SubscriptionEnded(me)
  <2>1. PICK y : y = NoSubscription(me)
    OBVIOUS
  <2>2. y \in FriendType /\ y.lists = me.lists /\ y.core = me.core
    BY <2>1 DEF NoSubscription, FriendType
  <2>3. x = [y EXCEPT !.excuse = "ended"]
    BY <1>2, <2>1 DEF SubscriptionEnded
  <2> QED BY <2>2, <2>3 DEF FriendType, FriendFine, Live
<1>3. CASE me.out /\ x = NotifyReceived(me)
  <2>1. CASE me.refresher = "off"
    <3>1. x = [me EXCEPT !.active = TRUE, !.excuse = "notified"]
      BY <1>3, <2>1 DEF NotifyReceived
    <3> QED BY <3>1 DEF FriendType, FriendFine, Live
  <2>2. CASE me.refresher # "off"
    <3>1. x = [me EXCEPT !.active = TRUE]
      BY <1>3, <2>2 DEF NotifyReceived, FriendType
    <3> QED BY <1>3, <2>2, <3>1 DEF FriendType, FriendFine, Live
  <2> QED BY <2>1, <2>2
<1>4. CASE x = SubscriptionLost(me) \/ x = RefreshRefused(me)
  BY ZenonT(60), <1>4 DEF SubscriptionLost, RefreshRefused, FriendType, FriendFine, Live
<1> QED BY <1>1, <1>2, <1>3, <1>4 DEF Answers

\* An answer of the far end.
LEMMA FriendAnswered ==
  ASSUME NEW s, Sound(s), NEW f \in Friend, NEW x, Answers(s.fr[f], x),
         NEW r, r = [s EXCEPT !.fr[f] = x]
  PROVE  Sound(r)
<1>1. s.fr[f] \in FriendType /\ FriendFine(s.fr[f]) /\ KeptUp(s, f, s.fr[f])
  BY SoundOthers DEF OthersFine
<1>2. /\ x \in FriendType /\ FriendFine(x)
      /\ \/ x.excuse # "none" \/ x.sent \/ x.refresher = "on"
         \/ /\ x.lists = s.fr[f].lists /\ x.want = s.fr[f].want /\ s.fr[f].excuse = "none"
            /\ x.sent = s.fr[f].sent /\ x.refresher = s.fr[f].refresher
  BY <1>1, AnswerFine
<1>3. KeptUp(s, f, x)
  BY <1>1, <1>2 DEF KeptUp
<1>4. r = Befriended(s, f, x)
  BY DEF Befriended
<1> QED BY <1>2, <1>3, <1>4, Rewritten

-----------------------------------------------------------------------------
(* The theorems                                                            *)

\* Before the first call there is nothing to go wrong.
LEMMA Initially ==
  ASSUME AccountInit
  PROVE  Sound(ac)
<1>1. PICK scope \in Scopes :
        ac = [ scope |-> scope, idle |-> FALSE, net |-> TRUE, initial |-> FALSE, proxies |-> <<>>,
               deleted |-> {}, default |-> NoProxy,
               px |-> [p \in Proxy |-> NewProxy], fr |-> [f \in Friend |-> NewFriend] ]
  BY DEF AccountInit
<1>2. PICK px, fr : px = [p \in Proxy |-> NewProxy] /\ fr = [f \in Friend |-> NewFriend]
  OBVIOUS
<1>3. ac = [ scope |-> scope, idle |-> FALSE, net |-> TRUE, initial |-> FALSE, proxies |-> <<>>,
             deleted |-> {}, default |-> NoProxy, px |-> px, fr |-> fr ]
  BY <1>1, <1>2
<1>4. NewProxy \in ProxyType /\ Heard(NewProxy)
  BY DEF NewProxy, ProxyType, RegState, Address, Heard
<1>5. px \in [Proxy -> ProxyType] /\ \A p \in Proxy : Heard(px[p])
  BY <1>2, <1>4
<1>6. fr \in [Friend -> FriendType] /\ \A f \in Friend : FriendFine(fr[f])
  BY <1>2, NewIsFine DEF NewFine
<1>7. ac \in AccountType
  BY <1>3, <1>5, <1>6 DEF AccountType
<1>8. ListedProxies(ac) = {}
  BY <1>3 DEF ListedProxies
<1>9. Ordered(ac)
  BY <1>3, <1>8 DEF Ordered, Distinct
<1>10. ProxiesFine(ac)
  BY <1>3, <1>5, <1>8 DEF ProxiesFine
<1>11. FriendsFine(ac)
  BY <1>3, <1>6 DEF FriendsFine, Wanted
<1> QED BY <1>7, <1>9, <1>10, <1>11 DEF Sound

\* The public API on a proxy.
LEMMA ProxyCalled ==
  ASSUME Sound(ac), NEW p \in Proxy,
         \/ Configure(p) \/ AddProxy(p) \/ RemoveProxy(p) \/ Edit(p)
         \/ Done(p) \/ PauseRegister(p) \/ RefreshRegister(p)
  PROVE  Sound(ac')
<1>1. CASE Configure(p)
  <2>1. PICK disabled \in OneOf("disable"), publish \in OneOf("publish"), cfg \in Addresses :
          LET x == [ac.px[p] EXCEPT !.enabled = ~disabled, !.publish = publish, !.cfg = cfg]
          IN  ac' = Moved(ac, [ac EXCEPT !.px[p] = x])
    BY <1>1 DEF Configure
  <2>2. PICK x : x = [ac.px[p] EXCEPT !.enabled = ~disabled, !.publish = publish, !.cfg = cfg]
    OBVIOUS
  <2>3. ac' = Moved(ac, Having(ac, p, x))
    BY <2>1, <2>2 DEF Having
  <2>4. disabled \in BOOLEAN /\ publish \in BOOLEAN
    BY DEF OneOf
  <2>5. cfg \in Address
    BY DEF Addresses, Address
  <2>6. PICK enabled \in BOOLEAN : enabled = ~disabled
    BY <2>4
  <2>7. PICK me \in ProxyType : me = ac.px[p]
    BY DEF Sound, AccountType
  <2>8. x = [me EXCEPT !.enabled = enabled, !.publish = publish, !.cfg = cfg]
    BY <2>2, <2>6, <2>7
  <2>9. /\ x \in ProxyType /\ x.state = ac.px[p].state /\ x.editing = ac.px[p].editing
        /\ x.busy = ac.px[p].busy /\ x.auth = ac.px[p].auth /\ x.refresher = ac.px[p].refresher
    <3>1. /\ x \in ProxyType /\ x.state = me.state /\ x.editing = me.editing
          /\ x.busy = me.busy /\ x.auth = me.auth /\ x.refresher = me.refresher
      BY ZenonT(60), <2>4, <2>5, <2>6, <2>7, <2>8 DEF ProxyType
    <3> QED BY <2>7, <3>1
  <2>10. p \in ListedProxies(ac) => ac.px[p].editing
    BY <1>1 DEF Configure, Listed
  <2> QED BY <2>3, <2>9, <2>10, Configured
<1>2. CASE AddProxy(p)
  BY <1>2, ProxyAdded DEF AddProxy, Listed
<1>3. CASE RemoveProxy(p)
  BY <1>3, ProxyRemoved DEF RemoveProxy, Listed
<1>4. CASE Edit(p)
  BY <1>4, ProxyEdited DEF Edit
<1>5. CASE Done(p)
  BY <1>5, ProxyEdited DEF Done
<1>6. CASE PauseRegister(p)
  BY <1>6, RegisterPaused DEF PauseRegister
<1>7. CASE RefreshRegister(p)
  BY <1>7, RegisterRefreshed DEF RefreshRegister
<1> QED BY <1>1, <1>2, <1>3, <1>4, <1>5, <1>6, <1>7

\* The public API on a friend.
LEMMA FriendCalled ==
  ASSUME Sound(ac), NEW f \in Friend,
         AddFriend(f) \/ RemoveFriend(f) \/ UnrefFriend(f) \/ EnableSubscribes(f) \/ SetPolicy(f)
  PROVE  Sound(ac')
<1>1. CASE AddFriend(f)
  BY <1>1, FriendAdded DEF AddFriend
<1>2. CASE RemoveFriend(f)
  BY <1>2, FriendDropped DEF RemoveFriend
<1>3. CASE UnrefFriend(f)
  BY <1>3, FriendDropped DEF UnrefFriend
<1>4. CASE EnableSubscribes(f)
  <2>1. PICK want \in BOOLEAN : ac' = FriendDone([ac EXCEPT !.fr[f].want = want], f)
    BY <1>4 DEF EnableSubscribes
  <2>2. "wait" \in Policy
    BY DEF Policy
  <2> QED BY <2>1, <2>2, FriendSet
<1>5. CASE SetPolicy(f)
  <2>1. PICK pol \in Policy :
          ac' = FriendDone([ac EXCEPT !.fr[f] = [@ EXCEPT !.pol = pol, !.told = "nothing"]], f)
    BY <1>5 DEF SetPolicy
  <2> QED BY <2>1, FriendSet
<1> QED BY <1>1, <1>2, <1>3, <1>4, <1>5

\* The public API.
LEMMA ApplicationCalled ==
  ASSUME Sound(ac), ByApplication
  PROVE  Sound(ac')
<1>1. CASE SetTransports
  BY <1>1, Invalidated DEF SetTransports
<1>2. CASE RefreshAllRegisters
  BY <1>2, AllRefreshed DEF RefreshAllRegisters
<1>3. CASE AddAuthInfo
  BY <1>3, PasswordAdded DEF AddAuthInfo
<1>4. CASE SetNetworkReachable
  BY <1>4, NetworkIsDown, NetworkIsUp DEF SetNetworkReachable
<1>5. CASE SetPresence
  BY <1>5, PresenceSent DEF SetPresence
<1>6. CASE \E p \in Proxy : \/ Configure(p) \/ AddProxy(p) \/ RemoveProxy(p) \/ Edit(p)
                            \/ Done(p) \/ PauseRegister(p) \/ RefreshRegister(p)
  BY <1>6, ProxyCalled
<1>7. CASE \E p \in Proxy \cup {NoProxy} : SetDefault(p)
  <2>1. PICK p \in Proxy \cup {NoProxy} : SetDefault(p)
    BY <1>7
  <2>2. p \in ListedProxies(ac) \cup {NoProxy} /\ ac' = Moved(ac, [ac EXCEPT !.default = p])
    BY <2>1 DEF SetDefault, Listed
  <2> QED BY <2>2, DefaultSet
<1>8. CASE \E f \in Friend : \/ AddFriend(f) \/ RemoveFriend(f) \/ UnrefFriend(f)
                             \/ EnableSubscribes(f) \/ SetPolicy(f)
  BY <1>8, FriendCalled
<1> QED BY <1>1, <1>2, <1>3, <1>4, <1>5, <1>6, <1>7, <1>8 DEF ByApplication

\* What the SAL tells of a proxy.
LEMMA ProxyTold ==
  ASSUME Sound(ac), NEW p \in Proxy, Registered(p) \/ RegistrationFails(p) \/ RefreshFires(p)
  PROVE  Sound(ac')
<1>1. CASE Registered(p)
  BY <1>1, Succeeded DEF Registered
<1>2. CASE RegistrationFails(p)
  <2>1. PICK how \in ac.scope.fails : ac' = RegisterFailure(ac, p, how)
    BY <1>2 DEF RegistrationFails
  <2>2. ac.scope \in Scope
    BY AccountAssumption DEF Sound, AccountType
  <2>3. how \in Failure
    BY <2>1, <2>2 DEF Scope
  <2> QED BY <1>2, <2>1, <2>3, RegistrationFailed DEF RegistrationFails
<1>3. CASE RefreshFires(p)
  BY <1>3, RefreshedInTime DEF RefreshFires
<1> QED BY <1>1, <1>2, <1>3

\* What the SAL tells of a friend.
LEMMA FriendTold ==
  ASSUME Sound(ac), NEW f \in Friend,
         \/ Subscribed(f) \/ SubscribeOk(f) \/ SubscribeRefused(f) \/ SubscribeTimeout(f)
         \/ NotifyRecv(f) \/ NotifyTerminated(f) \/ DialogLost(f) \/ RefreshDenied(f)
  PROVE  Sound(ac')
<1>1. CASE Subscribed(f)
  BY <1>1, NewSubscription DEF Subscribed
<1>2. ASSUME NEW x, Answers(ac.fr[f], x), ac' = [ac EXCEPT !.fr[f] = x]
      PROVE  Sound(ac')
  BY <1>2, FriendAnswered
<1>3. CASE SubscribeOk(f)
  <2>1. ac.fr[f].sent /\ ac' = [ac EXCEPT !.fr[f] = SubscribeAccepted(ac.fr[f])]
    BY <1>3 DEF SubscribeOk, Answer
  <2>2. Answers(ac.fr[f], SubscribeAccepted(ac.fr[f]))
    BY <2>1 DEF Answers
  <2> QED BY <1>2, <2>1, <2>2
<1>4. CASE SubscribeTimeout(f)
  <2>1. ac.fr[f].sent /\ ac' = [ac EXCEPT !.fr[f] = SubscribeUnanswered(ac.fr[f])]
    BY <1>4 DEF SubscribeTimeout, Answer
  <2>2. Answers(ac.fr[f], SubscribeUnanswered(ac.fr[f]))
    BY <2>1 DEF Answers
  <2> QED BY <1>2, <2>1, <2>2
<1>5. CASE SubscribeRefused(f) \/ NotifyTerminated(f)
  <2>1. ac' = [ac EXCEPT !.fr[f] = SubscriptionEnded(ac.fr[f])]
    BY <1>5 DEF SubscribeRefused, NotifyTerminated, Answer
  <2>2. Answers(ac.fr[f], SubscriptionEnded(ac.fr[f]))
    BY DEF Answers
  <2> QED BY <1>2, <2>1, <2>2
<1>6. CASE NotifyRecv(f)
  <2>1. ac.fr[f].out /\ ac' = [ac EXCEPT !.fr[f] = NotifyReceived(ac.fr[f])]
    BY <1>6 DEF NotifyRecv, Answer
  <2>2. Answers(ac.fr[f], NotifyReceived(ac.fr[f]))
    BY <2>1 DEF Answers
  <2> QED BY <1>2, <2>1, <2>2
<1>7. CASE DialogLost(f)
  <2>1. ac' = [ac EXCEPT !.fr[f] = SubscriptionLost(ac.fr[f])]
    BY <1>7 DEF DialogLost, Answer
  <2>2. Answers(ac.fr[f], SubscriptionLost(ac.fr[f]))
    BY DEF Answers
  <2> QED BY <1>2, <2>1, <2>2
<1>8. CASE RefreshDenied(f)
  <2>1. ac' = [ac EXCEPT !.fr[f] = RefreshRefused(ac.fr[f])]
    BY <1>8 DEF RefreshDenied, Answer
  <2>2. Answers(ac.fr[f], RefreshRefused(ac.fr[f]))
    BY DEF Answers
  <2> QED BY <1>2, <2>1, <2>2
<1> QED BY <1>1, <1>3, <1>4, <1>5, <1>6, <1>7, <1>8

\* The application stops calling.
LEMMA StaysSound ==
  ASSUME NEW s, Sound(s), NEW t, t = [s EXCEPT !.idle = TRUE]
  PROVE  Sound(t)
<1>1. /\ t \in AccountType /\ t.fr = s.fr /\ t.px = s.px /\ t.net = s.net /\ t.initial = s.initial
      /\ t.proxies = s.proxies /\ t.deleted = s.deleted /\ t.default = s.default
  BY DEF Sound, AccountType
<1>2. \A f \in Friend : CanSubscribe(t, f) <=> CanSubscribe(s, f)
  BY <1>1, CanSubscribeSame DEF Sound
<1>3. FriendsFine(t)
  BY <1>1, <1>2 DEF Sound, FriendsFine, Wanted, IsListed
<1>4. Ordered(t)
  BY <1>1, OrderedOn DEF Sound, Ordered
<1>5. ProxiesFine(t)
  BY <1>1 DEF Sound, ProxiesFine, ListedProxies
<1> QED BY <1>1, <1>3, <1>4, <1>5 DEF Sound

\* No call, answer or turn of the main loop breaks the invariant.
LEMMA Preserved ==
  ASSUME Sound(ac), [AccountNext]_ac
  PROVE  Sound(ac')
<1>1. CASE ByApplication
  BY <1>1, ApplicationCalled
<1>2. CASE GoIdle
  BY <1>2, StaysSound DEF GoIdle
<1>3. CASE \E unsent \in SUBSET ListedProxies(ac), subscribe \in BOOLEAN : Iterate(unsent, subscribe)
  <2>1. PICK unsent \in SUBSET ListedProxies(ac), subscribe \in BOOLEAN : Iterate(unsent, subscribe)
    BY <1>3
  <2>2. PICK t : t = ProxiesUpdated(ac, unsent)
    OBVIOUS
  <2>3. /\ subscribe => ac.net
        /\ ac' = IF subscribe THEN UpdateFriends([t EXCEPT !.initial = TRUE], NoProxy) ELSE t
    BY <2>1, <2>2 DEF Iterate
  <2> QED BY <2>1, <2>2, <2>3, IteratedOnce
<1>4. CASE \E p \in Proxy : Forget(p)
  BY <1>4, ProxyForgotten DEF Forget
<1>5. CASE \E p \in Proxy : Registered(p) \/ RegistrationFails(p) \/ RefreshFires(p)
  BY <1>5, ProxyTold
<1>6. CASE \E f \in Friend : \/ Subscribed(f) \/ SubscribeOk(f) \/ SubscribeRefused(f)
                             \/ SubscribeTimeout(f) \/ NotifyRecv(f) \/ NotifyTerminated(f)
                             \/ DialogLost(f) \/ RefreshDenied(f)
  BY <1>6, FriendTold
<1>7. CASE ac' = ac
  <2>1. PICK s : s = ac
    OBVIOUS
  <2>2. ac' = s /\ Sound(s)
    BY <1>7, <2>1
  <2> QED BY <2>2
<1> QED BY <1>1, <1>2, <1>3, <1>4, <1>5, <1>6, <1>7 DEF AccountNext, BySip

AccountSound == Sound(ac)

\* The invariant of the account.
LEMMA AlwaysSound == AccountSpec => []AccountSound
<1>1. AccountInit => AccountSound
  BY Initially DEF AccountSound
<1>2. AccountSound /\ [AccountNext]_ac => AccountSound'
  BY Preserved DEF AccountSound
<1> QED BY <1>1, <1>2, PTL DEF AccountSpec

\* Every call and every answer leaves proxies and friends with the fields they have in
\* LinphoneProxyConfig and LinphoneFriend, and the list with proxies.
THEOREM AccountIsTyped == AccountSpec => []AccountTypeOK
<1>1. AccountSound => AccountTypeOK
  BY DEF AccountSound, Sound, AccountTypeOK
<1> QED BY <1>1, AlwaysSound, PTL

\* register_failure(), edit(), stop_refreshing(), send_publish() and update() hand the
\* presence to be published to each other: for every proxy of the list one of them has it.
THEOREM PublicationIsKept == AccountSpec => []PublishNotForgotten
<1>1. AccountSound => PublishNotForgotten
  BY DEF AccountSound, Sound, ProxiesFine, Remembered, PublishNotForgotten
<1> QED BY <1>1, AlwaysSound, PTL

\* A proxy shown in progress by linphone_proxy_config_set_state() waits for an answer, for
\* its refresher, for the main loop or for done().
THEOREM ProgressGoesOn == AccountSpec => []ProgressIsGoingOn
<1>1. AccountSound => ProgressIsGoingOn
  BY DEF AccountSound, Sound, ProxiesFine, Tended, ProgressIsGoingOn
<1> QED BY <1>1, AlwaysSound, PTL

\* However the proxies of its domain are registered, removed, reordered or made the default
\* one, linphone_friend_update_subscribes() sees to it that a friend of the list whose
\* presence is wanted and may be subscribed to is.
THEOREM PresenceIsSubscribed == AccountSpec => []WantedIsRefreshed
<1>1. AccountSound => WantedIsRefreshed
  BY DEF AccountSound, Sound, FriendsFine, Wanted, WantedIsRefreshed
<1> QED BY <1>1, AlwaysSound, PTL
=============================================================================
