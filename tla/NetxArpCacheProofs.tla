-------------------------- MODULE NetxArpCacheProofs -------------------------
(***************************************************************************)
(* Proofs about NetxArpCache, for any number of entries, addresses and     *)
(* packets, any rates and any set of services: the count that the walks go *)
(* by is true, lists and ring agree, a packet waits only where it will be  *)
(* found, and no request goes out through an interface taken away.         *)
(*                                                                         *)
(* What a list operation does is said once, in terms of the set of its     *)
(* entries and of which stands before which; the actions use only that.    *)
(*                                                                         *)
(* The second part, in a section of its own, are the proofs about UDP      *)
(* ports, NetxUdpBind, which is the instance Udp there.  It shares the     *)
(* facts about sequences without repetition: there the lists of waiters.   *)
(***************************************************************************)
EXTENDS NetxArpCache, FiniteSetTheorems, SequenceTheorems, WellFoundedInduction, TLAPS

-----------------------------------------------------------------------------
EntryRecords ==
  [ip : Addresses \cup {None}, known : BOOLEAN, timer : 0..(UpdateRate + ExpirationRate),
   retries : 0..MaxRetries, interface : BOOLEAN, waiting : Seq(Packets)]

(* No entry is linked twice in q; x stands before y in q.                   *)
Once(q) == \A i, j \in 1..Len(q) : q[i] = q[j] => i = j
Before(q, x, y) == \E i, j \in 1..Len(q) : i < j /\ q[i] = x /\ q[j] = y

(* The lists and the ring agree, and the count is that of the entries that  *)
(* are active and dynamic.                                                  *)
Lists ==
  /\ dynamic \in Seq(Entries) /\ Once(dynamic)
  /\ ring \in Seq(Entries) /\ Once(ring)
  /\ static \subseteq Entries /\ ToSet(dynamic) = Entries \ static
  /\ static \subseteq ToSet(ring)
Counted == count = Cardinality(ToSet(ring) \ static)

(* What the fields of an active entry say: a static one has an address, a   *)
(* dynamic one an interface, and one that has no address a running timer.   *)
Fields ==
  /\ entry \in [Entries -> EntryRecords]
  /\ \A e \in Entries : Len(entry[e].waiting) <= MaxQueue
  /\ \A e \in ToSet(ring) :
       IF e \in static THEN entry[e].known
       ELSE entry[e].interface /\ (entry[e].known \/ entry[e].timer > 0)
OneEntryEach ==
  \A e, f \in ToSet(ring) :
    entry[e].ip = entry[f].ip /\ entry[e].ip \in Addresses => e = f

(* No active entry stands behind one that lost its interface with its timer *)
(* running: such entries lie behind all that the period will visit.         *)
Silent(e) == entry[e].interface \/ entry[e].timer = 0
LostBehind == \A x, y \in Entries : Before(dynamic, x, y) /\ Active(y) => Silent(x)

(* The period stands at one of the first entries, as many as it has passed. *)
WalkAt(w) ==
  /\ w \in [i : Nat, at : Entries] /\ w.i < count
  /\ \E p \in 1..Len(dynamic) : dynamic[p] = w.at /\ p <= w.i + 1
WalkWithin == walk = None \/ WalkAt(walk)

Cache ==
  /\ Lists /\ Counted /\ Fields /\ OneEntryEach /\ WaitsWhereAnswered /\ LostBehind
IInv == Cache /\ WalkWithin

-----------------------------------------------------------------------------
(* A set of numbers with 0, and with n + 1 when it has n, has them all: its *)
(* least missing number would be neither.                                   *)
LEMMA Induction ==
  ASSUME NEW S, 0 \in S, \A n \in Nat : n \in S => n + 1 \in S
  PROVE  Nat \subseteq S
<1> DEFINE T == Nat \ S
<1> SUFFICES ASSUME T # {} PROVE FALSE
  OBVIOUS
<1>1. PICK x \in T : \A y \in T : ~ (<<y, x>> \in OpToRel(<, Nat))
  <2> HIDE DEF T
  <2>1. T \subseteq Nat BY DEF T
  <2>2. IsWellFoundedOn(OpToRel(<,Nat), Nat) BY NatLessThanWellFounded
  <2> QED BY <2>1, <2>2, WFMin
<1>2. x # 0 /\ x \in Nat OBVIOUS
<1>3. x - 1 \in Nat /\ x - 1 < x BY <1>2
<1>4. x - 1 \notin T
  BY <1>1, <1>2, <1>3 DEF OpToRel
<1> QED BY <1>2, <1>3, <1>4

(* One entry of a walk that keeps those of S.                               *)
Onward(s, x, S) == IF x \in S THEN Append(s, x) ELSE s

(* The results f of its first n steps.                                      *)
Steps(f, q, S, n) == f = [m \in 0..n |-> IF m = 0 THEN <<>> ELSE Onward(f[m - 1], q[m], S)]

(* The walk has a result after each of its n steps.                         *)
LEMMA WalkExists ==
  ASSUME NEW q, NEW S, NEW n \in Nat
  PROVE  \E f : Steps(f, q, S, n)
<1> DEFINE Is(f, k) == f = [m \in 0..k |-> IF m = 0 THEN <<>> ELSE Onward(f[m - 1], q[m], S)]
           N == {k \in Nat : \E f : Is(f, k)}
<1>1. 0 \in N
  <2>1. Is([m \in 0..0 |-> <<>>], 0) OBVIOUS
  <2> QED BY <2>1
<1>2. ASSUME NEW k \in Nat, k \in N PROVE k + 1 \in N
  <2>1. PICK f : Is(f, k) BY <1>2
  <2> DEFINE g == [m \in 0..k + 1 |-> IF m <= k THEN f[m] ELSE Onward(f[k], q[k + 1], S)]
  <2>2. ASSUME NEW m \in 0..k + 1
        PROVE  g[m] = IF m = 0 THEN <<>> ELSE Onward(g[m - 1], q[m], S)
    <3>1. CASE m = 0
      <4>1. g[m] = f[0] /\ 0 \in 0..k BY <3>1
      <4>2. f[0] = <<>> BY <2>1, <4>1
      <4> QED BY <3>1, <4>1, <4>2
    <3>2. CASE m \in 1..k
      <4>1. g[m] = f[m] /\ g[m - 1] = f[m - 1] /\ m \in 0..k /\ m # 0 BY <3>2
      <4>2. f[m] = Onward(f[m - 1], q[m], S) BY <2>1, <4>1
      <4> QED BY <3>2, <4>1, <4>2
    <3>3. CASE m = k + 1
      <4>1. g[m] = Onward(f[k], q[m], S) /\ g[m - 1] = f[k] /\ m # 0 BY <3>3
      <4> QED BY <4>1
    <3> QED BY <3>1, <3>2, <3>3
  <2>3. Is(g, k + 1)
    <3>1. g = [m \in 0..k + 1 |-> g[m]] OBVIOUS
    <3> HIDE DEF g
    <3> QED BY <2>2, <3>1
  <2> HIDE DEF Is
  <2> QED BY <2>3
<1>3. Nat \subseteq N
  <2> HIDE DEF N
  <2> QED BY <1>1, <1>2, Induction
<1>4. PICK f : Is(f, n) BY <1>3
<1>5. Steps(f, q, S, n) BY <1>4 DEF Steps
<1> HIDE DEF Is
<1> QED BY <1>5

(* k has the entries of q up to m that are in S, in their order: h says     *)
(* where each stands in q.                                                  *)
Picks(k, q, m, S, h) ==
  /\ h \in [1..Len(k) -> 1..m]
  /\ \A i, j \in 1..Len(k) : i < j => h[i] < h[j]
  /\ \A i \in 1..Len(k) : k[i] = q[h[i]] /\ k[i] \in S
  /\ \A n \in 1..m : q[n] \in S => \E i \in 1..Len(k) : h[i] = n

(* What Kept leaves of q are those entries.                                 *)
LEMMA KeptPicks ==
  ASSUME NEW T, NEW q \in Seq(T), NEW S
  PROVE  Kept(q, S) \in Seq(T) /\ \E h : Picks(Kept(q, S), q, Len(q), S, h)
<1> DEFINE N == Len(q)
           Is(f) == f = [m \in 0..N |-> IF m = 0 THEN <<>> ELSE Onward(f[m - 1], q[m], S)]
           F == CHOOSE f : Is(f)
           Good(m) == F[m] \in Seq(T) /\ \E h : Picks(F[m], q, m, S, h)
           G == {m \in Nat : m <= N => Good(m)}
<1>1. N \in Nat OBVIOUS
<1>2. Kept(q, S) = F[N] BY Zenon DEF Kept, Onward
<1>3. Is(F)
  <2>1. PICK f : Steps(f, q, S, N)
    <3> HIDE DEF N, Is
    <3> QED BY <1>1, WalkExists
  <2>2. Is(f) BY <2>1 DEF Steps
  <2> QED BY <2>2, Zenon
<1> HIDE DEF F
<1>4. 0 \in G
  <2>1. F[0] = <<>> BY <1>1, <1>3
  <2>2. Picks(<<>>, q, 0, S, <<>>) BY DEF Picks
  <2>3. <<>> \in Seq(T) BY EmptySeq
  <2> QED BY <2>1, <2>2, <2>3
<1>5. ASSUME NEW m \in Nat, m \in G PROVE m + 1 \in G
  <2> SUFFICES ASSUME m + 1 <= N PROVE Good(m + 1)
    OBVIOUS
  <2> DEFINE s == F[m]
             x == q[m + 1]
             t == F[m + 1]
  <2>1. t = Onward(s, x, S)
    <3>1. m + 1 \in 0..N /\ m + 1 # 0 /\ (m + 1) - 1 = m BY <1>1
    <3> QED BY <1>3, <3>1
  <2>2. s \in Seq(T) /\ \E h : Picks(s, q, m, S, h)
    <3>1. m <= N BY <1>1
    <3> QED BY <1>5, <3>1
  <2>3. x \in T
    <3>1. m + 1 \in 1..Len(q) BY <1>1
    <3> QED BY <3>1, ElementOfSeq
  <2>4. PICK h : Picks(s, q, m, S, h) BY <2>2
  <2> DEFINE l == Len(s)
  <2>5. /\ l \in Nat /\ h \in [1..l -> 1..m]
        /\ \A i, j \in 1..l : i < j => h[i] < h[j]
        /\ \A i \in 1..l : s[i] = q[h[i]] /\ s[i] \in S
        /\ \A n \in 1..m : q[n] \in S => \E i \in 1..l : h[i] = n
    BY <2>2, <2>4 DEF Picks
  <2>6. CASE x \in S
    <3> DEFINE g == [i \in 1..l + 1 |-> IF i = l + 1 THEN m + 1 ELSE h[i]]
    <3>1. t = Append(s, x) BY <2>1, <2>6 DEF Onward
    <3>2. t \in Seq(T) /\ Len(t) = l + 1 /\ (\A i \in 1..l : t[i] = s[i]) /\ t[l + 1] = x
      BY <2>2, <2>3, <3>1, AppendProperties
    <3> HIDE DEF s, t, l
    <3>3. g \in [1..l + 1 -> 1..m + 1] BY <2>5
    <3>4. \A i, j \in 1..l + 1 : i < j => g[i] < g[j] BY <2>5
    <3>5. ASSUME NEW i \in 1..l + 1 PROVE t[i] = q[g[i]] /\ t[i] \in S
      <4>1. CASE i = l + 1 BY <2>6, <3>2, <4>1
      <4>2. CASE i # l + 1
        <5>1. i \in 1..l BY <2>5, <4>2
        <5> QED BY <2>5, <3>2, <4>2, <5>1
      <4> QED BY <4>1, <4>2
    <3>6. ASSUME NEW n \in 1..m + 1, q[n] \in S PROVE \E i \in 1..l + 1 : g[i] = n
      <4>1. CASE n = m + 1
        <5>1. l + 1 \in 1..l + 1 BY <2>5
        <5> QED BY <4>1, <5>1
      <4>2. CASE n # m + 1
        <5>1. n \in 1..m BY <4>2
        <5>2. PICK i \in 1..l : h[i] = n BY <2>5, <3>6, <5>1
        <5>3. i \in 1..l + 1 /\ i # l + 1 BY <2>5
        <5> QED BY <5>2, <5>3
      <4> QED BY <4>1, <4>2
    <3> HIDE DEF g
    <3>7. Picks(t, q, m + 1, S, g) BY <3>2, <3>3, <3>4, <3>5, <3>6 DEF Picks
    <3> QED BY <3>2, <3>7 DEF t
  <2>7. CASE x \notin S
    <3>1. t = s BY <2>1, <2>7 DEF Onward
    <3> HIDE DEF s, t, l
    <3>2. h \in [1..l -> 1..m + 1] BY <2>5
    <3>3. ASSUME NEW n \in 1..m + 1, q[n] \in S PROVE \E i \in 1..l : h[i] = n
      <4>1. n # m + 1 BY <2>7, <3>3
      <4>2. n \in 1..m BY <4>1
      <4> QED BY <2>5, <3>3, <4>2
    <3>4. Picks(s, q, m + 1, S, h) BY <2>5, <3>2, <3>3 DEF Picks, l
    <3> QED BY <2>2, <3>1, <3>4 DEF t
  <2> QED BY <2>6, <2>7
<1>6. Nat \subseteq G
  <2> HIDE DEF G
  <2> QED BY <1>4, <1>5, Induction
<1>7. Good(N)
  <2>1. N \in G /\ N <= N BY <1>1, <1>6
  <2> HIDE DEF Good, N
  <2> QED BY <2>1
<1> QED BY <1>2, <1>7

(* What is left of a list has its entries of S, each once if the list had,  *)
(* in their order.                                                          *)
LEMMA KeptIs ==
  ASSUME NEW T, NEW q \in Seq(T), NEW S
  PROVE  LET k == Kept(q, S)
         IN /\ k \in Seq(T) /\ ToSet(k) = ToSet(q) \cap S
            /\ Once(q) => Once(k)
            /\ \A x, y : Before(k, x, y) => Before(q, x, y)
<1> DEFINE k == Kept(q, S)
           n == Len(q)
           l == Len(k)
<1>1. k \in Seq(T) /\ \E h : Picks(k, q, n, S, h) BY KeptPicks
<1>2. PICK h : Picks(k, q, n, S, h) BY <1>1
<1>3. n \in Nat /\ l \in Nat /\ DOMAIN q = 1..n /\ DOMAIN k = 1..l BY <1>1
<1> HIDE DEF k, n, l
<1>4. /\ h \in [1..l -> 1..n]
      /\ \A i, j \in 1..l : i < j => h[i] < h[j]
      /\ \A i \in 1..l : k[i] = q[h[i]] /\ k[i] \in S
      /\ \A m \in 1..n : q[m] \in S => \E i \in 1..l : h[i] = m
  BY <1>2 DEF Picks, l
<1>5. ToSet(k) = ToSet(q) \cap S
  <2>1. ASSUME NEW x \in ToSet(k) PROVE x \in ToSet(q) \cap S
    <3>1. PICK i \in 1..l : k[i] = x BY <1>3, <2>1 DEF ToSet
    <3>2. h[i] \in 1..n /\ q[h[i]] = x /\ x \in S BY <1>4, <3>1
    <3> QED BY <1>3, <3>2 DEF ToSet
  <2>2. ASSUME NEW x \in ToSet(q), x \in S PROVE x \in ToSet(k)
    <3>1. PICK m \in 1..n : q[m] = x BY <1>3, <2>2 DEF ToSet
    <3>2. PICK i \in 1..l : h[i] = m BY <1>4, <2>2, <3>1
    <3>3. k[i] = x BY <1>4, <3>1, <3>2
    <3> QED BY <1>3, <3>3 DEF ToSet
  <2> QED BY <2>1, <2>2
<1>6. ASSUME Once(q) PROVE Once(k)
  <2> SUFFICES ASSUME NEW i \in 1..l, NEW j \in 1..l, k[i] = k[j] PROVE i = j
    BY DEF Once, l
  <2>1. q[h[i]] = q[h[j]] /\ h[i] \in 1..n /\ h[j] \in 1..n BY <1>4
  <2>2. h[i] = h[j] BY <1>6, <2>1 DEF Once, n
  <2>3. ~ (i < j) /\ ~ (j < i)
    <3>1. h[i] \in Int /\ h[j] \in Int BY <2>1
    <3> QED BY <1>4, <2>2, <3>1
  <2> QED BY <1>3, <2>3
<1>7. ASSUME NEW x, NEW y, Before(k, x, y) PROVE Before(q, x, y)
  <2>1. PICK i \in 1..l, j \in 1..l : i < j /\ k[i] = x /\ k[j] = y BY <1>7 DEF Before, l
  <2>2. h[i] \in 1..n /\ h[j] \in 1..n /\ h[i] < h[j] /\ q[h[i]] = x /\ q[h[j]] = y
    BY <1>4, <2>1
  <2> QED BY <2>2 DEF Before, n
<1> QED BY <1>1, <1>5, <1>6, <1>7 DEF k

(* An entry taken out of a list.                                            *)
LEMMA WithoutIs ==
  ASSUME NEW q \in Seq(Entries), NEW e
  PROVE  LET k == Without(q, e)
         IN /\ k \in Seq(Entries) /\ ToSet(k) = ToSet(q) \ {e}
            /\ Once(q) => Once(k)
            /\ \A x, y : Before(k, x, y) => Before(q, x, y)
<1> DEFINE k == Kept(q, Entries \ {e})
<1>1. /\ k \in Seq(Entries) /\ ToSet(k) = ToSet(q) \cap (Entries \ {e})
      /\ Once(q) => Once(k)
      /\ \A x, y : Before(k, x, y) => Before(q, x, y)
  BY KeptIs
<1>2. ToSet(q) \subseteq Entries
  <2> SUFFICES ASSUME NEW x \in ToSet(q) PROVE x \in Entries
    OBVIOUS
  <2>1. PICK i \in DOMAIN q : q[i] = x BY DEF ToSet
  <2>2. i \in 1..Len(q) OBVIOUS
  <2> QED BY <2>1, <2>2, ElementOfSeq
<1>3. Without(q, e) = k BY DEF Without
<1> HIDE DEF k
<1>4. ToSet(k) = ToSet(q) \ {e} BY <1>1, <1>2
<1> QED BY <1>1, <1>3, <1>4

(* An entry put at the end of a list.                                       *)
LEMMA AppendedIs ==
  ASSUME NEW T, NEW q \in Seq(T), NEW e \in T, e \notin ToSet(q)
  PROVE  LET k == Append(q, e)
         IN /\ k \in Seq(T) /\ ToSet(k) = ToSet(q) \cup {e}
            /\ Len(k) = Len(q) + 1 /\ k[Len(q) + 1] = e
            /\ Once(q) => Once(k)
            /\ \A x, y : Before(k, x, y) => Before(q, x, y) \/ y = e
<1> DEFINE k == Append(q, e)
           n == Len(q)
<1>1. k \in Seq(T) /\ Len(k) = n + 1 /\ (\A i \in 1..n : k[i] = q[i]) /\ k[n + 1] = e
  BY AppendProperties
<1>2. n \in Nat /\ DOMAIN q = 1..n /\ DOMAIN k = 1..n + 1 BY <1>1
<1>3. \A i \in 1..n : q[i] # e BY <1>2 DEF ToSet
<1> HIDE DEF k, n
<1>4. ToSet(k) = ToSet(q) \cup {e}
  <2>1. ASSUME NEW x \in ToSet(k) PROVE x \in ToSet(q) \cup {e}
    <3>1. PICK i \in 1..n + 1 : k[i] = x BY <1>2, <2>1 DEF ToSet
    <3>2. CASE i = n + 1 BY <1>1, <3>1, <3>2
    <3>3. CASE i # n + 1
      <4>1. i \in 1..n BY <1>2, <3>3
      <4> QED BY <1>1, <1>2, <3>1, <4>1 DEF ToSet
    <3> QED BY <3>2, <3>3
  <2>2. ASSUME NEW x \in ToSet(q) PROVE x \in ToSet(k)
    <3>1. PICK i \in 1..n : q[i] = x BY <1>2, <2>2 DEF ToSet
    <3>2. i \in 1..n + 1 /\ k[i] = x BY <1>1, <1>2, <3>1
    <3> QED BY <1>2, <3>2 DEF ToSet
  <2>3. e \in ToSet(k)
    <3>1. n + 1 \in 1..n + 1 BY <1>2
    <3> QED BY <1>1, <1>2, <3>1 DEF ToSet
  <2> QED BY <2>1, <2>2, <2>3
<1>5. ASSUME Once(q) PROVE Once(k)
  <2> SUFFICES ASSUME NEW i \in 1..n + 1, NEW j \in 1..n + 1, k[i] = k[j] PROVE i = j
    BY <1>1 DEF Once
  <2>1. i = n + 1 \/ i \in 1..n BY <1>2
  <2>2. j = n + 1 \/ j \in 1..n BY <1>2
  <2>3. \A a, b \in 1..n : q[a] = q[b] => a = b BY <1>5 DEF Once, n
  <2> QED BY <1>1, <1>3, <2>1, <2>2, <2>3
<1>6. ASSUME NEW x, NEW y, Before(k, x, y), y # e PROVE Before(q, x, y)
  <2>1. PICK i \in 1..n + 1, j \in 1..n + 1 : i < j /\ k[i] = x /\ k[j] = y
    BY <1>1, <1>6 DEF Before
  <2>2. j # n + 1 BY <1>1, <1>6, <2>1
  <2>3. i \in 1..n /\ j \in 1..n BY <1>2, <2>1, <2>2
  <2> QED BY <1>1, <2>1, <2>3 DEF Before, n
<1> QED BY <1>1, <1>4, <1>5, <1>6 DEF k, n

(* The last entry of a list taken off, and put before the others.           *)
LEMMA FrontAndLast ==
  ASSUME NEW q \in Seq(Entries), q # <<>>, Once(q)
  PROVE  LET e == Last(q)
             f == Front(q)
             m == <<e>> \o f
         IN /\ e \in ToSet(q) /\ e \in Entries
            /\ f \in Seq(Entries) /\ ToSet(f) = ToSet(q) \ {e} /\ Once(f)
            /\ \A x, y : Before(f, x, y) => Before(q, x, y)
            /\ m \in Seq(Entries) /\ ToSet(m) = ToSet(q) /\ Once(m)
            /\ \A x, y : Before(m, x, y) => y # e /\ (Before(q, x, y) \/ x = e)
<1> DEFINE n == Len(q)
           e == q[n]
           f == SubSeq(q, 1, n - 1)
           s == <<e>>
           m == s \o f
<1>1. n \in Nat /\ n > 0 /\ DOMAIN q = 1..n BY EmptySeq
<1>2. n \in 1..n BY <1>1
<1>3. e \in Entries /\ e \in ToSet(q)
  <2>1. e \in Entries BY <1>2, ElementOfSeq
  <2> QED BY <1>1, <1>2, <2>1 DEF ToSet
<1>4. f \in Seq(Entries) /\ Len(f) = n - 1 /\ \A i \in 1..n - 1 : f[i] = q[i]
  <2>1. \A i \in 1..n - 1 : q[i] \in Entries
    <3> SUFFICES ASSUME NEW i \in 1..n - 1 PROVE q[i] \in Entries
      OBVIOUS
    <3>1. i \in 1..Len(q) BY <1>1
    <3> QED BY <3>1, ElementOfSeq
  <2>2. n - 1 \in Int /\ 1 \in Int /\ (n - 1) - 1 + 1 = n - 1 BY <1>1
  <2>3. /\ f \in Seq(Entries) /\ Len(f) = IF 1 <= n - 1 THEN (n - 1) - 1 + 1 ELSE 0
        /\ \A i \in 1..(n - 1) - 1 + 1 : f[i] = q[1 + i - 1]
    BY <2>1, <2>2, SubSeqProperties
  <2>4. \A i \in 1..n - 1 : 1 + i - 1 = i OBVIOUS
  <2> HIDE DEF f, n
  <2>5. Len(f) = n - 1 BY <1>1, <2>3
  <2>6. \A i \in 1..n - 1 : f[i] = q[i] BY <2>2, <2>3, <2>4
  <2> QED BY <2>3, <2>5, <2>6
<1>5. s \in Seq(Entries) /\ Len(s) = 1 /\ s[1] = e BY <1>3
<1>6. /\ m \in Seq(Entries) /\ Len(m) = n /\ m[1] = e
      /\ \A i \in 2..n : m[i] = q[i - 1]
  <2> HIDE DEF s, f
  <2>1. /\ m \in Seq(Entries) /\ Len(m) = Len(s) + Len(f)
        /\ \A i \in 1..Len(s) + Len(f) : m[i] = IF i <= Len(s) THEN s[i] ELSE f[i - Len(s)]
    BY <1>4, <1>5, ConcatProperties
  <2> HIDE DEF m, n
  <2>2. Len(m) = n BY <1>1, <1>4, <1>5, <2>1
  <2>3. m[1] = e
    <3>1. 1 \in 1..Len(s) + Len(f) /\ 1 <= Len(s) BY <1>1, <1>4, <1>5
    <3> QED BY <1>5, <2>1, <3>1
  <2>4. ASSUME NEW i \in 2..n PROVE m[i] = q[i - 1]
    <3>1. i \in 1..Len(s) + Len(f) /\ ~ (i <= Len(s)) /\ i - Len(s) = i - 1 /\ i - 1 \in 1..n - 1
      BY <1>1, <1>4, <1>5
    <3> QED BY <1>4, <2>1, <3>1
  <2> QED BY <2>1, <2>2, <2>3, <2>4
<1>7. Last(q) = e /\ Front(q) = f /\ <<Last(q)>> \o Front(q) = m BY DEF Last, Front
<1>8. DOMAIN f = 1..n - 1 /\ DOMAIN m = 1..n BY <1>4, <1>6
<1>9. \A i, j \in 1..n : q[i] = q[j] => i = j BY DEF Once
<1> HIDE DEF n, e, f, s, m
<1>10. \A i \in 1..n - 1 : i \in 1..n /\ q[i] # e
  <2> SUFFICES ASSUME NEW i \in 1..n - 1 PROVE i \in 1..n /\ q[i] # e
    OBVIOUS
  <2>1. i \in 1..n /\ i # n BY <1>1
  <2> QED BY <1>2, <1>9, <2>1 DEF e
<1>11. ToSet(f) = ToSet(q) \ {e}
  <2>1. ASSUME NEW x \in ToSet(f) PROVE x \in ToSet(q) \ {e}
    <3>1. PICK i \in 1..n - 1 : f[i] = x BY <1>8, <2>1 DEF ToSet
    <3> QED BY <1>1, <1>4, <1>10, <3>1 DEF ToSet
  <2>2. ASSUME NEW x \in ToSet(q), x # e PROVE x \in ToSet(f)
    <3>1. PICK i \in 1..n : q[i] = x BY <1>1, <2>2 DEF ToSet
    <3>2. i # n BY <2>2, <3>1 DEF e
    <3>3. i \in 1..n - 1 BY <1>1, <3>2
    <3> QED BY <1>4, <1>8, <3>1, <3>3 DEF ToSet
  <2> QED BY <2>1, <2>2
<1>12. Once(f) BY <1>4, <1>9, <1>10 DEF Once
<1>13. ASSUME NEW x, NEW y, Before(f, x, y) PROVE Before(q, x, y)
  <2>1. PICK i \in 1..n - 1, j \in 1..n - 1 : i < j /\ f[i] = x /\ f[j] = y
    BY <1>4, <1>13 DEF Before
  <2> QED BY <1>4, <1>10, <2>1 DEF Before, n
<1>14. \A i \in 1..n : i = 1 \/ (i \in 2..n /\ i - 1 \in 1..n - 1 /\ m[i] = q[i - 1])
  <2> SUFFICES ASSUME NEW i \in 1..n, i # 1 PROVE i \in 2..n /\ i - 1 \in 1..n - 1
    BY <1>6
  <2> QED BY <1>1
<1>15. ToSet(m) = ToSet(q)
  <2>1. ASSUME NEW x \in ToSet(m) PROVE x \in ToSet(q)
    <3>1. PICK i \in 1..n : m[i] = x BY <1>8, <2>1 DEF ToSet
    <3>2. CASE i = 1 BY <1>3, <1>6, <3>1, <3>2
    <3>3. CASE i # 1
      <4>1. i - 1 \in 1..n /\ q[i - 1] = x BY <1>10, <1>14, <3>1, <3>3
      <4> QED BY <1>1, <4>1 DEF ToSet
    <3> QED BY <3>2, <3>3
  <2>2. ASSUME NEW x \in ToSet(q) PROVE x \in ToSet(m)
    <3>1. PICK i \in 1..n : q[i] = x BY <1>1, <2>2 DEF ToSet
    <3>2. CASE i = n
      <4>1. 1 \in 1..n /\ m[1] = x BY <1>1, <1>6, <3>1, <3>2 DEF e
      <4> QED BY <1>8, <4>1 DEF ToSet
    <3>3. CASE i # n
      <4>1. i + 1 \in 2..n /\ i + 1 \in 1..n /\ (i + 1) - 1 = i BY <1>1, <3>3
      <4>2. m[i + 1] = x BY <1>6, <3>1, <4>1
      <4> QED BY <1>8, <4>1, <4>2 DEF ToSet
    <3> QED BY <3>2, <3>3
  <2> QED BY <2>1, <2>2
<1>16. Once(m)
  <2> SUFFICES ASSUME NEW i \in 1..n, NEW j \in 1..n, m[i] = m[j] PROVE i = j
    BY <1>6 DEF Once
  <2>1. CASE i = 1 /\ j = 1 BY <2>1
  <2>2. CASE i = 1 /\ j # 1 BY <1>6, <1>10, <1>14, <2>2
  <2>3. CASE i # 1 /\ j = 1 BY <1>6, <1>10, <1>14, <2>3
  <2>4. CASE i # 1 /\ j # 1
    <3>1. i - 1 \in 1..n /\ j - 1 \in 1..n /\ q[i - 1] = q[j - 1] BY <1>10, <1>14, <2>4
    <3>2. i - 1 = j - 1 BY <1>9, <3>1
    <3> QED BY <3>2
  <2> QED BY <2>1, <2>2, <2>3, <2>4
<1>17. ASSUME NEW x, NEW y, Before(m, x, y), x # e PROVE Before(q, x, y)
  <2>1. PICK i \in 1..n, j \in 1..n : i < j /\ m[i] = x /\ m[j] = y
    BY <1>6, <1>17 DEF Before
  <2>2. i # 1 /\ j # 1 BY <1>6, <1>17, <2>1
  <2>3. i - 1 \in 1..n /\ j - 1 \in 1..n /\ q[i - 1] = x /\ q[j - 1] = y /\ i - 1 < j - 1
    BY <1>10, <1>14, <2>1, <2>2
  <2> QED BY <2>3 DEF Before, n
<1>18. ASSUME NEW x, NEW y, Before(m, x, y) PROVE y # e
  <2>1. PICK i \in 1..n, j \in 1..n : i < j /\ m[i] = x /\ m[j] = y
    BY <1>6, <1>18 DEF Before
  <2>2. 1 \in 1..n BY <1>1
  <2>3. y = e => j = 1 BY <1>6, <1>16, <2>1, <2>2 DEF Once
  <2> QED BY <2>1, <2>3
<1> QED BY <1>3, <1>4, <1>6, <1>7, <1>11, <1>12, <1>13, <1>15, <1>16, <1>17, <1>18, Zenon

(* The places of a list and the set of its entries.                         *)
LEMMA Places ==
  ASSUME NEW T, NEW q \in Seq(T)
  PROVE  /\ Len(q) \in Nat /\ DOMAIN q = 1..Len(q)
         /\ \A i \in 1..Len(q) : q[i] \in ToSet(q)
         /\ \A x \in ToSet(q) : x \in T /\ \E i \in 1..Len(q) : q[i] = x
         /\ \A x, y : Before(q, x, y) => x \in ToSet(q) /\ y \in ToSet(q)
<1>1. Len(q) \in Nat /\ DOMAIN q = 1..Len(q)
  OBVIOUS
<1>2. \A i \in 1..Len(q) : q[i] \in T
  BY ElementOfSeq
<1>3. \A i \in 1..Len(q) : q[i] \in ToSet(q)
  BY <1>1 DEF ToSet
<1>4. \A x \in ToSet(q) : x \in T /\ \E i \in 1..Len(q) : q[i] = x
  BY <1>1, <1>2 DEF ToSet
<1> QED BY <1>1, <1>3, <1>4 DEF Before

(* A list turned round so that another entry is its head.                   *)
LEMMA RotatedIs ==
  ASSUME NEW T, NEW q \in Seq(T), NEW n \in 1..Len(q)
  PROVE  LET r == SubSeq(q, n, Len(q)) \o SubSeq(q, 1, n - 1)
         IN r \in Seq(T) /\ ToSet(r) = ToSet(q) /\ (Once(q) => Once(r))
<1> DEFINE N == Len(q)
           f == SubSeq(q, n, N)
           g == SubSeq(q, 1, n - 1)
           r == f \o g
           l == N - n + 1
<1>1. N \in Nat /\ DOMAIN q = 1..N /\ n \in 1..N
  OBVIOUS
<1>2. \A i \in 1..N : q[i] \in T
  BY ElementOfSeq
<1> HIDE DEF N
<1>3. l \in 1..N /\ n - 1 \in 0..N - 1 /\ l + (n - 1) = N
  BY <1>1
<1>4. f \in Seq(T) /\ Len(f) = l /\ \A i \in 1..l : f[i] = q[n + i - 1]
  <2>1. n \in Int /\ N \in Int /\ n <= N /\ \A i \in n..N : q[i] \in T BY <1>1, <1>2
  <2>2. /\ f \in Seq(T) /\ Len(f) = IF n <= N THEN N - n + 1 ELSE 0
        /\ \A i \in 1..N - n + 1 : f[i] = q[n + i - 1]
    BY <2>1, SubSeqProperties
  <2> QED BY <2>1, <2>2
<1>5. g \in Seq(T) /\ Len(g) = n - 1 /\ \A i \in 1..n - 1 : g[i] = q[i]
  <2>1. 1 \in Int /\ n - 1 \in Int /\ \A i \in 1..n - 1 : q[i] \in T BY <1>1, <1>2
  <2>2. /\ g \in Seq(T) /\ Len(g) = IF 1 <= n - 1 THEN (n - 1) - 1 + 1 ELSE 0
        /\ \A i \in 1..(n - 1) - 1 + 1 : g[i] = q[1 + i - 1]
    BY <2>1, SubSeqProperties
  <2>3. (n - 1) - 1 + 1 = n - 1 /\ \A i \in 1..n - 1 : 1 + i - 1 = i BY <1>1
  <2> HIDE DEF g
  <2>4. Len(g) = n - 1 BY <1>1, <2>2
  <2>5. \A i \in 1..n - 1 : g[i] = q[i] BY <2>2, <2>3
  <2> QED BY <2>2, <2>4, <2>5
<1> HIDE DEF f, g
<1>6. /\ r \in Seq(T) /\ Len(r) = Len(f) + Len(g)
      /\ \A i \in 1..Len(f) + Len(g) : r[i] = IF i <= Len(f) THEN f[i] ELSE g[i - Len(f)]
  BY <1>4, <1>5, ConcatProperties
<1> DEFINE h(i) == IF i <= l THEN n + i - 1 ELSE i - l
<1> HIDE DEF r
<1>7. Len(r) = N /\ DOMAIN r = 1..N
  <2>1. Len(r) = N BY <1>3, <1>4, <1>5, <1>6
  <2> QED BY <1>6, <2>1
<1>8. ASSUME NEW i \in 1..N PROVE h(i) \in 1..N /\ r[i] = q[h(i)]
  <2>1. CASE i <= l
    <3>1. i \in 1..l /\ n + i - 1 \in 1..N BY <1>1, <1>3, <2>1
    <3>2. r[i] = f[i] BY <1>4, <1>5, <1>6, <1>3, <2>1
    <3> QED BY <1>4, <2>1, <3>1, <3>2
  <2>2. CASE ~ (i <= l)
    <3>1. i - l \in 1..n - 1 /\ i - l \in 1..N BY <1>1, <1>3, <2>2
    <3>2. r[i] = g[i - l] BY <1>4, <1>5, <1>6, <1>3, <2>2
    <3> QED BY <1>5, <2>2, <3>1, <3>2
  <2> QED BY <2>1, <2>2
<1>9. \A i, j \in 1..N : h(i) = h(j) => i = j
  BY <1>1, <1>3
<1>10. \A m \in 1..N : \E i \in 1..N : h(i) = m
  <2> SUFFICES ASSUME NEW m \in 1..N PROVE \E i \in 1..N : h(i) = m
    OBVIOUS
  <2>1. CASE m >= n
    <3>1. m - n + 1 \in 1..N /\ m - n + 1 <= l /\ n + (m - n + 1) - 1 = m BY <1>1, <1>3, <2>1
    <3> QED BY <3>1
  <2>2. CASE m < n
    <3>1. m + l \in 1..N /\ ~ (m + l <= l) /\ (m + l) - l = m BY <1>1, <1>3, <2>2
    <3> QED BY <3>1
  <2> QED BY <1>1, <2>1, <2>2
<1> HIDE DEF h, l
<1>11. ToSet(r) = ToSet(q)
  <2>1. ASSUME NEW x \in ToSet(r) PROVE x \in ToSet(q)
    <3>1. PICK i \in 1..N : r[i] = x BY <1>7, <2>1 DEF ToSet
    <3> QED BY <1>1, <1>8, <3>1 DEF ToSet
  <2>2. ASSUME NEW x \in ToSet(q) PROVE x \in ToSet(r)
    <3>1. PICK m \in 1..N : q[m] = x BY <1>1, <2>2 DEF ToSet
    <3>2. PICK i \in 1..N : h(i) = m BY <1>10, <3>1
    <3> QED BY <1>7, <1>8, <3>1, <3>2 DEF ToSet
  <2> QED BY <2>1, <2>2
<1>12. ASSUME Once(q) PROVE Once(r)
  <2> SUFFICES ASSUME NEW i \in 1..N, NEW j \in 1..N, r[i] = r[j] PROVE i = j
    BY <1>7 DEF Once
  <2>1. q[h(i)] = q[h(j)] /\ h(i) \in 1..N /\ h(j) \in 1..N BY <1>8
  <2>2. h(i) = h(j) BY <1>12, <2>1 DEF Once, N
  <2> QED BY <1>9, <2>2
<1> QED BY <1>6, <1>11, <1>12 DEF r, f, g, N

(* The entry behind another one in a circular list.                         *)
LEMMA BehindIs ==
  ASSUME NEW q \in Seq(Entries), Once(q), NEW p \in 1..Len(q)
  PROVE  Behind(q, q[p]) = IF p = Len(q) THEN q[1] ELSE q[p + 1]
<1>1. (CHOOSE m \in 1..Len(q) : q[m] = q[p]) = p
  BY DEF Once
<1> QED BY <1>1 DEF Behind

(* A list has as many places as entries.                                    *)
LEMMA OnceCount ==
  ASSUME NEW T, NEW q \in Seq(T), Once(q)
  PROVE  IsFiniteSet(ToSet(q)) /\ Cardinality(ToSet(q)) = Len(q)
<1> DEFINE n == Len(q)
           D == 1..n
           A == ToSet(q)
<1>1. n \in Nat /\ DOMAIN q = D
  OBVIOUS
<1>2. q \in [D -> A]
  <2>1. \A i \in D : q[i] \in A BY <1>1, Places
  <2>2. q \in [1..Len(q) -> T] OBVIOUS
  <2> HIDE DEF A
  <2> QED BY <2>1, <2>2
<1>3. \A x \in A : \E i \in D : q[i] = x
  BY Places
<1>4. q \in Surjection(D, A)
  BY <1>2, <1>3 DEF Surjection
<1>5. q \in Injection(D, A)
  BY <1>1, <1>2 DEF Injection, IsInjective, Once
<1>6. ExistsBijection(D, A)
  BY <1>4, <1>5 DEF ExistsBijection, Bijection
<1>7. IsFiniteSet(D) /\ Cardinality(D) = n
  <2>1. 1 \in Int /\ n \in Int BY <1>1
  <2> HIDE DEF n
  <2> QED BY <1>1, <2>1, FS_Interval
<1> QED BY <1>6, <1>7, FS_Bijection

-----------------------------------------------------------------------------
(* What the assumption says of each rate and bound.                         *)
LEMMA Rates ==
  ASSUME ArpAssumption
  PROVE  /\ IsFiniteSet(Entries) /\ None \notin Addresses
         /\ UpdateRate \in Nat /\ UpdateRate > 0 /\ MaxQueue \in Nat /\ MaxQueue > 0
         /\ ExpirationRate \in Nat /\ MaxRetries \in Nat
<1>1. UpdateRate \in Nat \ {0} /\ MaxQueue \in Nat \ {0}
  BY DEF ArpAssumption
<1>2. ExpirationRate \in Nat /\ MaxRetries \in Nat
  BY DEF ArpAssumption
<1>3. UpdateRate > 0 /\ MaxQueue > 0 /\ UpdateRate \in Nat /\ MaxQueue \in Nat
  BY <1>1
<1>4. IsFiniteSet(Entries) /\ None \notin Addresses
  BY DEF ArpAssumption
<1> QED BY <1>2, <1>3, <1>4

(* The active entries and the dynamic ones, as sets.                        *)
LEMMA Sets ==
  ASSUME ArpAssumption, Lists
  PROVE  /\ ToSet(ring) \subseteq Entries /\ ToSet(dynamic) \subseteq Entries
         /\ static \cap ToSet(dynamic) = {}
         /\ IsFiniteSet(ToSet(ring) \ static)
         /\ Cardinality(ToSet(ring) \ static) \in Nat
         /\ Cardinality(ToSet(ring) \ static) <= Cardinality(Entries)
         /\ Cardinality(Entries) \in Nat
<1> DEFINE A == ToSet(ring)
           D == ToSet(dynamic)
<1>1. A \subseteq Entries /\ D \subseteq Entries /\ static \cap D = {}
  <2>1. ring \in Seq(Entries) /\ D = Entries \ static BY DEF Lists
  <2>2. \A x \in A : x \in Entries BY <2>1, Places
  <2> QED BY <2>1, <2>2
<1> HIDE DEF A, D
<1>2. A \ static \in SUBSET Entries
  BY <1>1
<1>3. IsFiniteSet(Entries)
  BY Rates
<1>4. IsFiniteSet(A \ static) /\ Cardinality(A \ static) <= Cardinality(Entries)
  BY <1>2, <1>3, FS_Subset
<1>5. Cardinality(A \ static) \in Nat /\ Cardinality(Entries) \in Nat
  BY <1>3, <1>4, FS_CardinalityType
<1> QED BY <1>1, <1>4, <1>5 DEF A, D

(* A sequence that has no packet twice.                                     *)
LEMMA OnceInjective ==
  ASSUME NEW T, NEW q \in Seq(T)
  PROVE  Once(q) <=> IsInjective(q)
<1>1. DOMAIN q = 1..Len(q)
  OBVIOUS
<1> QED BY <1>1 DEF Once, IsInjective

(* A step that fills in entry e again and leaves every other entry where it *)
(* was, if what it fills in is right for the place it gives to e.           *)
LEMMA OneRecord ==
  ASSUME ArpAssumption, Lists, Fields, OneEntryEach, WaitsWhereAnswered,
         NEW e \in Entries, NEW r \in EntryRecords, Len(r.waiting) <= MaxQueue,
         entry' = [entry EXCEPT ![e] = r],
         ToSet(ring') \ {e} = ToSet(ring) \ {e}, static' \ {e} = static \ {e},
         ToSet(ring') \subseteq Entries,
         e \in ToSet(ring') =>
           /\ IF e \in static' THEN r.known ELSE r.interface /\ (r.known \/ r.timer > 0)
           /\ r.ip \in Addresses => Found(r.ip) \subseteq {e},
         r.waiting # <<>> =>
           /\ e \in ToSet(ring') /\ e \notin static' /\ ~ r.known /\ r.timer > 0
           /\ IsInjective(r.waiting)
           /\ ToSet(r.waiting) \cap Waiting \subseteq ToSet(entry[e].waiting)
  PROVE  Fields' /\ OneEntryEach' /\ WaitsWhereAnswered'
<1> DEFINE A == ToSet(ring)
           B == ToSet(ring')
<1>1. entry \in [Entries -> EntryRecords]
  BY DEF Fields
<1>2. entry' \in [Entries -> EntryRecords] /\ entry'[e] = r
      /\ \A f \in Entries \ {e} : entry'[f] = entry[f]
  BY <1>1
<1>3. \A f \in Entries \ {e} : (f \in B <=> f \in A) /\ (f \in static' <=> f \in static)
  OBVIOUS
<1>4. Fields'
  <2>1. ASSUME NEW f \in Entries PROVE Len(entry'[f].waiting) <= MaxQueue
    <3>1. CASE f = e BY <1>2, <3>1
    <3>2. CASE f # e
      <4>1. entry'[f] = entry[f] BY <1>2, <3>2
      <4> QED BY <4>1 DEF Fields
    <3> QED BY <3>1, <3>2
  <2>2. ASSUME NEW f \in B
        PROVE  IF f \in static' THEN entry'[f].known
               ELSE entry'[f].interface /\ (entry'[f].known \/ entry'[f].timer > 0)
    <3>1. CASE f = e BY <1>2, <2>2, <3>1
    <3>2. CASE f # e
      <4>1. f \in Entries \ {e} BY <2>2, <3>2
      <4>2. entry'[f] = entry[f] /\ f \in A /\ (f \in static' <=> f \in static)
        BY <1>2, <1>3, <2>2, <4>1
      <4>3. IF f \in static THEN entry[f].known
            ELSE entry[f].interface /\ (entry[f].known \/ entry[f].timer > 0)
        BY <4>2 DEF Fields
      <4> QED BY <4>2, <4>3, Zenon
    <3> QED BY <3>1, <3>2
  <2> QED BY <1>2, <2>1, <2>2 DEF Fields
<1>5. OneEntryEach'
  <2> SUFFICES ASSUME NEW f \in B, NEW g \in B, entry'[f].ip = entry'[g].ip,
                      entry'[f].ip \in Addresses
               PROVE  f = g
    BY DEF OneEntryEach
  <2>1. f \in Entries /\ g \in Entries OBVIOUS
  <2>2. CASE f = e /\ g # e
    <3>1. g \in A /\ entry[g].ip = r.ip BY <1>2, <1>3, <2>1, <2>2
    <3>2. g \in Found(r.ip) BY <3>1 DEF Found
    <3>3. Found(r.ip) \subseteq {e} BY <1>2, <2>2
    <3> QED BY <2>2, <3>2, <3>3
  <2>3. CASE g = e /\ f # e
    <3>1. f \in A /\ entry[f].ip = r.ip BY <1>2, <1>3, <2>1, <2>3
    <3>2. f \in Found(r.ip) BY <3>1 DEF Found
    <3>3. Found(r.ip) \subseteq {e} BY <1>2, <2>3
    <3> QED BY <2>3, <3>2, <3>3
  <2>4. CASE f # e /\ g # e
    <3>1. f \in A /\ g \in A /\ entry[f].ip = entry[g].ip /\ entry[f].ip \in Addresses
      BY <1>2, <1>3, <2>1, <2>4
    <3> QED BY <3>1 DEF OneEntryEach
  <2> QED BY <2>2, <2>3, <2>4
<1>6. WaitsWhereAnswered'
  <2> DEFINE w(f) == ToSet(entry[f].waiting)
             v(f) == ToSet(entry'[f].waiting)
  <2>1. \A f \in Entries : w(f) \subseteq Waiting BY DEF Waiting
  <2>2. v(e) \cap Waiting \subseteq w(e) \/ r.waiting = <<>> BY <1>2
  <2>3. \A f \in Entries \ {e} : v(f) = w(f) BY <1>2
  <2>4. ToSet(<<>>) = {} BY DEF ToSet
  <2>5. \A f \in Entries : entry[f].waiting = <<>> => w(f) = {} BY <2>4
  <2>6. \A f, g \in Entries : f # g => w(f) \cap w(g) = {}
    <3> SUFFICES ASSUME NEW f \in Entries, NEW g \in Entries, f # g PROVE w(f) \cap w(g) = {}
      OBVIOUS
    <3>1. CASE entry[f].waiting = <<>> BY <2>5, <3>1
    <3>2. CASE entry[f].waiting # <<>>
      <4>1. \A h \in Entries \ {f} : ToSet(entry[h].waiting) \cap ToSet(entry[f].waiting) = {}
        BY <3>2 DEF WaitsWhereAnswered
      <4> QED BY <4>1
    <3> QED BY <3>1, <3>2
  <2>7. v(e) \cap Waiting \subseteq w(e) BY <1>2, <2>2, <2>4
  <2> HIDE DEF v, w
  <2>8. \A f, g \in Entries : f # g => v(f) \cap v(g) = {}
    <3> SUFFICES ASSUME NEW f \in Entries, NEW g \in Entries, f # g PROVE v(f) \cap v(g) = {}
      OBVIOUS
    <3>1. CASE f = e BY <2>1, <2>3, <2>6, <2>7, <3>1
    <3>2. CASE g = e BY <2>1, <2>3, <2>6, <2>7, <3>2
    <3>3. CASE f # e /\ g # e BY <2>3, <2>6, <3>3
    <3> QED BY <3>1, <3>2, <3>3
  <2> SUFFICES ASSUME NEW f \in Entries, entry'[f].waiting # <<>>
               PROVE  /\ f \in B /\ f \notin static' /\ ~ entry'[f].known /\ entry'[f].timer > 0
                      /\ \A g \in Entries \ {f} : v(g) \cap v(f) = {}
                      /\ IsInjective(entry'[f].waiting)
    BY DEF WaitsWhereAnswered, Active, v
  <2>9. \A g \in Entries \ {f} : v(g) \cap v(f) = {} BY <2>8
  <2>10. CASE f = e BY <1>2, <2>9, <2>10
  <2>11. CASE f # e
    <3>1. entry'[f] = entry[f] BY <1>2, <2>11
    <3>2. f \in A /\ f \notin static /\ ~ entry[f].known /\ entry[f].timer > 0
          /\ IsInjective(entry[f].waiting)
      BY <3>1 DEF WaitsWhereAnswered, Active
    <3> QED BY <1>3, <2>9, <2>11, <3>1, <3>2
  <2> QED BY <2>10, <2>11
<1> QED BY <1>4, <1>5, <1>6

(* Such a step puts no active entry behind one that lost its interface.     *)
LEMMA OneMoved ==
  ASSUME Fields, LostBehind, NEW e \in Entries, NEW r \in EntryRecords,
         entry' = [entry EXCEPT ![e] = r],
         Silent(e) => r.interface \/ r.timer = 0,
         \A x, y \in Entries : Before(dynamic', x, y) /\ y \in ToSet(ring') =>
           (Before(dynamic, x, y) /\ y \in ToSet(ring)) \/ (x = e /\ (r.interface \/ r.timer = 0))
  PROVE  LostBehind'
<1> SUFFICES ASSUME NEW x \in Entries, NEW y \in Entries,
                    Before(dynamic', x, y), y \in ToSet(ring')
             PROVE  entry'[x].interface \/ entry'[x].timer = 0
  BY DEF LostBehind, Active, Silent
<1>1. entry \in [Entries -> EntryRecords]
  BY DEF Fields
<1>2. entry'[e] = r /\ (x # e => entry'[x] = entry[x])
  BY <1>1
<1>3. CASE x = e /\ (r.interface \/ r.timer = 0)
  BY <1>2, <1>3
<1>4. CASE Before(dynamic, x, y) /\ y \in ToSet(ring)
  <2>1. Silent(x) BY <1>4 DEF LostBehind, Active
  <2>2. CASE x = e BY <1>2, <2>1, <2>2
  <2>3. CASE x # e BY <1>2, <2>1, <2>3 DEF Silent
  <2> QED BY <2>2, <2>3
<1> QED BY <1>3, <1>4

(* The ring when entry e is unlinked, and when it is put at its end.        *)
LEMMA RingDrop ==
  ASSUME Lists, NEW e \in Entries, ring' = Without(ring, e)
  PROVE  ring' \in Seq(Entries) /\ Once(ring') /\ ToSet(ring') = ToSet(ring) \ {e}
<1>1. ring \in Seq(Entries) /\ Once(ring)
  BY DEF Lists
<1> QED BY <1>1, WithoutIs

LEMMA RingMove ==
  ASSUME Lists, NEW e \in Entries, ring' = Append(Without(ring, e), e)
  PROVE  ring' \in Seq(Entries) /\ Once(ring') /\ ToSet(ring') = ToSet(ring) \cup {e}
<1> DEFINE k == Without(ring, e)
<1>1. ring \in Seq(Entries) /\ Once(ring)
  BY DEF Lists
<1>2. k \in Seq(Entries) /\ Once(k) /\ ToSet(k) = ToSet(ring) \ {e}
  BY <1>1, WithoutIs
<1> HIDE DEF k
<1>3. e \notin ToSet(k)
  BY <1>2
<1>4. /\ Append(k, e) \in Seq(Entries) /\ ToSet(Append(k, e)) = ToSet(k) \cup {e}
      /\ Once(Append(k, e))
  BY <1>2, <1>3, AppendedIs
<1> QED BY <1>2, <1>4 DEF k

(* _nx_arp_entry_allocate, when the address has no entry and the packets    *)
(* that are to wait there wait nowhere else.                                *)
LEMMA AllocateKeeps ==
  ASSUME ArpAssumption, Cache, NEW r \in EntryRecords, Allocate(r),
         r.interface, r.known \/ r.timer > 0, Len(r.waiting) <= MaxQueue,
         r.ip \in Addresses, Found(r.ip) = {},
         r.waiting # <<>> =>
           /\ ~ r.known /\ r.timer > 0 /\ IsInjective(r.waiting)
           /\ ToSet(r.waiting) \cap Waiting = {}
  PROVE  Cache'
<1> DEFINE e == Last(dynamic)
           A == ToSet(ring)
           B == ToSet(ring')
           m == <<e>> \o Front(dynamic)
<1>1. Lists /\ Counted /\ Fields /\ OneEntryEach /\ WaitsWhereAnswered /\ LostBehind
  BY DEF Cache
<1>2. /\ dynamic # <<>> /\ ring' = Append(Without(ring, e), e) /\ dynamic' = m
      /\ count' = (IF e \in A THEN count ELSE count + 1)
      /\ entry' = [entry EXCEPT ![e] = r] /\ static' = static
  BY DEF Allocate, Active
<1>3. dynamic \in Seq(Entries) /\ Once(dynamic)
  BY <1>1 DEF Lists
<1>4. /\ e \in ToSet(dynamic) /\ e \in Entries
      /\ m \in Seq(Entries) /\ ToSet(m) = ToSet(dynamic) /\ Once(m)
      /\ \A x, y : Before(m, x, y) => y # e /\ (Before(dynamic, x, y) \/ x = e)
  BY <1>2, <1>3, FrontAndLast
<1> HIDE DEF e, m
<1>5. ring' \in Seq(Entries) /\ Once(ring') /\ B = A \cup {e}
  BY <1>1, <1>2, <1>4, RingMove
<1>6. /\ A \subseteq Entries /\ static \cap ToSet(dynamic) = {}
      /\ IsFiniteSet(A \ static) /\ Cardinality(A \ static) \in Nat
  BY <1>1, Sets
<1> HIDE DEF A, B
<1>7. e \notin static /\ B \ {e} = A \ {e} /\ B \subseteq Entries
  BY <1>4, <1>5, <1>6
<1>8. Lists'
  <2>1. static \subseteq Entries /\ ToSet(dynamic) = Entries \ static /\ static \subseteq A
    BY <1>1 DEF Lists, A
  <2> QED BY <1>2, <1>4, <1>5, <2>1 DEF Lists, B
<1>9. Counted'
  <2>1. count = Cardinality(A \ static) BY <1>1 DEF Counted, A
  <2>2. B \ static = (A \ static) \cup {e} BY <1>5, <1>7
  <2>3. Cardinality(B \ static) = IF e \in A \ static THEN count ELSE count + 1
    BY <1>6, <2>1, <2>2, FS_AddElement
  <2> QED BY <1>2, <1>7, <2>3 DEF Counted, B
<1>10. Fields' /\ OneEntryEach' /\ WaitsWhereAnswered'
  <2>1. Found(r.ip) \subseteq {e} OBVIOUS
  <2>2. ToSet(r.waiting) \cap Waiting \subseteq ToSet(entry[e].waiting) \/ r.waiting = <<>> OBVIOUS
  <2>3. e \in B BY <1>5
  <2> QED BY <1>1, <1>2, <1>4, <1>7, <2>1, <2>2, <2>3, OneRecord DEF A, B
<1>11. LostBehind'
  <2>1. \A x, y \in Entries : Before(dynamic', x, y) /\ y \in B =>
          (Before(dynamic, x, y) /\ y \in A) \/ (x = e /\ (r.interface \/ r.timer = 0))
    BY <1>2, <1>4, <1>5
  <2> QED BY <1>1, <1>2, <1>4, <2>1, OneMoved DEF A, B
<1> QED BY <1>8, <1>9, <1>10, <1>11 DEF Cache

(* A step that leaves lists and count alone and fills in an active dynamic  *)
(* entry again, with its address.                                           *)
LEMMA RefillKeeps ==
  ASSUME ArpAssumption, Cache, NEW e \in ToSet(ring) \ static, NEW r \in EntryRecords,
         entry' = [entry EXCEPT ![e] = r], UNCHANGED <<dynamic, static, ring, count>>,
         r.ip = entry[e].ip, r.interface, r.known \/ r.timer > 0, Len(r.waiting) <= MaxQueue,
         r.waiting # <<>> =>
           /\ ~ r.known /\ IsInjective(r.waiting)
           /\ ToSet(r.waiting) \cap Waiting \subseteq ToSet(entry[e].waiting)
  PROVE  Cache'
<1>1. Lists /\ Counted /\ Fields /\ OneEntryEach /\ WaitsWhereAnswered /\ LostBehind
  BY DEF Cache
<1>2. ToSet(ring) \subseteq Entries /\ e \in Entries
  BY <1>1, Sets
<1>3. Lists' /\ Counted'
  BY <1>1 DEF Lists, Counted
<1>4. Fields' /\ OneEntryEach' /\ WaitsWhereAnswered'
  <2>1. r.ip \in Addresses => Found(r.ip) \subseteq {e}
    BY <1>1 DEF OneEntryEach, Found
  <2> QED BY <1>1, <1>2, <2>1, OneRecord
<1>5. LostBehind'
  BY <1>1, <1>2, OneMoved
<1> QED BY <1>3, <1>4, <1>5 DEF Cache

-----------------------------------------------------------------------------
(* What the actions fill in.                                                *)
Asked(a, w) == Filled(a, FALSE, UpdateRate, w)
Answered(a) == Filled(a, TRUE, ExpirationRate, <<>>)
LEMMA FilledIs ==
  ASSUME ArpAssumption, NEW a \in Addresses, NEW w \in Seq(Packets)
  PROVE  /\ LET r == Asked(a, w)
            IN /\ r \in EntryRecords /\ r.ip = a /\ ~ r.known /\ r.timer = UpdateRate
               /\ r.interface /\ r.waiting = w
         /\ LET r == Answered(a)
            IN /\ r \in EntryRecords /\ r.ip = a /\ r.known
               /\ r.interface /\ r.waiting = <<>>
<1>1. UpdateRate \in Nat /\ ExpirationRate \in Nat /\ MaxRetries \in Nat
  BY Rates
<1>2. {UpdateRate, ExpirationRate} \subseteq 0..(UpdateRate + ExpirationRate) /\ 0 \in 0..MaxRetries
  BY <1>1
<1>3. <<>> \in Seq(Packets)
  BY EmptySeq
<1> QED BY <1>2, <1>3 DEF Asked, Answered, Filled, EntryRecords

LEMMA NothingWaits ==
  /\ <<>> \in Seq(Packets) /\ Len(<<>>) = 0 /\ ToSet(<<>>) = {}
<1> QED BY EmptySeq DEF ToSet

(* To a known address: only the ring turns.                                 *)
LEMMA SendKnownKeeps ==
  ASSUME ArpAssumption, Cache, NEW a, SendKnown(a)
  PROVE  Cache'
<1>1. Lists /\ Counted /\ Fields /\ OneEntryEach /\ WaitsWhereAnswered /\ LostBehind
  BY DEF Cache
<1>2. PICK e \in Found(a) :
        ring' = Rotated(e) /\ UNCHANGED <<dynamic, static, count, entry>>
  BY DEF SendKnown
<1>3. ring \in Seq(Entries) /\ Once(ring)
  BY <1>1 DEF Lists
<1>4. \E m \in 1..Len(ring) : ring[m] = e
  <2>1. e \in ToSet(ring) BY DEF Found
  <2> QED BY <1>3, <2>1, Places
<1>5. PICK n \in 1..Len(ring) :
        ring' = SubSeq(ring, n, Len(ring)) \o SubSeq(ring, 1, n - 1)
  BY <1>2, <1>4 DEF Rotated
<1>6. ring' \in Seq(Entries) /\ ToSet(ring') = ToSet(ring) /\ Once(ring')
  BY <1>3, <1>5, RotatedIs
<1>7. Lists' BY <1>1, <1>2, <1>6 DEF Lists
<1>8. Counted' BY <1>1, <1>2, <1>6 DEF Counted
<1>9. Fields' BY <1>1, <1>2, <1>6 DEF Fields
<1>10. OneEntryEach' BY <1>1, <1>2, <1>6 DEF OneEntryEach
<1>11. WaitsWhereAnswered' BY <1>1, <1>2, <1>6 DEF WaitsWhereAnswered, Active
<1>12. LostBehind' BY <1>1, <1>2, <1>6 DEF LostBehind, Active, Silent
<1> QED BY <1>7, <1>8, <1>9, <1>10, <1>11, <1>12 DEF Cache

(* The queue of an entry with one packet more, the oldest dropped when it   *)
(* is full.                                                                 *)
LEMMA QueuedIs ==
  ASSUME NEW q \in Seq(Packets), Once(q), NEW k \in Packets, k \notin ToSet(q)
  PROVE  LET all == Append(q, k)
         IN /\ all \in Seq(Packets) /\ Len(all) = Len(q) + 1 /\ Once(all)
            /\ ToSet(all) = ToSet(q) \cup {k}
            /\ Tail(all) \in Seq(Packets) /\ Len(Tail(all)) = Len(q) /\ Once(Tail(all))
            /\ ToSet(Tail(all)) \subseteq ToSet(q) \cup {k}
<1> DEFINE all == Append(q, k)
           t == Tail(all)
           n == Len(q)
<1>1. /\ all \in Seq(Packets) /\ Len(all) = n + 1 /\ Once(all)
      /\ ToSet(all) = ToSet(q) \cup {k}
  BY AppendedIs
<1>2. n \in Nat
  OBVIOUS
<1> HIDE DEF all, n
<1>3. all # <<>>
  BY <1>1, <1>2
<1>4. t \in Seq(Packets) /\ Len(t) = Len(all) - 1 /\ \A i \in 1..Len(t) : t[i] = all[i + 1]
  BY <1>1, <1>3, HeadTailProperties
<1> HIDE DEF t
<1>5. Len(t) = n
  BY <1>1, <1>2, <1>4
<1>6. \A i \in 1..n : i + 1 \in 1..n + 1 /\ t[i] = all[i + 1]
  BY <1>2, <1>4, <1>5
<1>7. Once(t)
  <2> SUFFICES ASSUME NEW i \in 1..n, NEW j \in 1..n, t[i] = t[j] PROVE i = j
    BY <1>5 DEF Once
  <2>1. i + 1 = j + 1 BY <1>1, <1>6 DEF Once
  <2> QED BY <2>1
<1>8. ToSet(t) \subseteq ToSet(q) \cup {k}
  <2> SUFFICES ASSUME NEW x \in ToSet(t) PROVE x \in ToSet(all)
    BY <1>1
  <2>1. PICK i \in 1..n : t[i] = x BY <1>4, <1>5, Places
  <2>2. i + 1 \in 1..Len(all) /\ all[i + 1] = x BY <1>1, <1>6, <2>1
  <2> QED BY <1>1, <2>2, Places
<1> QED BY <1>1, <1>4, <1>5, <1>7, <1>8 DEF all, n, t

(* A packet that must wait for the physical address.                        *)
LEMMA SendWaitKeeps ==
  ASSUME ArpAssumption, Cache, NEW k \in Packets, NEW a \in Addresses, SendWait(k, a)
  PROVE  Cache'
<1>1. Lists /\ Fields /\ WaitsWhereAnswered
  BY DEF Cache
<1>2. PICK e \in Found(a) :
        /\ ~ entry[e].known
        /\ LET all == Append(entry[e].waiting, k)
               full == Len(entry[e].waiting) >= MaxQueue
           IN entry' = [entry EXCEPT ![e].waiting = IF full THEN Tail(all) ELSE all]
  BY DEF SendWait
<1>3. k \notin Waiting /\ UNCHANGED <<dynamic, static, ring, count>>
  BY DEF SendWait
<1>4. e \in ToSet(ring) /\ entry[e].ip = a
  BY DEF Found
<1>5. e \in Entries
  BY <1>1, <1>4, Sets
<1> DEFINE q == entry[e].waiting
           all == Append(q, k)
           w == IF Len(q) >= MaxQueue THEN Tail(all) ELSE all
           r == [entry[e] EXCEPT !.waiting = w]
<1>6. entry[e] \in EntryRecords /\ Len(q) <= MaxQueue
  BY <1>1, <1>5 DEF Fields
<1>7. e \in ToSet(ring) \ static /\ entry[e].interface /\ entry[e].timer > 0
  BY <1>1, <1>2, <1>4 DEF Fields
<1>8. q \in Seq(Packets) /\ Once(q)
  <2>1. q \in Seq(Packets) BY <1>6 DEF EntryRecords
  <2>2. CASE q = <<>> BY <2>2 DEF Once
  <2>3. CASE q # <<>>
    <3>1. IsInjective(q) BY <1>1, <1>5, <2>3 DEF WaitsWhereAnswered
    <3> QED BY <2>1, <3>1, OnceInjective
  <2> QED BY <2>1, <2>2, <2>3
<1>9. k \notin ToSet(q)
  BY <1>3, <1>5 DEF Waiting
<1>10. /\ w \in Seq(Packets) /\ Len(w) <= MaxQueue /\ Once(w)
       /\ ToSet(w) \subseteq ToSet(q) \cup {k}
  <2> HIDE DEF q
  <2>1. /\ all \in Seq(Packets) /\ Len(all) = Len(q) + 1 /\ Once(all)
        /\ ToSet(all) = ToSet(q) \cup {k}
        /\ Tail(all) \in Seq(Packets) /\ Len(Tail(all)) = Len(q) /\ Once(Tail(all))
        /\ ToSet(Tail(all)) \subseteq ToSet(q) \cup {k}
    BY <1>8, <1>9, QueuedIs
  <2> HIDE DEF all
  <2>2. Len(q) \in Nat /\ MaxQueue \in Nat BY <1>8, Rates
  <2>3. CASE Len(q) >= MaxQueue BY <1>6, <2>1, <2>3
  <2>4. CASE ~ (Len(q) >= MaxQueue) BY <2>1, <2>2, <2>4
  <2> QED BY <2>3, <2>4
<1>11. entry' = [entry EXCEPT ![e] = r]
  BY <1>2
<1> HIDE DEF q, w
<1>12. /\ r \in EntryRecords /\ r.ip = entry[e].ip /\ r.interface /\ r.timer > 0
       /\ r.waiting = w /\ ~ r.known
  BY <1>2, <1>6, <1>7, <1>10 DEF EntryRecords
<1>13. IsInjective(r.waiting) /\ ToSet(r.waiting) \cap Waiting \subseteq ToSet(entry[e].waiting)
       /\ Len(r.waiting) <= MaxQueue
  <2>1. IsInjective(w) BY <1>10, OnceInjective
  <2> QED BY <1>3, <1>10, <1>12, <2>1 DEF q
<1> HIDE DEF r
<1> QED BY <1>3, <1>7, <1>11, <1>12, <1>13, RefillKeeps

(* A packet for an address without an entry.                                *)
LEMMA SendAllocateKeeps ==
  ASSUME ArpAssumption, Cache, NEW k \in Packets, NEW a \in Addresses, SendAllocate(k, a)
  PROVE  Cache'
<1> DEFINE w == <<k>>
           r == Asked(a, w)
<1>1. w \in Seq(Packets) /\ Len(w) = 1 /\ ToSet(w) = {k} /\ IsInjective(w)
  BY DEF ToSet, IsInjective
<1>2. UpdateRate > 0 /\ MaxQueue >= 1
  BY Rates
<1>3. /\ r \in EntryRecords /\ r.ip = a /\ ~ r.known /\ r.timer = UpdateRate
      /\ r.interface /\ r.waiting = w
  <2> HIDE DEF w
  <2> QED BY <1>1, FilledIs
<1>4. k \notin Waiting /\ Found(a) = {} /\ Allocate(r)
  BY DEF SendAllocate, Asked
<1> HIDE DEF r, w
<1> QED BY <1>1, <1>2, <1>3, <1>4, AllocateKeeps

(* An answer, and what the application sets.                                *)
LEMMA ReceiveKeeps ==
  ASSUME ArpAssumption, Cache, NEW a \in Addresses, Receive(a) \/ ReceiveNew(a)
  PROVE  Cache'
<1> DEFINE r == Answered(a)
<1>1. /\ r \in EntryRecords /\ r.ip = a /\ r.known /\ r.interface /\ r.waiting = <<>>
      /\ Len(r.waiting) <= MaxQueue
  <2>1. <<>> \in Seq(Packets) /\ Len(<<>>) = 0 BY NothingWaits
  <2>2. /\ r \in EntryRecords /\ r.ip = a /\ r.known /\ r.interface /\ r.waiting = <<>>
    BY <2>1, FilledIs
  <2> QED BY <2>1, <2>2, Rates
<1> HIDE DEF r
<1>2. CASE Receive(a)
  <2>1. PICK e \in Found(a) \ static :
          entry' = [entry EXCEPT ![e] = r] /\ UNCHANGED <<dynamic, static, ring, count>>
    BY <1>2 DEF Receive, r, Answered
  <2>2. e \in ToSet(ring) \ static /\ entry[e].ip = a BY DEF Found
  <2> QED BY <1>1, <2>1, <2>2, RefillKeeps
<1>3. CASE ReceiveNew(a)
  <2>1. Found(a) = {} /\ Allocate(r) BY <1>3 DEF ReceiveNew, r, Answered
  <2> QED BY <1>1, <2>1, AllocateKeeps
<1> QED BY <1>2, <1>3

LEMMA SetKeeps ==
  ASSUME ArpAssumption, Cache, NEW a \in Addresses, Set(a)
  PROVE  Cache'
<1> QED BY ReceiveKeeps DEF Set

(* The application asks: what waits in a dynamic entry goes on waiting.     *)
LEMMA AskKeeps ==
  ASSUME ArpAssumption, Cache, NEW a \in Addresses, Ask(a)
  PROVE  Cache'
<1>1. UpdateRate > 0 /\ MaxQueue >= 0
  BY Rates
<1>2. CASE Found(a) = {}
  <2> DEFINE r == Asked(a, <<>>)
  <2>1. <<>> \in Seq(Packets) /\ Len(<<>>) = 0 BY NothingWaits
  <2>2. /\ r \in EntryRecords /\ r.ip = a /\ ~ r.known /\ r.timer = UpdateRate
        /\ r.interface /\ r.waiting = <<>>
    BY ZenonT(30), <2>1, FilledIs
  <2>3. Allocate(r) BY <1>2 DEF Ask, Asked
  <2> HIDE DEF r
  <2> QED BY <1>1, <1>2, <2>1, <2>2, <2>3, AllocateKeeps
<1>3. CASE Found(a) # {}
  <2>1. PICK e \in Found(a) \ static :
          /\ entry' = [entry EXCEPT ![e] = Filled(a, FALSE, UpdateRate, @.waiting)]
          /\ UNCHANGED <<dynamic, static, ring, count>>
    BY <1>3 DEF Ask
  <2>2. e \in ToSet(ring) \ static /\ entry[e].ip = a BY DEF Found
  <2>3. Lists /\ Fields /\ WaitsWhereAnswered BY DEF Cache
  <2>4. e \in Entries BY <2>2, <2>3, Sets
  <2> DEFINE q == entry[e].waiting
             r == Asked(a, q)
  <2>5. entry[e] \in EntryRecords /\ Len(q) <= MaxQueue BY <2>3, <2>4 DEF Fields
  <2>6. q \in Seq(Packets) BY <2>5 DEF EntryRecords
  <2>7. q # <<>> => ~ entry[e].known /\ IsInjective(q)
    BY <2>3, <2>4 DEF WaitsWhereAnswered
  <2>8. entry' = [entry EXCEPT ![e] = r]
    <3>1. entry' = [entry EXCEPT ![e] = Filled(a, FALSE, UpdateRate, q)]
      <4>1. entry \in [Entries -> EntryRecords] BY <2>3 DEF Fields
      <4> QED BY <2>1, <2>4, <4>1
    <3> QED BY <3>1 DEF Asked
  <2>9. /\ r \in EntryRecords /\ r.ip = a /\ ~ r.known /\ r.timer = UpdateRate
        /\ r.interface /\ r.waiting = q
    BY <2>6, FilledIs
  <2>10. ToSet(r.waiting) \cap Waiting \subseteq ToSet(entry[e].waiting) BY <2>9
  <2>11. UNCHANGED <<dynamic, static, ring, count>> BY <2>1
  <2> HIDE DEF r
  <2> QED BY <1>1, <2>2, <2>5, <2>7, <2>8, <2>9, <2>10, <2>11, RefillKeeps
<1> QED BY <1>2, <1>3

(* What becomes of an entry made static.                                    *)
LEMMA StaticIs ==
  ASSUME ArpAssumption, Fields, NEW e \in Entries, NEW a \in Addresses
  PROVE  LET r == StaticFilled(e, a)
         IN /\ r \in EntryRecords /\ r.ip = a /\ r.known /\ r.interface
            /\ r.timer = 0 /\ r.waiting = <<>> /\ Len(r.waiting) <= MaxQueue
<1>1. UpdateRate \in Nat /\ ExpirationRate \in Nat /\ MaxRetries \in Nat /\ MaxQueue \in Nat
  BY Rates
<1>2. <<>> \in Seq(Packets) /\ Len(<<>>) = 0
  BY NothingWaits
<1>3. entry[e].retries \in 0..MaxRetries
  BY DEF Fields, EntryRecords
<1>4. 0 \in 0..(UpdateRate + ExpirationRate) /\ 0 <= MaxQueue
  BY <1>1
<1> QED BY <1>2, <1>3, <1>4 DEF StaticFilled, Filled, EntryRecords

(* A dynamic entry made static: it leaves the one list for the other.       *)
LEMMA StaticMoveKeeps ==
  ASSUME ArpAssumption, Cache, NEW a \in Addresses, StaticMove(a)
  PROVE  Cache'
<1>1. Lists /\ Counted /\ Fields /\ OneEntryEach /\ WaitsWhereAnswered /\ LostBehind
  BY DEF Cache
<1>2. PICK e \in Found(a) \ static :
        /\ dynamic' = Without(dynamic, e) /\ static' = static \cup {e}
        /\ count' = count - 1
        /\ entry' = [entry EXCEPT ![e] = StaticFilled(e, a)]
        /\ UNCHANGED ring
  BY DEF StaticMove
<1> DEFINE A == ToSet(ring)
           r == StaticFilled(e, a)
<1>3. e \in A \ static /\ entry[e].ip = a
  BY DEF Found
<1>4. /\ A \subseteq Entries /\ IsFiniteSet(A \ static) /\ Cardinality(A \ static) \in Nat
  BY <1>1, Sets
<1>5. e \in Entries
  BY <1>3, <1>4
<1>6. /\ r \in EntryRecords /\ r.ip = a /\ r.known /\ r.interface
      /\ r.timer = 0 /\ r.waiting = <<>> /\ Len(r.waiting) <= MaxQueue
  BY <1>1, <1>5, StaticIs
<1> HIDE DEF r
<1>7. /\ dynamic \in Seq(Entries) /\ Once(dynamic) /\ ring \in Seq(Entries) /\ Once(ring)
      /\ static \subseteq Entries /\ ToSet(dynamic) = Entries \ static /\ static \subseteq A
  BY <1>1 DEF Lists
<1>8. /\ dynamic' \in Seq(Entries) /\ ToSet(dynamic') = ToSet(dynamic) \ {e}
      /\ Once(dynamic') /\ \A x, y : Before(dynamic', x, y) => Before(dynamic, x, y)
  BY <1>2, <1>7, WithoutIs
<1>9. Lists'
  BY <1>2, <1>3, <1>5, <1>7, <1>8 DEF Lists
<1>10. Counted'
  <2>1. count = Cardinality(A \ static) BY <1>1 DEF Counted
  <2>2. A \ static' = (A \ static) \ {e} BY <1>2
  <2>3. Cardinality(A \ static') = count - 1
    BY <1>3, <1>4, <2>1, <2>2, FS_RemoveElement
  <2> QED BY <1>2, <2>3 DEF Counted
<1>11. Fields' /\ OneEntryEach' /\ WaitsWhereAnswered'
  <2>1. Found(a) \subseteq {e} BY <1>1, <1>3 DEF OneEntryEach, Found
  <2>2. static' \ {e} = static \ {e} /\ e \in static' /\ ring' = ring BY <1>2
  <2>3. entry' = [entry EXCEPT ![e] = r] BY <1>2 DEF r
  <2> QED BY <1>1, <1>4, <1>5, <1>6, <2>1, <2>2, <2>3, OneRecord
<1>12. LostBehind'
  <2>1. entry' = [entry EXCEPT ![e] = r] /\ ring' = ring BY <1>2 DEF r
  <2> QED BY <1>1, <1>5, <1>6, <1>8, <2>1, OneMoved
<1> QED BY <1>9, <1>10, <1>11, <1>12 DEF Cache

(* The last dynamic entry, active or not, taken to be static.               *)
LEMMA StaticNewKeeps ==
  ASSUME ArpAssumption, Cache, NEW a \in Addresses, StaticNew(a)
  PROVE  Cache'
<1> DEFINE e == Last(dynamic)
           A == ToSet(ring)
           B == ToSet(ring')
           f == Front(dynamic)
           r == StaticFilled(e, a)
<1>1. Lists /\ Counted /\ Fields /\ OneEntryEach /\ WaitsWhereAnswered /\ LostBehind
  BY DEF Cache
<1>2. /\ Found(a) = {} /\ dynamic # <<>> /\ dynamic' = f /\ static' = static \cup {e}
      /\ ring' = Append(Without(ring, e), e)
      /\ count' = (IF e \in A THEN count - 1 ELSE count)
      /\ entry' = [entry EXCEPT ![e] = r]
  BY DEF StaticNew, Active
<1>3. /\ dynamic \in Seq(Entries) /\ Once(dynamic)
      /\ static \subseteq Entries /\ ToSet(dynamic) = Entries \ static /\ static \subseteq A
  BY <1>1 DEF Lists
<1>4. /\ e \in ToSet(dynamic) /\ e \in Entries
      /\ f \in Seq(Entries) /\ ToSet(f) = ToSet(dynamic) \ {e} /\ Once(f)
      /\ \A x, y : Before(f, x, y) => Before(dynamic, x, y)
  BY <1>2, <1>3, FrontAndLast
<1>5. \A x, y : Before(f, x, y) => y # e
  BY <1>4, Places
<1> HIDE DEF e, f
<1>6. /\ r \in EntryRecords /\ r.ip = a /\ r.known /\ r.interface
      /\ r.timer = 0 /\ r.waiting = <<>> /\ Len(r.waiting) <= MaxQueue
  BY <1>1, <1>4, StaticIs
<1> HIDE DEF r
<1>7. ring' \in Seq(Entries) /\ Once(ring') /\ B = A \cup {e}
  BY <1>1, <1>2, <1>4, RingMove
<1>8. A \subseteq Entries /\ IsFiniteSet(A \ static) /\ Cardinality(A \ static) \in Nat
  BY <1>1, Sets
<1>9. Lists'
  BY <1>2, <1>3, <1>4, <1>7 DEF Lists
<1>10. Counted'
  <2>1. count = Cardinality(A \ static) BY <1>1 DEF Counted
  <2> HIDE DEF A, B
  <2>2. B \ static' = (A \ static) \ {e} BY <1>2, <1>7
  <2>3. Cardinality(B \ static') = IF e \in A \ static THEN count - 1 ELSE count
    <3>1. Cardinality((A \ static) \ {e}) =
            IF e \in A \ static THEN Cardinality(A \ static) - 1 ELSE Cardinality(A \ static)
      BY <1>8, FS_RemoveElement
    <3> QED BY <2>1, <2>2, <3>1
  <2>4. e \notin static BY <1>3, <1>4
  <2> QED BY <1>2, <2>3, <2>4 DEF Counted, B
<1>11. Fields' /\ OneEntryEach' /\ WaitsWhereAnswered'
  <2> HIDE DEF A, B
  <2>1. B \ {e} = A \ {e} /\ B \subseteq Entries BY <1>4, <1>7, <1>8
  <2>2. static' \ {e} = static \ {e} /\ e \in static' BY <1>2
  <2>3. Found(r.ip) \subseteq {e} BY <1>2, <1>6
  <2> QED BY <1>1, <1>2, <1>4, <1>6, <2>1, <2>2, <2>3, OneRecord DEF A, B
<1>12. LostBehind'
  <2>1. \A x, y \in Entries : Before(dynamic', x, y) /\ y \in B => Before(dynamic, x, y) /\ y \in A
    BY <1>2, <1>4, <1>5, <1>7
  <2> QED BY <1>1, <1>2, <1>4, <1>6, <2>1, OneMoved
<1> QED BY <1>9, <1>10, <1>11, <1>12 DEF Cache

(* A static entry deleted: it goes to the end of the dynamic list.          *)
LEMMA StaticDeleteKeeps ==
  ASSUME ArpAssumption, Cache, NEW a \in Addresses, StaticDelete(a)
  PROVE  Cache'
<1>1. Lists /\ Counted /\ Fields /\ OneEntryEach /\ WaitsWhereAnswered /\ LostBehind
  BY DEF Cache
<1>2. PICK e \in Found(a) \cap static :
        /\ dynamic' = Append(dynamic, e) /\ static' = static \ {e}
        /\ ring' = Without(ring, e)
        /\ UNCHANGED <<count, entry>>
  BY DEF StaticDelete
<1> DEFINE A == ToSet(ring)
           B == ToSet(ring')
           r == entry[e]
<1>3. /\ dynamic \in Seq(Entries) /\ Once(dynamic)
      /\ static \subseteq Entries /\ ToSet(dynamic) = Entries \ static /\ static \subseteq A
  BY <1>1 DEF Lists
<1>4. e \in Entries /\ e \in static /\ e \in A /\ e \notin ToSet(dynamic)
  BY <1>3
<1>5. /\ dynamic' \in Seq(Entries) /\ ToSet(dynamic') = ToSet(dynamic) \cup {e}
      /\ Once(dynamic') /\ \A x, y : Before(dynamic', x, y) => Before(dynamic, x, y) \/ y = e
  BY <1>2, <1>3, <1>4, AppendedIs
<1>6. ring' \in Seq(Entries) /\ Once(ring') /\ B = A \ {e}
  BY <1>1, <1>2, <1>4, RingDrop
<1>7. Lists'
  BY <1>2, <1>3, <1>4, <1>5, <1>6 DEF Lists
<1>8. Counted'
  <2> HIDE DEF A, B
  <2>1. B \ static' = A \ static BY <1>2, <1>4, <1>6
  <2> QED BY <1>1, <1>2, <2>1 DEF Counted, A, B
<1>9. r \in EntryRecords /\ Len(r.waiting) <= MaxQueue /\ r.waiting = <<>>
  BY <1>1, <1>4 DEF Fields, WaitsWhereAnswered
<1>10. entry' = [entry EXCEPT ![e] = r]
  BY <1>1, <1>2 DEF Fields
<1>11. Fields' /\ OneEntryEach' /\ WaitsWhereAnswered'
  <2> HIDE DEF A, B, r
  <2>1. B \ {e} = A \ {e} /\ B \subseteq Entries /\ e \notin B
    <3>1. A \subseteq Entries BY <1>1, Sets DEF A
    <3> QED BY <1>6, <3>1
  <2>2. static' \ {e} = static \ {e} BY <1>2
  <2> QED BY <1>1, <1>4, <1>9, <1>10, <2>1, <2>2, OneRecord DEF A, B
<1>12. LostBehind'
  <2>1. \A x, y \in Entries : Before(dynamic', x, y) /\ y \in B => Before(dynamic, x, y) /\ y \in A
    BY <1>5, <1>6
  <2> QED BY <1>1, <1>2, <2>1 DEF LostBehind, Silent, Active
<1> QED BY <1>7, <1>8, <1>11, <1>12 DEF Cache

(* A dynamic entry deleted: it keeps its place in the dynamic list.         *)
LEMMA DeleteKeeps ==
  ASSUME ArpAssumption, Cache, NEW a \in Addresses, Delete(a)
  PROVE  Cache'
<1>1. Lists /\ Counted /\ Fields /\ OneEntryEach /\ WaitsWhereAnswered /\ LostBehind
  BY DEF Cache
<1>2. PICK e \in Found(a) \ static :
        /\ ring' = Without(ring, e) /\ count' = count - 1
        /\ entry' = [entry EXCEPT ![e] = Released(e)]
        /\ UNCHANGED <<dynamic, static>>
  BY DEF Delete
<1> DEFINE A == ToSet(ring)
           B == ToSet(ring')
           r == Released(e)
<1>3. A \subseteq Entries /\ IsFiniteSet(A \ static) /\ Cardinality(A \ static) \in Nat
  BY <1>1, Sets
<1>4. e \in A \ static /\ e \in Entries
  BY <1>3 DEF Found
<1>5. ring' \in Seq(Entries) /\ Once(ring') /\ B = A \ {e}
  BY <1>1, <1>2, <1>4, RingDrop
<1>6. Lists'
  BY <1>1, <1>2, <1>4, <1>5 DEF Lists
<1>7. /\ r \in EntryRecords /\ r.waiting = <<>> /\ Len(r.waiting) <= MaxQueue
      /\ (Silent(e) => r.interface \/ r.timer = 0)
  <2>1. entry[e] \in EntryRecords BY <1>1, <1>4 DEF Fields
  <2>2. <<>> \in Seq(Packets) /\ Len(<<>>) = 0 BY NothingWaits
  <2>3. MaxQueue \in Nat BY Rates
  <2>4. r \in EntryRecords /\ r.waiting = <<>> BY <2>1, <2>2 DEF Released, EntryRecords
  <2>5. r.interface = entry[e].interface /\ r.timer = entry[e].timer
    BY <2>1 DEF Released, EntryRecords
  <2> HIDE DEF r
  <2>6. Len(r.waiting) <= MaxQueue BY <2>2, <2>3, <2>4
  <2> QED BY <2>4, <2>5, <2>6 DEF Silent
<1>8. Counted'
  <2>1. count = Cardinality(A \ static) BY <1>1 DEF Counted
  <2> HIDE DEF A, B
  <2>2. B \ static' = (A \ static) \ {e} BY <1>2, <1>5
  <2>3. Cardinality((A \ static) \ {e}) = count - 1
    BY <1>3, <1>4, <2>1, FS_RemoveElement
  <2> QED BY <1>2, <2>2, <2>3 DEF Counted, B
<1> HIDE DEF A, B, r
<1>9. Fields' /\ OneEntryEach' /\ WaitsWhereAnswered'
  <2>1. B \ {e} = A \ {e} /\ B \subseteq Entries /\ e \notin B BY <1>3, <1>5
  <2>2. static' \ {e} = static \ {e} BY <1>2
  <2>3. entry' = [entry EXCEPT ![e] = r] BY <1>2 DEF r
  <2> QED BY <1>1, <1>4, <1>7, <2>1, <2>2, <2>3, OneRecord DEF A, B
<1>10. LostBehind'
  <2>1. \A x, y \in Entries : Before(dynamic', x, y) /\ y \in B => Before(dynamic, x, y) /\ y \in A
    BY <1>2, <1>5
  <2>2. entry' = [entry EXCEPT ![e] = r] BY <1>2 DEF r
  <2> QED BY <1>1, <1>4, <1>7, <2>1, <2>2, OneMoved DEF A, B
<1> QED BY <1>6, <1>8, <1>9, <1>10 DEF Cache

(* The places before p hold fewer active entries than are counted, when p   *)
(* holds one, and at most p - 1.                                            *)
Ahead(p) == {m \in 1..(p - 1) : Active(dynamic[m])}
LEMMA AheadIs ==
  ASSUME ArpAssumption, Lists, Counted, NEW p \in 1..Len(dynamic)
  PROVE  /\ Cardinality(Ahead(p)) \in Nat /\ Cardinality(Ahead(p)) <= p - 1
         /\ Active(dynamic[p]) => Cardinality(Ahead(p)) < count
         /\ (\A q \in 1..Len(dynamic) : Active(dynamic[q]) => q < p) => count <= p - 1
<1> DEFINE A == ToSet(ring)
           L == A \ static
           N == Len(dynamic)
           H == Ahead(p)
<1>1. /\ dynamic \in Seq(Entries) /\ Once(dynamic) /\ ToSet(dynamic) = Entries \ static
  BY DEF Lists
<1>2. A \subseteq Entries /\ IsFiniteSet(L) /\ count = Cardinality(L) /\ Cardinality(L) \in Nat
  BY Sets DEF Counted
<1>3. N \in Nat /\ \A i \in 1..N : dynamic[i] \in Entries \ static
  BY <1>1, Places
<1>4. p \in 1..N
  OBVIOUS
<1> HIDE DEF A, N
<1>5. IsFiniteSet(1..(p - 1)) /\ Cardinality(1..(p - 1)) = p - 1
  <2>1. 1 \in Int /\ p - 1 \in Int /\ p - 1 >= 0 BY <1>3, <1>4
  <2>2. /\ IsFiniteSet(1..(p - 1))
        /\ Cardinality(1..(p - 1)) = IF 1 > p - 1 THEN 0 ELSE (p - 1) - 1 + 1
    BY <2>1, FS_Interval
  <2> QED BY <2>1, <2>2
<1>6. H \in SUBSET (1..(p - 1))
  BY DEF Ahead
<1>7. IsFiniteSet(H) /\ Cardinality(H) \in Nat /\ Cardinality(H) <= p - 1
  <2>1. IsFiniteSet(H) /\ Cardinality(H) <= p - 1 BY <1>5, <1>6, FS_Subset
  <2> QED BY <2>1, FS_CardinalityType
<1>8. \A m \in H : m \in 1..N /\ dynamic[m] \in L
  <2> SUFFICES ASSUME NEW m \in H PROVE m \in 1..N /\ dynamic[m] \in L
    OBVIOUS
  <2>1. m \in 1..(p - 1) /\ dynamic[m] \in A BY DEF Ahead, Active, A
  <2>2. m \in 1..N BY <1>3, <1>4, <2>1
  <2> QED BY <1>3, <2>1, <2>2
<1>9. \A m, n \in 1..N : dynamic[m] = dynamic[n] => m = n
  BY <1>1 DEF Once, N
<1>10. ASSUME Active(dynamic[p]) PROVE Cardinality(H) < count
  <2> DEFINE M == L \ {dynamic[p]}
             f == [m \in H |-> dynamic[m]]
  <2>1. dynamic[p] \in L BY <1>3, <1>4, <1>10 DEF Active, A
  <2>2. IsFiniteSet(M) /\ Cardinality(M) = count - 1 BY <1>2, <2>1, FS_RemoveElement
  <2>3. \A m \in H : dynamic[m] \in M
    <3>1. \A m \in H : m # p BY <1>3, <1>4, <1>6
    <3> QED BY <1>4, <1>8, <1>9, <3>1
  <2> HIDE DEF M
  <2>4. f \in Injection(H, M)
    <3>1. f \in [H -> M] BY <2>3
    <3>2. \A m, n \in H : f[m] = f[n] => m = n BY <1>8, <1>9
    <3>3. DOMAIN f = H OBVIOUS
    <3> QED BY <3>1, <3>2, <3>3 DEF Injection, IsInjective
  <2>5. Cardinality(H) <= Cardinality(M)
    <3> HIDE DEF f, H
    <3> QED BY <2>2, <2>4, FS_Injection
  <2> QED BY <1>2, <1>7, <2>2, <2>5
<1>11. ASSUME \A q \in 1..N : Active(dynamic[q]) => q < p PROVE count <= p - 1
  <2> DEFINE f == [m \in H |-> dynamic[m]]
  <2>1. f \in [H -> L] BY <1>8
  <2>2. ASSUME NEW x \in L PROVE \E m \in H : f[m] = x
    <3>1. x \in ToSet(dynamic) BY <1>1, <1>2, <2>2
    <3>2. PICK q \in 1..N : dynamic[q] = x BY <1>1, <3>1, Places DEF N
    <3>3. Active(dynamic[q]) BY <2>2, <3>2 DEF Active, A
    <3>4. q \in 1..(p - 1) BY <1>3, <1>4, <1>11, <3>3
    <3>5. q \in H BY <3>3, <3>4 DEF Ahead
    <3> QED BY <3>2, <3>5
  <2>3. f \in Surjection(H, L) BY <2>1, <2>2 DEF Surjection
  <2>4. Cardinality(L) <= Cardinality(H)
    <3> HIDE DEF f, H, L
    <3> QED BY <1>7, <2>3, FS_Surjection
  <2> QED BY <1>2, <1>3, <1>4, <1>7, <2>4
<1> QED BY <1>7, <1>10, <1>11 DEF N

(* All dynamic entries invalidated: the walk that stops when no entry is    *)
(* counted active has come past every active one.                           *)
LEMMA InvalidateKeeps ==
  ASSUME ArpAssumption, Cache, Invalidate
  PROVE  Cache'
<1> DEFINE A == ToSet(ring)
           B == ToSet(ring')
           L == A \ static
           D == {m \in DOMAIN dynamic : Cardinality(Ahead(m)) < count}
           G == {dynamic[n] : n \in D}
<1>1. Lists /\ Counted /\ Fields /\ OneEntryEach /\ WaitsWhereAnswered /\ LostBehind
  BY DEF Cache
<1>2. /\ ring' = Kept(ring, Entries \ G)
      /\ count' = count - Cardinality({e \in G : Active(e)})
      /\ entry' = [e \in Entries |->
                     IF e \notin G THEN entry[e]
                     ELSE [entry[e] EXCEPT !.interface = FALSE,
                             !.waiting = IF Active(e) THEN <<>> ELSE @]]
      /\ UNCHANGED <<dynamic, static>>
  BY DEF Invalidate, Ahead
<1>3. /\ dynamic \in Seq(Entries) /\ Once(dynamic) /\ ring \in Seq(Entries) /\ Once(ring)
      /\ static \subseteq Entries /\ ToSet(dynamic) = Entries \ static /\ static \subseteq A
  BY <1>1 DEF Lists
<1>4. /\ A \subseteq Entries /\ IsFiniteSet(L) /\ Cardinality(L) \in Nat /\ count = Cardinality(L)
  BY <1>1, Sets DEF Counted
<1>5. G \subseteq Entries \ static
  <2>1. \A n \in DOMAIN dynamic : dynamic[n] \in ToSet(dynamic) BY DEF ToSet
  <2> QED BY <1>3, <2>1
<1>6. L \subseteq G
  <2> SUFFICES ASSUME NEW x \in L PROVE x \in G
    OBVIOUS
  <2>1. x \in ToSet(dynamic) BY <1>3, <1>4
  <2>2. PICK p \in 1..Len(dynamic) : dynamic[p] = x BY <1>3, <2>1, Places
  <2>3. Active(dynamic[p]) BY <2>2 DEF Active
  <2>4. Cardinality(Ahead(p)) < count BY <1>1, <2>3, AheadIs
  <2>5. p \in DOMAIN dynamic BY <1>3, Places
  <2> QED BY <2>2, <2>4, <2>5
<1> HIDE DEF D, G
<1>7. ring' \in Seq(Entries) /\ Once(ring') /\ B = A \cap (Entries \ G)
  BY <1>2, <1>3, KeptIs
<1>8. B = static
  <2> HIDE DEF A, B
  <2>1. A \cap (Entries \ G) = static BY <1>3, <1>4, <1>5, <1>6 DEF L
  <2> QED BY <1>7, <2>1
<1>9. count' = 0
  <2>1. {e \in G : Active(e)} = L BY <1>5, <1>6 DEF Active
  <2>2. count' = count - Cardinality(L) BY <1>2, <2>1
  <2> HIDE DEF L
  <2> QED BY <1>4, <2>2
<1>10. /\ entry' \in [Entries -> EntryRecords]
       /\ \A e \in Entries : entry'[e].waiting = <<>>
       /\ \A e \in static : entry'[e] = entry[e]
  <2>1. entry \in [Entries -> EntryRecords] BY <1>1 DEF Fields
  <2>2. <<>> \in Seq(Packets) BY NothingWaits
  <2>3. ASSUME NEW e \in Entries
        PROVE  entry'[e] \in EntryRecords /\ entry'[e].waiting = <<>>
    <3>1. CASE e \notin G
      <4>1. entry'[e] = entry[e] BY <1>2, <3>1
      <4>2. entry[e].waiting = <<>> BY <1>1, <1>6, <3>1 DEF WaitsWhereAnswered, Active
      <4> QED BY <2>1, <4>1, <4>2
    <3>2. CASE e \in G
      <4> DEFINE w == IF Active(e) THEN <<>> ELSE entry[e].waiting
      <4>1. entry'[e] = [entry[e] EXCEPT !.interface = FALSE, !.waiting = w] BY <1>2, <3>2
      <4>2. w = <<>> BY <1>1 DEF WaitsWhereAnswered
      <4> HIDE DEF w
      <4>3. entry[e] \in EntryRecords BY <2>1
      <4> QED BY <2>2, <4>1, <4>2, <4>3 DEF EntryRecords
    <3> QED BY <3>1, <3>2
  <2>4. entry' \in [Entries -> EntryRecords]
    <3>1. entry' = [e \in Entries |-> entry'[e]] BY <1>2
    <3> QED BY <2>3, <3>1
  <2>5. \A e \in static : entry'[e] = entry[e] BY <1>2, <1>3, <1>5
  <2> QED BY <2>3, <2>4, <2>5
<1> HIDE DEF A, B, L
<1>11. Lists'
  BY <1>2, <1>3, <1>7, <1>8 DEF Lists, B
<1>12. Counted'
  <2>1. B \ static' = {} BY <1>2, <1>8
  <2>2. Cardinality(B \ static') = 0 BY <2>1, FS_EmptySet
  <2> QED BY <1>9, <2>2 DEF Counted, B
<1>13. Fields'
  <2>1. Len(<<>>) <= MaxQueue BY NothingWaits, Rates
  <2>2. \A e \in Entries : Len(entry'[e].waiting) <= MaxQueue BY <1>10, <2>1
  <2>3. \A e \in B : e \in static' /\ entry'[e].known
    <3> SUFFICES ASSUME NEW e \in static PROVE entry[e].known
      BY <1>2, <1>8, <1>10
    <3>1. e \in ToSet(ring) BY <1>3 DEF A
    <3> QED BY <1>1, <3>1 DEF Fields
  <2> QED BY <1>10, <2>2, <2>3 DEF Fields, B
<1>14. OneEntryEach'
  <2>1. B \subseteq A BY <1>3, <1>8
  <2>2. \A e \in B : entry'[e].ip = entry[e].ip BY <1>8, <1>10
  <2> QED BY <1>1, <2>1, <2>2 DEF OneEntryEach, A, B
<1>15. WaitsWhereAnswered'
  BY <1>10 DEF WaitsWhereAnswered
<1>16. LostBehind'
  <2>1. \A x, y : Before(dynamic, x, y) => y \in ToSet(dynamic) BY <1>3, Places
  <2> QED BY <1>2, <1>3, <1>8, <2>1 DEF LostBehind, Active, B
<1> QED BY <1>11, <1>12, <1>13, <1>14, <1>15, <1>16 DEF Cache

-----------------------------------------------------------------------------
(* The turn over, the period stands at the entry behind: it has passed one  *)
(* entry more, or starts from the head again.                               *)
LEMMA WalkOnKeeps ==
  ASSUME WalkAt(walk), WalkOn, dynamic' \in Seq(Entries), Once(dynamic'), count' \in Nat,
         NEW p \in 1..Len(dynamic'), dynamic'[p] = walk.at,
         p <= walk.i + 1 \/ p = Len(dynamic')
  PROVE  WalkWithin'
<1>1. walk.i \in Nat
  BY DEF WalkAt
<1> DEFINE N == Len(dynamic')
           b == IF p = N THEN 1 ELSE p + 1
<1>2. N \in Nat /\ p \in 1..N
  OBVIOUS
<1>3. Behind(dynamic', walk.at) = dynamic'[b]
  BY BehindIs
<1> HIDE DEF N
<1>4. b \in 1..N /\ b <= walk.i + 2
  BY <1>1, <1>2 DEF N
<1> HIDE DEF b
<1>5. dynamic'[b] \in Entries
  BY <1>4, ElementOfSeq DEF N
<1>6. CASE walk.i + 1 < count'
  <2>1. walk' = [i |-> walk.i + 1, at |-> dynamic'[b]] BY <1>3, <1>6 DEF WalkOn
  <2>2. /\ walk' \in [i : Nat, at : Entries] /\ walk'.i = walk.i + 1 /\ walk'.at = dynamic'[b]
    BY <1>1, <1>5, <2>1
  <2>3. b \in 1..Len(dynamic') /\ dynamic'[b] = walk'.at /\ b <= walk'.i + 1
    BY <1>1, <1>4, <2>2 DEF N
  <2> QED BY <1>6, <2>2, <2>3 DEF WalkWithin, WalkAt
<1>7. CASE ~ (walk.i + 1 < count')
  BY <1>7 DEF WalkOn, WalkWithin
<1> QED BY <1>6, <1>7

LEMMA PeriodStartKeeps ==
  ASSUME ArpAssumption, IInv, PeriodStart
  PROVE  IInv'
<1>1. Lists /\ Counted
  BY DEF IInv, Cache
<1>2. count > 0 /\ walk' = [i |-> 0, at |-> Head(dynamic)]
      /\ UNCHANGED <<dynamic, static, ring, count, entry>>
  BY DEF PeriodStart
<1>3. Cache'
  <2>1. Cache BY DEF IInv
  <2> QED BY <1>2, <2>1 DEF Cache, Lists, Counted, Fields, OneEntryEach, WaitsWhereAnswered,
         LostBehind, Active, Silent
<1>4. dynamic # <<>>
  <2>1. count = Cardinality(ToSet(ring) \ static) BY <1>1 DEF Counted
  <2>2. ToSet(ring) \ static # {}
    <3>1. count # 0 BY <1>2
    <3> QED BY <2>1, <3>1, FS_EmptySet
  <2>3. ToSet(dynamic) # {}
    <3>1. ToSet(ring) \subseteq Entries BY <1>1, Sets
    <3> QED BY <1>1, <2>2, <3>1 DEF Lists
  <2> QED BY <2>3, NothingWaits
<1>5. dynamic \in Seq(Entries)
  BY <1>1 DEF Lists
<1>6. 1 \in 1..Len(dynamic) /\ Head(dynamic) = dynamic[1] /\ Head(dynamic) \in Entries
  <2>1. Len(dynamic) \in Nat /\ Len(dynamic) # 0 BY <1>4, <1>5, EmptySeq
  <2>2. Head(dynamic) \in Entries BY <1>4, <1>5, HeadTailProperties
  <2>3. Head(dynamic) = dynamic[1] BY <1>4, <1>5
  <2> QED BY <2>1, <2>2, <2>3
<1>7. WalkWithin'
  <2> DEFINE w == [i |-> 0, at |-> Head(dynamic)]
  <2>1. w \in [i : Nat, at : Entries] /\ w.i = 0 /\ w.at = dynamic[1] BY <1>6
  <2>2. WalkAt(w)' BY <1>2, <1>6, <2>1 DEF WalkAt
  <2> QED BY <1>2, <2>1, <1>6 DEF WalkWithin, WalkAt
<1> QED BY <1>3, <1>7 DEF IInv

(* A turn of the period that leaves the lists alone: the timer of the entry *)
(* runs on, or is started again.                                            *)
LEMMA TurnKeeps ==
  ASSUME ArpAssumption, IInv, walk # None, WalkOn, NEW r \in EntryRecords,
         entry' = [entry EXCEPT ![walk.at] = r], UNCHANGED <<dynamic, static, ring, count>>,
         r.ip = entry[walk.at].ip, r.known = entry[walk.at].known,
         r.interface = entry[walk.at].interface, r.waiting = entry[walk.at].waiting,
         r.timer = 0 <=> entry[walk.at].timer = 0
  PROVE  IInv'
<1> DEFINE e == walk.at
           A == ToSet(ring)
<1>1. Lists /\ Counted /\ Fields /\ OneEntryEach /\ WaitsWhereAnswered /\ LostBehind /\ WalkAt(walk)
  BY DEF IInv, Cache, WalkWithin
<1>2. PICK p \in 1..Len(dynamic) : dynamic[p] = e /\ p <= walk.i + 1
  BY <1>1 DEF WalkAt
<1>3. /\ dynamic \in Seq(Entries) /\ Once(dynamic) /\ ToSet(dynamic) = Entries \ static
  BY <1>1 DEF Lists
<1>4. e \in Entries \ static
  BY <1>2, <1>3, Places
<1>5. A \subseteq Entries /\ Cardinality(A \ static) \in Nat
  BY <1>1, Sets
<1>6. Lists' /\ Counted'
  BY <1>1 DEF Lists, Counted
<1>7. r.timer \in Nat /\ entry[e].timer \in Nat
  <2>1. UpdateRate \in Nat /\ ExpirationRate \in Nat BY Rates
  <2>2. entry[e] \in EntryRecords BY <1>1, <1>4 DEF Fields
  <2> QED BY <2>1, <2>2 DEF EntryRecords
<1>8. Fields' /\ OneEntryEach' /\ WaitsWhereAnswered'
  <2>1. Len(r.waiting) <= MaxQueue BY <1>1, <1>4 DEF Fields
  <2>2. ASSUME e \in A
        PROVE  /\ r.interface /\ (r.known \/ r.timer > 0)
               /\ r.ip \in Addresses => Found(r.ip) \subseteq {e}
    <3>1. entry[e].interface /\ (entry[e].known \/ entry[e].timer > 0)
      BY <1>1, <1>4, <2>2 DEF Fields
    <3>2. r.ip \in Addresses => Found(r.ip) \subseteq {e}
      BY <1>1, <2>2 DEF OneEntryEach, Found
    <3> QED BY <1>7, <3>1, <3>2
  <2>3. ASSUME r.waiting # <<>>
        PROVE  /\ e \in A /\ ~ r.known /\ r.timer > 0 /\ IsInjective(r.waiting)
               /\ ToSet(r.waiting) \cap Waiting \subseteq ToSet(entry[e].waiting)
    <3>1. /\ e \in A /\ ~ entry[e].known /\ entry[e].timer > 0
          /\ IsInjective(entry[e].waiting)
      BY <1>1, <1>4, <2>3 DEF WaitsWhereAnswered, Active
    <3> QED BY <1>7, <3>1
  <2> HIDE DEF e
  <2> QED BY <1>1, <1>4, <1>5, <2>1, <2>2, <2>3, OneRecord DEF e
<1>9. LostBehind'
  <2>1. Silent(e) => r.interface \/ r.timer = 0 BY DEF Silent
  <2> QED BY <1>1, <1>4, <2>1, OneMoved
<1>10. WalkWithin'
  <2>1. count' \in Nat BY <1>1, <1>5 DEF Counted
  <2> QED BY <1>1, <1>2, <1>3, <2>1, WalkOnKeeps
<1> QED BY <1>6, <1>8, <1>9, <1>10 DEF IInv, Cache

LEMMA PeriodAgeKeeps ==
  ASSUME ArpAssumption, IInv, PeriodAge
  PROVE  IInv'
<1> DEFINE e == walk.at
           r == [entry[e] EXCEPT !.timer = IF @ = 0 THEN 0 ELSE @ - 1]
<1>1. walk # None /\ Fields /\ WalkAt(walk)
  BY DEF PeriodAge, MutexFree, IInv, Cache, WalkWithin
<1>2. e \in Entries
  BY <1>1 DEF WalkAt
<1>3. entry[e] \in EntryRecords /\ entry \in [Entries -> EntryRecords]
  BY <1>1, <1>2 DEF Fields
<1>4. UpdateRate \in Nat /\ ExpirationRate \in Nat
  BY Rates
<1>5. entry[e].timer # 1 /\ entry[e].timer \in 0..(UpdateRate + ExpirationRate)
  BY <1>3 DEF PeriodAge, EntryRecords
<1>6. entry' = [entry EXCEPT ![e] = r] /\ WalkOn /\ UNCHANGED <<dynamic, static, ring, count>>
  BY <1>2, <1>3 DEF PeriodAge
<1>7. /\ r \in EntryRecords /\ r.ip = entry[e].ip /\ r.known = entry[e].known
      /\ r.interface = entry[e].interface /\ r.waiting = entry[e].waiting
      /\ r.timer = IF entry[e].timer = 0 THEN 0 ELSE entry[e].timer - 1
  <2> DEFINE t == IF entry[e].timer = 0 THEN 0 ELSE entry[e].timer - 1
  <2>1. t \in 0..(UpdateRate + ExpirationRate) BY <1>4, <1>5
  <2>2. r = [entry[e] EXCEPT !.timer = t] OBVIOUS
  <2> HIDE DEF t, r
  <2>3. r \in EntryRecords /\ r.timer = t BY <1>3, <2>1, <2>2 DEF EntryRecords
  <2> QED BY <1>3, <2>2, <2>3 DEF EntryRecords, t
<1> HIDE DEF r
<1>8. r.timer = 0 <=> entry[e].timer = 0
  BY <1>4, <1>5, <1>7
<1> QED BY <1>1, <1>6, <1>7, <1>8, TurnKeeps

LEMMA PeriodAskKeeps ==
  ASSUME ArpAssumption, IInv, PeriodAsk
  PROVE  IInv'
<1> DEFINE e == walk.at
           r == [entry[e] EXCEPT !.retries = @ + 1, !.timer = UpdateRate]
<1>1. walk # None /\ Fields /\ WalkAt(walk)
  BY DEF PeriodAsk, MutexFree, IInv, Cache, WalkWithin
<1>2. e \in Entries
  BY <1>1 DEF WalkAt
<1>3. entry[e] \in EntryRecords /\ entry \in [Entries -> EntryRecords]
  BY <1>1, <1>2 DEF Fields
<1>4. UpdateRate \in Nat /\ UpdateRate > 0 /\ ExpirationRate \in Nat /\ MaxRetries \in Nat
  BY Rates
<1>5. entry[e].timer = 1 /\ entry[e].retries # MaxRetries /\ entry[e].retries \in 0..MaxRetries
  BY <1>3 DEF PeriodAsk, EntryRecords
<1>6. entry' = [entry EXCEPT ![e] = r] /\ WalkOn /\ UNCHANGED <<dynamic, static, ring, count>>
  BY <1>2, <1>3 DEF PeriodAsk
<1>7. /\ r \in EntryRecords /\ r.ip = entry[e].ip /\ r.known = entry[e].known
      /\ r.interface = entry[e].interface /\ r.waiting = entry[e].waiting
      /\ r.timer = UpdateRate
  <2>1. entry[e].retries + 1 \in 0..MaxRetries /\ UpdateRate \in 0..(UpdateRate + ExpirationRate)
    BY <1>4, <1>5
  <2> QED BY <1>3, <2>1 DEF EntryRecords
<1> HIDE DEF r
<1>8. r.timer = 0 <=> entry[e].timer = 0
  BY <1>4, <1>5, <1>7
<1> QED BY <1>1, <1>6, <1>7, <1>8, TurnKeeps

(* The last retry is over: the entry is unlinked and goes to the end.       *)
LEMMA PeriodGiveUpKeeps ==
  ASSUME ArpAssumption, IInv, PeriodGiveUp
  PROVE  IInv'
<1> DEFINE e == walk.at
           A == ToSet(ring)
           B == ToSet(ring')
           r == [entry[e] EXCEPT !.timer = 0, !.waiting = <<>>]
           o == Without(dynamic, e)
<1>1. /\ Lists /\ Counted /\ Fields /\ OneEntryEach /\ WaitsWhereAnswered /\ LostBehind
      /\ walk # None /\ WalkAt(walk)
  BY DEF PeriodGiveUp, MutexFree, IInv, Cache, WalkWithin
<1>2. PICK p \in 1..Len(dynamic) : dynamic[p] = e /\ p <= walk.i + 1
  BY <1>1 DEF WalkAt
<1>3. /\ dynamic \in Seq(Entries) /\ Once(dynamic) /\ ToSet(dynamic) = Entries \ static
      /\ static \subseteq Entries /\ static \subseteq A
  BY <1>1 DEF Lists
<1>4. e \in Entries \ static
  BY <1>2, <1>3, Places
<1>5. /\ A \subseteq Entries /\ IsFiniteSet(A \ static) /\ Cardinality(A \ static) \in Nat
  BY <1>1, Sets
<1>6. /\ ring' = Without(ring, e) /\ count' = (IF e \in A THEN count - 1 ELSE count)
      /\ dynamic' = Append(o, e) /\ static' = static /\ WalkOn
  BY DEF PeriodGiveUp, Active
<1>7. entry' = [entry EXCEPT ![e] = r]
  BY <1>1, <1>4 DEF PeriodGiveUp, Fields
<1>8. ring' \in Seq(Entries) /\ Once(ring') /\ B = A \ {e}
  BY <1>1, <1>4, <1>6, RingDrop
<1>9. /\ o \in Seq(Entries) /\ Once(o) /\ ToSet(o) = ToSet(dynamic) \ {e}
      /\ \A x, y : Before(o, x, y) => Before(dynamic, x, y)
  BY <1>3, WithoutIs
<1> HIDE DEF o
<1>10. /\ dynamic' \in Seq(Entries) /\ Once(dynamic') /\ ToSet(dynamic') = ToSet(dynamic)
       /\ Len(dynamic') = Len(o) + 1 /\ dynamic'[Len(dynamic')] = e
       /\ \A x, y : Before(dynamic', x, y) => Before(dynamic, x, y) \/ y = e
  <2>1. e \notin ToSet(o) BY <1>9
  <2> DEFINE k == Append(o, e)
  <2>2. /\ k \in Seq(Entries) /\ ToSet(k) = ToSet(o) \cup {e}
        /\ Len(k) = Len(o) + 1 /\ k[Len(o) + 1] = e
        /\ Once(o) => Once(k)
        /\ \A x, y : Before(k, x, y) => Before(o, x, y) \/ y = e
    BY <1>4, <1>9, <2>1, AppendedIs
  <2>3. ToSet(o) \cup {e} = ToSet(dynamic) BY <1>3, <1>4, <1>9
  <2> HIDE DEF k
  <2>4. dynamic' = k BY <1>6 DEF k
  <2> QED BY <1>9, <2>2, <2>3, <2>4
<1>11. Lists'
  BY <1>3, <1>4, <1>6, <1>8, <1>10 DEF Lists
<1>12. Counted' /\ count' \in Nat
  <2>1. count = Cardinality(A \ static) BY <1>1 DEF Counted
  <2> HIDE DEF A, B
  <2>2. B \ static' = (A \ static) \ {e} BY <1>6, <1>8
  <2>3. /\ IsFiniteSet((A \ static) \ {e})
        /\ Cardinality((A \ static) \ {e}) =
             IF e \in A \ static THEN Cardinality(A \ static) - 1 ELSE Cardinality(A \ static)
    BY <1>5, FS_RemoveElement
  <2>4. Cardinality((A \ static) \ {e}) \in Nat BY <2>3, FS_CardinalityType
  <2> QED BY <1>4, <1>6, <2>1, <2>2, <2>3, <2>4 DEF Counted, B
<1>13. r \in EntryRecords /\ r.waiting = <<>> /\ Len(r.waiting) <= MaxQueue /\ r.timer = 0
  <2>1. entry[e] \in EntryRecords BY <1>1, <1>4 DEF Fields
  <2>2. <<>> \in Seq(Packets) /\ Len(<<>>) = 0 BY NothingWaits
  <2>3. 0 \in 0..(UpdateRate + ExpirationRate) BY Rates
  <2>4. r \in EntryRecords /\ r.waiting = <<>> /\ r.timer = 0
    BY <2>1, <2>2, <2>3 DEF EntryRecords
  <2> HIDE DEF r
  <2> QED BY <2>2, <2>4, Rates
<1> HIDE DEF r
<1>14. Fields' /\ OneEntryEach' /\ WaitsWhereAnswered'
  <2>1. B \ {e} = A \ {e} /\ B \subseteq Entries /\ e \notin B BY <1>5, <1>8
  <2>2. static' \ {e} = static \ {e} BY <1>6
  <2> HIDE DEF e
  <2> QED BY <1>1, <1>4, <1>7, <1>13, <2>1, <2>2, OneRecord DEF e
<1>15. LostBehind'
  <2>1. \A x, y \in Entries : Before(dynamic', x, y) /\ y \in B => Before(dynamic, x, y) /\ y \in A
    BY <1>8, <1>10
  <2> QED BY <1>1, <1>4, <1>7, <1>13, <2>1, OneMoved
<1>16. WalkWithin'
  <2>1. Len(dynamic') \in 1..Len(dynamic') BY <1>9, <1>10
  <2> QED BY <1>1, <1>6, <1>10, <1>12, <2>1, WalkOnKeeps
<1> QED BY <1>11, <1>12, <1>14, <1>15, <1>16 DEF IInv, Cache

-----------------------------------------------------------------------------
(* The invariant holds at the start, every step keeps it, and it says what  *)
(* the properties say.                                                      *)
LEMMA InitTrue == ASSUME ArpAssumption, Init PROVE IInv
<1> DEFINE N == Cardinality(Entries)
<1>1. /\ dynamic \in [1..N -> Entries] /\ ToSet(dynamic) = Entries
      /\ static = {} /\ ring = <<>> /\ count = 0 /\ walk = None
      /\ entry = [e \in Entries |->
                    [ip |-> None, known |-> FALSE, timer |-> 0, retries |-> 0,
                     interface |-> FALSE, waiting |-> <<>>]]
  BY DEF Init
<1>2. IsFiniteSet(Entries) /\ N \in Nat
  BY Rates, FS_CardinalityType
<1> HIDE DEF N
<1>3. dynamic \in Seq(Entries) /\ Len(dynamic) = N
  BY <1>1, <1>2
<1>4. Once(dynamic)
  <2>1. \A x \in Entries : \E i \in 1..N : dynamic[i] = x BY <1>1, <1>3, Places
  <2>2. dynamic \in Surjection(1..N, Entries) BY <1>1, <2>1 DEF Surjection
  <2>3. IsFiniteSet(1..N) /\ Cardinality(1..N) = N
    <3>1. 1 \in Int /\ N \in Int BY <1>2
    <3> QED BY <1>2, <3>1, FS_Interval
  <2>4. dynamic \in Injection(1..N, Entries)
    <3>1. Cardinality(1..N) = Cardinality(Entries) BY <2>3 DEF N
    <3> QED BY <2>2, <2>3, <3>1, FS_SurjSameCardinalityImpliesInj
  <2>5. DOMAIN dynamic = 1..N BY <1>1
  <2> QED BY <1>3, <2>4, <2>5 DEF Injection, IsInjective, Once
<1>5. ring \in Seq(Entries) /\ Once(ring) /\ ToSet(ring) = {}
  BY <1>1, EmptySeq DEF Once, ToSet
<1>6. Lists
  BY <1>1, <1>3, <1>4, <1>5 DEF Lists
<1>7. Counted
  <2>1. ToSet(ring) \ static = {} BY <1>5
  <2> QED BY <1>1, <2>1, FS_EmptySet DEF Counted
<1>8. Fields
  <2>1. <<>> \in Seq(Packets) /\ Len(<<>>) <= MaxQueue BY NothingWaits, Rates
  <2>2. 0 \in 0..(UpdateRate + ExpirationRate) /\ 0 \in 0..MaxRetries BY Rates
  <2>3. entry \in [Entries -> EntryRecords] BY <1>1, <2>1, <2>2 DEF EntryRecords
  <2>4. \A e \in Entries : entry[e].waiting = <<>> BY <1>1
  <2> QED BY <1>5, <2>1, <2>3, <2>4 DEF Fields
<1>9. OneEntryEach /\ LostBehind
  BY <1>5 DEF OneEntryEach, LostBehind, Active
<1>10. WaitsWhereAnswered
  BY <1>1 DEF WaitsWhereAnswered
<1>11. WalkWithin
  BY <1>1 DEF WalkWithin
<1> QED BY <1>6, <1>7, <1>8, <1>9, <1>10, <1>11 DEF IInv, Cache

LEMMA StepKeeps == ASSUME ArpAssumption, IInv, [Next]_vars PROVE IInv'
<1>1. Cache /\ WalkWithin
  BY DEF IInv
<1>2. CASE UNCHANGED vars
  <2>1. /\ dynamic' = dynamic /\ static' = static /\ ring' = ring /\ count' = count
        /\ entry' = entry /\ walk' = walk
    BY <1>2 DEF vars
  <2> QED BY <1>1, <2>1 DEF IInv, Cache, Lists, Counted, Fields, OneEntryEach,
       WaitsWhereAnswered, LostBehind, WalkWithin, WalkAt, Active, Silent
<1>3. CASE MutexFree /\ UNCHANGED walk /\ Cache'
  BY <1>3 DEF MutexFree, IInv, WalkWithin
<1>4. CASE /\ MutexFree /\ UNCHANGED walk
           /\ \/ \E a \in Addresses :
                   \/ \E k \in Packets : SendWait(k, a) \/ SendAllocate(k, a)
                   \/ SendKnown(a) \/ Receive(a) \/ ReceiveNew(a)
                   \/ Ask(a) \/ Set(a) \/ StaticMove(a) \/ StaticNew(a)
                   \/ StaticDelete(a) \/ Delete(a)
              \/ Invalidate
  <2>1. CASE Invalidate BY <1>1, <1>3, <1>4, <2>1, InvalidateKeeps
  <2>2. ASSUME NEW a \in Addresses, NEW k \in Packets, SendWait(k, a) PROVE Cache'
    BY <1>1, <2>2, SendWaitKeeps
  <2>3. ASSUME NEW a \in Addresses, NEW k \in Packets, SendAllocate(k, a) PROVE Cache'
    BY <1>1, <2>3, SendAllocateKeeps
  <2>4. ASSUME NEW a \in Addresses, SendKnown(a) PROVE Cache'
    BY <1>1, <2>4, SendKnownKeeps
  <2>5. ASSUME NEW a \in Addresses, Receive(a) \/ ReceiveNew(a) PROVE Cache'
    BY <1>1, <2>5, ReceiveKeeps
  <2>6. ASSUME NEW a \in Addresses, Ask(a) PROVE Cache'
    BY <1>1, <2>6, AskKeeps
  <2>7. ASSUME NEW a \in Addresses, Set(a) PROVE Cache'
    BY <1>1, <2>7, SetKeeps
  <2>8. ASSUME NEW a \in Addresses, StaticMove(a) PROVE Cache'
    BY <1>1, <2>8, StaticMoveKeeps
  <2>9. ASSUME NEW a \in Addresses, StaticNew(a) PROVE Cache'
    BY <1>1, <2>9, StaticNewKeeps
  <2>10. ASSUME NEW a \in Addresses, StaticDelete(a) PROVE Cache'
    BY <1>1, <2>10, StaticDeleteKeeps
  <2>11. ASSUME NEW a \in Addresses, Delete(a) PROVE Cache'
    BY <1>1, <2>11, DeleteKeeps
  <2> QED BY <1>3, <1>4, <2>1, <2>2, <2>3, <2>4, <2>5, <2>6, <2>7, <2>8, <2>9, <2>10, <2>11
<1>5. CASE PeriodicUpdate
  BY <1>5, PeriodStartKeeps, PeriodAgeKeeps, PeriodAskKeeps, PeriodGiveUpKeeps DEF PeriodicUpdate
<1> QED BY <1>2, <1>4, <1>5 DEF Next

LEMMA InvTyped == ASSUME ArpAssumption, IInv PROVE TypeOK
<1>1. Lists /\ Counted /\ Fields /\ WalkWithin
  BY DEF IInv, Cache
<1>2. /\ Cardinality(ToSet(ring) \ static) \in Nat /\ Cardinality(Entries) \in Nat
      /\ Cardinality(ToSet(ring) \ static) <= Cardinality(Entries)
  BY <1>1, Sets
<1>3. count \in 0..Cardinality(Entries)
  BY <1>1, <1>2 DEF Counted
<1>4. walk = None \/ (walk.i \in 0..(count - 1) /\ walk.at \in ToSet(dynamic))
  <2> SUFFICES ASSUME walk # None PROVE walk.i \in 0..(count - 1) /\ walk.at \in ToSet(dynamic)
    OBVIOUS
  <2>1. WalkAt(walk) BY <1>1 DEF WalkWithin
  <2>2. dynamic \in Seq(Entries) BY <1>1 DEF Lists
  <2>3. walk.i \in Nat /\ walk.i < count BY <2>1 DEF WalkAt
  <2>4. walk.at \in ToSet(dynamic) BY <2>1, <2>2, Places DEF WalkAt
  <2> QED BY <1>3, <2>3, <2>4
<1>5. \A e \in Entries : entry[e] \in EntryRecords /\ Len(entry[e].waiting) <= MaxQueue
  BY <1>1 DEF Fields
<1> QED BY <1>1, <1>3, <1>4, <1>5 DEF TypeOK, Lists, EntryRecords

LEMMA InvCounts == ASSUME ArpAssumption, IInv PROVE CountsActive
<1>1. Lists /\ Counted /\ OneEntryEach
  BY DEF IInv, Cache
<1>2. ToSet(ring) \subseteq Entries
  BY <1>1, Sets
<1>3. {e \in ToSet(dynamic) : Active(e)} = ToSet(ring) \ static
  BY <1>1, <1>2 DEF Lists, Active
<1>4. Len(dynamic) = Cardinality(ToSet(dynamic)) /\ Len(ring) = Cardinality(ToSet(ring))
  BY <1>1, OnceCount DEF Lists
<1>5. ASSUME NEW a \in Addresses PROVE Cardinality(Found(a)) <= 1
  <2>1. CASE Found(a) = {}
    <3>1. Cardinality({}) = 0 BY FS_EmptySet
    <3> QED BY <2>1, <3>1
  <2>2. CASE Found(a) # {}
    <3>1. PICK e : e \in Found(a) BY <2>2
    <3>2. Found(a) = {e} BY <1>1, <3>1 DEF Found, OneEntryEach
    <3>3. Cardinality({e}) = 1 BY FS_Singleton
    <3> QED BY <3>2, <3>3
  <2> QED BY <2>1, <2>2
<1> QED BY <1>1, <1>3, <1>4, <1>5 DEF CountsActive, Lists, Counted

LEMMA InvAsks == ASSUME ArpAssumption, IInv PROVE AsksThroughInterface
<1> SUFFICES ASSUME walk # None, entry[walk.at].timer > 0, ~ entry[walk.at].interface PROVE FALSE
  BY DEF AsksThroughInterface, MutexFree
<1> DEFINE e == walk.at
<1>1. Lists /\ Counted /\ Fields /\ LostBehind /\ WalkAt(walk)
  BY DEF IInv, Cache, WalkWithin
<1>2. PICK p \in 1..Len(dynamic) : dynamic[p] = e /\ p <= walk.i + 1
  BY <1>1 DEF WalkAt
<1>3. dynamic \in Seq(Entries) /\ Once(dynamic) /\ ToSet(dynamic) = Entries \ static
  BY <1>1 DEF Lists
<1>4. e \in Entries \ static
  BY <1>2, <1>3, Places
<1>5. ~ Silent(e)
  <2>1. entry[e].timer # 0 OBVIOUS
  <2> QED BY <2>1 DEF Silent
<1>6. ~ Active(e)
  BY <1>1, <1>4 DEF Fields, Active
<1>7. ASSUME NEW q \in 1..Len(dynamic), Active(dynamic[q]) PROVE q < p
  <2>1. q # p BY <1>2, <1>6, <1>7
  <2>2. ~ (p < q)
    <3> SUFFICES ASSUME p < q PROVE FALSE
      OBVIOUS
    <3>1. Before(dynamic, e, dynamic[q]) BY <1>2 DEF Before
    <3>2. dynamic[q] \in Entries BY <1>3, Places
    <3> QED BY <1>1, <1>4, <1>5, <1>7, <3>1, <3>2 DEF LostBehind
  <2>3. p \in Nat /\ q \in Nat BY <1>3
  <2> QED BY <2>1, <2>2, <2>3
<1>8. count <= p - 1
  BY <1>1, <1>7, AheadIs
<1>9. walk.i \in Nat /\ walk.i < count /\ count \in Nat
  BY <1>1, Sets DEF WalkAt, Counted
<1> QED BY <1>2, <1>3, <1>8, <1>9

-----------------------------------------------------------------------------
(* The cache keeps its invariant: list, ring and count agree, no address    *)
(* has two entries, packets wait only where they are found, and what lost   *)
(* its interface lies behind all that is active.                            *)
THEOREM ArpInvariant == ArpAssumption => (Spec => []IInv)
<1> SUFFICES ASSUME ArpAssumption PROVE Spec => []IInv
  OBVIOUS
<1>1. Init => IInv
  BY InitTrue
<1>2. IInv /\ [Next]_vars => IInv'
  BY StepKeeps
<1> QED BY <1>1, <1>2, PTL DEF Spec

(* Every variable keeps its type: no entry queues more than the bound, no   *)
(* entry is asked for more often than the retries, and the period stands at *)
(* a dynamic entry.                                                         *)
THEOREM ArpTyped == ArpAssumption => (Spec => []TypeOK)
<1> SUFFICES ASSUME ArpAssumption PROVE Spec => []TypeOK
  OBVIOUS
<1>1. IInv => TypeOK
  BY InvTyped
<1> QED BY <1>1, ArpInvariant, PTL

(* The count by which the walks stop is the number of the active dynamic    *)
(* entries, and no address has two entries.                                 *)
THEOREM CountIsTrue == ArpAssumption => (Spec => []CountsActive)
<1> SUFFICES ASSUME ArpAssumption PROVE Spec => []CountsActive
  OBVIOUS
<1>1. IInv => CountsActive
  BY InvCounts
<1> QED BY <1>1, ArpInvariant, PTL

(* A packet waits in one place, where an answer or the last retry finds it. *)
THEOREM PacketsWaitWhereAnswered == ArpAssumption => (Spec => []WaitsWhereAnswered)
<1> SUFFICES ASSUME ArpAssumption PROVE Spec => []WaitsWhereAnswered
  OBVIOUS
<1>1. IInv => WaitsWhereAnswered
  BY DEF IInv, Cache
<1> QED BY <1>1, ArpInvariant, PTL

(* No entry that lost its interface is asked for by the period, although    *)
(* the period visits entries that are not active.                           *)
THEOREM PeriodAsksThroughInterface == ArpAssumption => (Spec => []AsksThroughInterface)
<1> SUFFICES ASSUME ArpAssumption PROVE Spec => []AsksThroughInterface
  OBVIOUS
<1>1. IInv => AsksThroughInterface
  BY InvAsks
<1> QED BY <1>1, ArpInvariant, PTL

-----------------------------------------------------------------------------
(***************************************************************************)
(* UDP ports, for any sockets and ports: a socket has a port exactly when  *)
(* its bind says so, who waits is on the list of the socket that holds the *)
(* port, in the order it came, and a port that is given up goes to the     *)
(* first of them.  Any number may wait when no wait ends early; when one   *)
(* may, at most one at a time, for the waiters that are handed over with   *)
(* the port (nx_udp_socket_unbind.c:390-393) keep a pointer to the old     *)
(* owner, which a time-out uses (nx_udp_bind_cleanup.c:108).               *)
(***************************************************************************)
CONSTANTS Sockets, Ports, MaxWaiting, GiveUp
VARIABLES bound, port, inProgress, previous, list, nxt, prv, cleanup, tstate, result,
  unbinding, step

Udp == INSTANCE NetxUdpBind

(* The model's Cardinality is that of the facts about finite sets.          *)
LEMMA UdpCardinality ==
  \A S : Udp!Cardinality(S) = Cardinality(S) /\ (Udp!IsFiniteSet(S) <=> IsFiniteSet(S))
  BY DEF Udp!Cardinality, Cardinality, Udp!IsFiniteSet, IsFiniteSet

(* The place after i, round q.                                              *)
After(q, i) == IF i = Len(q) THEN 1 ELSE i + 1

(* q is the set W in the order its list has it, from the head h on, with    *)
(* links n forward and p back.                                              *)
Line(q, W, h, n, p) ==
  /\ q \in Seq(Sockets) /\ W = {q[i] : i \in 1..Len(q)}
  /\ \A i, j \in 1..Len(q) : q[i] = q[j] => i = j
  /\ h = IF q = <<>> THEN None ELSE q[1]
  /\ \A i \in 1..Len(q) : n[q[i]] = q[After(q, i)] /\ p[q[After(q, i)]] = q[i]

(* The port table, the results and who waits agree.                         *)
PortsTrue ==
  /\ \A p \in Ports : bound[p] # None => port[bound[p]] = p
  /\ Udp!ResultTellsTable
  /\ \A s \in Sockets : Udp!Bound(s) => ~ Udp!Waits(s)
WaitersTrue ==
  \A s \in Sockets :
    /\ (inProgress[s] <=> Udp!Waits(s)) /\ (cleanup[s] <=> Udp!Waits(s))
    /\ Udp!Waits(s) => port[s] \in Ports /\ Udp!Owner(port[s]) # None
UnbindTrue ==
  /\ unbinding = None <=> step = "none"
  /\ step = "handover" =>
       /\ ~ Udp!Bound(unbinding) /\ ~ Udp!Waits(unbinding)
       /\ port[unbinding] \in Ports /\ bound[port[unbinding]] = None
  /\ step = "cleanup" => GiveUp

(* Each owner of a port has its waiters in a line, and nobody else a list.  *)
Lined ==
  /\ \A p \in Ports : Udp!Owner(p) # None =>
       \E q \in Seq(Sockets) : Line(q, Udp!Waiting(p), list[Udp!Owner(p)], nxt, prv)
  /\ \A s \in Sockets : list[s] # None => \E p \in Ports : Udp!Owner(p) = s

(* In a step the lines stay, get one more at the end, or lose their first.  *)
Follows(q, z) == z = q \/ (\E t : z = Append(q, t)) \/ z = Tail(q)
LineGoesOn(r) ==
  Udp!Owner(r)' # None =>
        \E z \in Seq(Sockets) :
          /\ Line(z, Udp!Waiting(r)', list'[Udp!Owner(r)'], nxt', prv')
          /\ Udp!Owner(r) # None =>
                   \E q \in Seq(Sockets) :
                     Line(q, Udp!Waiting(r), list[Udp!Owner(r)], nxt, prv) /\ Follows(q, z)
LinesGoOn == \A r \in Ports : LineGoesOn(r)

(* When a wait may end early its thread is the only one that waits for the  *)
(* port, and knows who holds it.                                            *)
OneWaits ==
  GiveUp =>
    \A s \in Sockets : Udp!Waits(s) =>
      /\ previous[s] = Udp!Owner(port[s])
      /\ \A u \in Sockets : Udp!Waits(u) /\ port[u] = port[s] => u = s

BindInv == Udp!TypeOK /\ PortsTrue /\ WaitersTrue /\ UnbindTrue /\ Lined /\ OneWaits

(* What is known of how many wait.                                          *)
FewWait == Udp!UdpBindAssumption /\ (~ GiveUp \/ MaxWaiting <= 1)

-----------------------------------------------------------------------------
(* Who is on a line is linked to others on it, both ways.                    *)
LEMMA LineLinks ==
  ASSUME None \notin Sockets, NEW q, NEW W, NEW h, NEW n, NEW p, Line(q, W, h, n, p)
  PROVE  /\ W \subseteq Sockets /\ (h = None => W = {}) /\ (h # None => h \in W)
         /\ \A x \in W : n[x] \in W /\ p[x] \in W /\ p[n[x]] = x /\ n[p[x]] = x
<1>1. q \in Seq(Sockets) /\ Len(q) \in Nat BY DEF Line
<1>2. \A i \in 1..Len(q) : After(q, i) \in 1..Len(q) BY <1>1 DEF After
<1>3. \A i \in 1..Len(q) : \E j \in 1..Len(q) : After(q, j) = i
  <2> SUFFICES ASSUME NEW i \in 1..Len(q) PROVE \E j \in 1..Len(q) : After(q, j) = i
    OBVIOUS
  <2>1. CASE i = 1 BY <1>1, <2>1 DEF After
  <2>2. CASE i # 1
    <3>1. i - 1 \in 1..Len(q) /\ After(q, i - 1) = i BY <1>1, <2>2 DEF After
    <3> QED BY <3>1
  <2> QED BY <2>1, <2>2
<1>4. \A i \in 1..Len(q) : n[q[i]] = q[After(q, i)] /\ p[q[After(q, i)]] = q[i]
  BY DEF Line
<1>5. W = {q[i] : i \in 1..Len(q)} BY DEF Line
<1>6. h = IF q = <<>> THEN None ELSE q[1] BY DEF Line
<1>7. \A x \in W : n[x] \in W /\ p[x] \in W /\ p[n[x]] = x /\ n[p[x]] = x
  <2> TAKE x \in W
  <2>2. PICK i \in 1..Len(q) : x = q[i] BY <1>5
  <2>1. PICK j \in 1..Len(q) : After(q, j) = i BY <1>3
  <2>3. n[x] = q[After(q, i)] /\ p[n[x]] = x BY <1>4, <2>2
  <2>4. p[x] = q[j] /\ n[p[x]] = x BY <1>4, <2>1, <2>2
  <2> QED BY <1>2, <1>5, <2>3, <2>4
<1>8. W \subseteq Sockets BY <1>1, <1>5
<1>9. CASE q = <<>>
  <2>1. h = None /\ W = {} BY <1>5, <1>6, <1>9
  <2> QED BY <2>1
<1>10. CASE q # <<>>
  <2>1. h = q[1] /\ 1 \in 1..Len(q) BY <1>1, <1>6, <1>10
  <2>2. h \in W BY <1>5, <2>1
  <2> QED BY <1>7, <1>8, <2>2
<1> QED BY <1>9, <1>10

(* Only the links of the members matter.                                    *)
LEMMA SameLine ==
  ASSUME NEW q, NEW W, NEW h, NEW n, NEW p, Line(q, W, h, n, p),
         NEW n2, NEW p2, \A x \in W : n2[x] = n[x] /\ p2[x] = p[x]
  PROVE  Line(q, W, h, n2, p2)
<1>1. \A i \in 1..Len(q) : After(q, i) \in 1..Len(q) BY DEF After, Line
<1> QED BY <1>1 DEF Line

(* One more comes last,                                                     *)
LEMMA AppendLine ==
  ASSUME None \notin Sockets, NEW q, NEW W, NEW h, NEW n \in [Sockets -> Sockets],
         NEW p \in [Sockets -> Sockets],
         Line(q, W, h, n, p), NEW t \in Sockets, t \notin W, NEW n2, NEW p2,
         n2 = IF h = None THEN [n EXCEPT ![t] = t] ELSE [n EXCEPT ![t] = h, ![p[h]] = t],
         p2 = IF h = None THEN [p EXCEPT ![t] = t] ELSE [p EXCEPT ![t] = p[h], ![h] = t]
  PROVE  /\ Append(q, t) \in Seq(Sockets)
         /\ Line(Append(q, t), W \cup {t}, IF h = None THEN t ELSE h, n2, p2)
<1> DEFINE r == Append(q, t)
           m == Len(q)
<1>1. q \in Seq(Sockets) /\ m \in Nat /\ r \in Seq(Sockets) /\ Len(r) = m + 1
  BY DEF Line
<1>2. (\A i \in 1..m : r[i] = q[i]) /\ r[m + 1] = t BY <1>1
<1>3. W = {q[i] : i \in 1..m} /\ h = (IF q = <<>> THEN None ELSE q[1])
  BY DEF Line
<1>4. \A i, j \in 1..m : q[i] = q[j] => i = j BY DEF Line
<1>5. \A i \in 1..m : n[q[i]] = q[After(q, i)] /\ p[q[After(q, i)]] = q[i]
  BY DEF Line
<1>6. q = <<>> <=> m = 0 BY <1>1
<1>7. h = None <=> m = 0 BY <1>1, <1>3, <1>6
<1> HIDE DEF r, m
<1>8. r # <<>> /\ r[1] = IF h = None THEN t ELSE h
  BY <1>1, <1>2, <1>3, <1>6, <1>7
<1>9. W \cup {t} = {r[i] : i \in 1..Len(r)}
  <2>1. \A i \in 1..m : i \in 1..m + 1 BY <1>1
  <2>2. \A i \in 1..m + 1 : i = m + 1 \/ i \in 1..m BY <1>1
  <2>3. m + 1 \in 1..m + 1 BY <1>1
  <2> QED BY <1>1, <1>2, <1>3, <2>1, <2>2, <2>3
<1>10. ASSUME NEW i \in 1..Len(r), NEW j \in 1..Len(r), r[i] = r[j] PROVE i = j
  <2>1. \A k \in 1..m : r[k] # t BY <1>2, <1>3
  <2> QED BY <1>1, <1>2, <1>4, <1>10, <2>1
<1>11. ASSUME NEW i \in 1..Len(r)
       PROVE  n2[r[i]] = r[After(r, i)] /\ p2[r[After(r, i)]] = r[i]
  <2>1. CASE m = 0
    <3>1. i = 1 /\ After(r, i) = 1 /\ r[1] = t BY <1>1, <1>2, <2>1 DEF After
    <3> QED BY <3>1, <1>7, <2>1
  <2>2. CASE m # 0
    <3>1. /\ h = q[1] /\ h \in Sockets /\ p[h] = q[m] /\ p[h] \in Sockets
          /\ n[p[h]] = h /\ h # t /\ p[h] # t /\ After(q, m) = 1
      <4>1. 1 \in 1..m /\ m \in 1..m BY <1>1, <2>2
      <4>2. h = q[1] /\ h \in W BY <1>3, <1>6, <2>2, <4>1
      <4>3. After(q, m) = 1 BY DEF After, m
      <4>4. p[h] = q[m] /\ n[q[m]] = h /\ q[m] \in W BY <1>3, <1>5, <4>1, <4>2, <4>3
      <4>5. h \in W /\ p[h] \in W /\ W \subseteq Sockets BY <4>2, <4>4, LineLinks
      <4> QED BY <4>2, <4>3, <4>4, <4>5
    <3>2. n2 = [n EXCEPT ![t] = h, ![p[h]] = t] /\ p2 = [p EXCEPT ![t] = p[h], ![h] = t]
      BY <1>7, <2>2
    <3>3. n2[t] = h /\ n2[p[h]] = t /\ \A x \in Sockets : x # t /\ x # p[h] => n2[x] = n[x]
      BY <3>1, <3>2
    <3>4. p2[t] = p[h] /\ p2[h] = t /\ \A x \in Sockets : x # t /\ x # h => p2[x] = p[x]
      BY <3>1, <3>2
    <3>5. CASE i = m + 1
      <4>1. After(r, i) = 1 /\ r[i] = t /\ r[1] = h BY <1>1, <1>2, <1>7, <1>8, <2>2, <3>5 DEF After
      <4> QED BY <3>3, <3>4, <4>1
    <3>6. CASE i = m
      <4>1. After(r, i) = m + 1 /\ r[i] = p[h] /\ r[m + 1] = t
        BY <1>1, <1>2, <2>2, <3>1, <3>6 DEF After
      <4> QED BY <3>3, <3>4, <4>1
    <3>7. CASE i # m /\ i # m + 1
      <4>1. i \in 1..m /\ After(r, i) = i + 1 /\ i + 1 \in 1..m /\ After(q, i) = i + 1
        BY <1>1, <3>7 DEF After, m
      <4>2. r[i] = q[i] /\ r[i + 1] = q[i + 1] /\ q[i] \in Sockets /\ q[i + 1] \in Sockets
        BY <1>1, <1>2, <4>1 DEF m
      <4>3. q[i] # p[h] /\ q[i + 1] # h
        <5>1. 1 \in 1..m /\ m \in 1..m /\ i + 1 # 1 BY <1>1, <2>2, <4>1
        <5> QED BY <1>4, <3>1, <3>7, <4>1, <5>1
      <4>4. q[i] # t /\ q[i + 1] # t BY <1>3, <4>1
      <4> QED BY <1>5, <3>3, <3>4, <4>1, <4>2, <4>3, <4>4
    <3> QED BY <1>1, <3>5, <3>6, <3>7
  <2> QED BY <2>1, <2>2
<1> QED BY <1>1, <1>8, <1>9, <1>10, <1>11 DEF Line, r

(* and the first one leaves.                                                *)
LEMMA TailLine ==
  ASSUME None \notin Sockets, NEW q, NEW W, NEW h, NEW n \in [Sockets -> Sockets],
         NEW p \in [Sockets -> Sockets], Line(q, W, h, n, p), h # None, NEW n2, NEW p2,
         n2 = IF n[h] = h THEN n ELSE [n EXCEPT ![p[h]] = n[h]],
         p2 = IF n[h] = h THEN p ELSE [p EXCEPT ![n[h]] = p[h]]
  PROVE  /\ q # <<>> /\ q[1] = h /\ Tail(q) \in Seq(Sockets)
         /\ Line(Tail(q), W \ {h}, IF n[h] = h THEN None ELSE n[h], n2, p2)
<1> DEFINE r == Tail(q)
           m == Len(q)
<1>1. q # <<>> /\ q[1] = h BY DEF Line
<1>2. q \in Seq(Sockets) /\ m \in Nat /\ m > 0 /\ r \in Seq(Sockets) /\ Len(r) = m - 1
  BY <1>1 DEF Line
<1>3. \A i \in 1..m - 1 : r[i] = q[i + 1] BY <1>1, <1>2
<1>4. W = {q[i] : i \in 1..m} BY DEF Line
<1>5. \A i, j \in 1..m : q[i] = q[j] => i = j BY DEF Line
<1>6. \A i \in 1..m : n[q[i]] = q[After(q, i)] /\ p[q[After(q, i)]] = q[i]
  BY DEF Line
<1>7. r = <<>> <=> m = 1
  <2>1. Len(r) = 0 <=> m = 1 BY <1>2
  <2>2. r = <<>> <=> Len(r) = 0
    <3> HIDE DEF r
    <3> QED BY <1>2, EmptySeq
  <2> QED BY <2>1, <2>2
<1> HIDE DEF r, m
<1>8. 1 \in 1..m /\ m \in 1..m /\ After(q, m) = 1 /\ p[h] = q[m] /\ n[q[m]] = h
  <2>1. 1 \in 1..m /\ m \in 1..m BY <1>2
  <2>2. After(q, m) = 1 BY DEF After, m
  <2> QED BY <1>1, <1>6, <2>1, <2>2
<1>9. n[h] = h <=> m = 1
  <2>1. m # 1 => After(q, 1) = 2 /\ 2 \in 1..m BY <1>2 DEF After, m
  <2> QED BY <1>1, <1>5, <1>6, <1>8, <2>1
<1>10. W \ {h} = {r[i] : i \in 1..Len(r)}
  <2>1. \A i \in 1..m - 1 : i + 1 \in 1..m /\ i + 1 # 1 BY <1>2
  <2>2. \A i \in 1..m : i # 1 => i - 1 \in 1..m - 1 /\ (i - 1) + 1 = i BY <1>2
  <2>3. \A i \in 1..m : q[i] = h <=> i = 1 BY <1>1, <1>5, <1>8
  <2>4. ASSUME NEW x \in W \ {h} PROVE \E i \in 1..Len(r) : x = r[i]
    <3>1. PICK i \in 1..m : x = q[i] /\ i # 1 BY <1>4, <2>3
    <3>2. i - 1 \in 1..Len(r) /\ r[i - 1] = x
      <4>1. i - 1 \in 1..m - 1 /\ (i - 1) + 1 = i BY <2>2, <3>1
      <4>2. r[i - 1] = q[(i - 1) + 1] BY <1>3, <4>1
      <4> QED BY <1>2, <3>1, <4>1, <4>2
    <3> QED BY <3>2
  <2>5. ASSUME NEW i \in 1..Len(r) PROVE r[i] \in W \ {h}
    <3>1. r[i] = q[i + 1] /\ i + 1 \in 1..m /\ i + 1 # 1 BY <1>2, <1>3, <2>1
    <3> QED BY <1>4, <2>3, <3>1
  <2> QED BY <2>4, <2>5
<1>11. ASSUME NEW i \in 1..Len(r), NEW j \in 1..Len(r), r[i] = r[j] PROVE i = j
  <2>1. r[i] = q[i + 1] /\ r[j] = q[j + 1] /\ i + 1 \in 1..m /\ j + 1 \in 1..m
    BY <1>2, <1>3
  <2>2. i + 1 = j + 1 BY <1>5, <1>11, <2>1
  <2> QED BY <2>2
<1>12. (IF n[h] = h THEN None ELSE n[h]) = IF r = <<>> THEN None ELSE r[1]
  <2>1. m # 1 => After(q, 1) = 2 /\ 1 \in 1..m - 1 BY <1>2 DEF After, m
  <2> QED BY <1>1, <1>3, <1>6, <1>7, <1>8, <1>9, <2>1
<1>13. ASSUME NEW i \in 1..Len(r)
       PROVE  n2[r[i]] = r[After(r, i)] /\ p2[r[After(r, i)]] = r[i]
  <2>1. m > 1 /\ m \in 1..m /\ 2 \in 1..m /\ 1 \in 1..m - 1 /\ m - 1 \in 1..m - 1
    BY <1>2
  <2>2. /\ After(q, 1) = 2 /\ n[h] = q[2] /\ q[2] = r[1] /\ q[m] = r[m - 1]
        /\ q[2] \in Sockets /\ q[m] \in Sockets
    BY <1>1, <1>2, <1>3, <1>6, <1>8, <2>1 DEF After, m
  <2>3. n2 = [n EXCEPT ![q[m]] = q[2]] /\ p2 = [p EXCEPT ![q[2]] = q[m]]
    BY <1>8, <1>9, <2>1, <2>2
  <2>4. CASE i = m - 1
    <3>1. After(r, i) = 1 BY <1>2, <2>4 DEF After
    <3> QED BY <2>2, <2>3, <2>4, <3>1
  <2>5. CASE i # m - 1
    <3>1. /\ After(r, i) = i + 1 /\ i + 1 \in 1..m - 1 /\ i \in 1..m - 1
          /\ i + 1 \in 1..m /\ (i + 1) + 1 \in 1..m /\ After(q, i + 1) = (i + 1) + 1
          /\ i + 1 # m /\ (i + 1) + 1 # 2
      BY <1>2, <2>5 DEF After, m
    <3>2. r[i] = q[i + 1] /\ r[i + 1] = q[(i + 1) + 1] BY <1>3, <3>1
    <3>3. q[i + 1] # q[m] /\ q[(i + 1) + 1] # q[2] BY <1>5, <2>1, <3>1
    <3>4. q[i + 1] \in Sockets /\ q[(i + 1) + 1] \in Sockets BY <1>2, <3>1 DEF m
    <3>5. n2[q[i + 1]] = n[q[i + 1]] /\ p2[q[(i + 1) + 1]] = p[q[(i + 1) + 1]]
      BY <2>2, <2>3, <3>3, <3>4
    <3> QED BY <1>6, <3>1, <3>2, <3>5
  <2> QED BY <2>4, <2>5
<1> QED BY <1>1, <1>2, <1>10, <1>11, <1>12, <1>13 DEF Line, r

(* The line of one, and of none.                                            *)
LEMMA EmptyLine == ASSUME NEW n, NEW p PROVE <<>> \in Seq(Sockets) /\ Line(<<>>, {}, None, n, p)
BY DEF Line

(* One who waits alone is linked to itself.                                 *)
LEMMA LoneLine ==
  ASSUME None \notin Sockets, NEW q, NEW t, NEW h, NEW n, NEW p, Line(q, {t}, h, n, p)
  PROVE  h = t /\ n[t] = t
<1>1. h # None => h \in {t} BY LineLinks
<1>2. h = None => {t} = {} BY LineLinks
<1>3. n[t] \in {t} BY LineLinks
<1> QED BY <1>1, <1>2, <1>3
-----------------------------------------------------------------------------
(* An owner holds one port and does not wait.                               *)
LEMMA OwnerFacts ==
  ASSUME Udp!UdpBindAssumption, BindInv, NEW p \in Ports
  PROVE  /\ Udp!Owner(p) \in Sockets \cup {None}
         /\ Udp!Owner(p) # None => port[Udp!Owner(p)] = p /\ ~ Udp!Waits(Udp!Owner(p))
         /\ Udp!MutexFree => Udp!Owner(p) = bound[p]
         /\ Udp!Owner(p) = None => Udp!Waiting(p) = {}
<1>1. bound[p] \in Sockets \cup {None} /\ unbinding \in Sockets \cup {None}
  BY DEF BindInv, Udp!TypeOK
<1>2. Udp!Owner(p) \in Sockets \cup {None} BY <1>1 DEF Udp!Owner
<1>3. ASSUME Udp!Owner(p) # None PROVE port[Udp!Owner(p)] = p /\ ~ Udp!Waits(Udp!Owner(p))
  <2>1. CASE bound[p] # None
    <3>1. Udp!Owner(p) = bound[p] BY <2>1 DEF Udp!Owner
    <3> QED BY <1>1, <2>1, <3>1 DEF BindInv, PortsTrue, Udp!Bound
  <2>2. CASE bound[p] = None
    <3>1. Udp!Owner(p) = unbinding /\ step = "handover" /\ port[unbinding] = p
      BY <1>3, <2>2 DEF Udp!Owner
    <3> QED BY <3>1 DEF BindInv, UnbindTrue
  <2> QED BY <2>1, <2>2
<1>4. Udp!MutexFree => Udp!Owner(p) = bound[p] BY DEF Udp!Owner, Udp!MutexFree
<1>5. Udp!Owner(p) = None => Udp!Waiting(p) = {} BY DEF BindInv, WaitersTrue, Udp!Waiting
<1> QED BY <1>2, <1>3, <1>4, <1>5

(* No socket holds two ports.                                               *)
LEMMA OneOwner ==
  ASSUME Udp!UdpBindAssumption, BindInv, NEW p \in Ports, NEW r \in Ports, Udp!Owner(p) = Udp!Owner(r),
         Udp!Owner(p) # None
  PROVE  p = r
BY OwnerFacts

(* The invariant holds at first.                                            *)
LEMMA BindInit == ASSUME Udp!UdpBindAssumption, Udp!Init PROVE BindInv
<1>1. Udp!TypeOK
  <2>1. inProgress \in [Sockets -> BOOLEAN] /\ cleanup \in [Sockets -> BOOLEAN]
    BY Zenon DEF Udp!Init
  <2> QED BY <2>1 DEF Udp!Init, Udp!TypeOK
<1>2. PortsTrue BY DEF Udp!Init, PortsTrue, Udp!ResultTellsTable, Udp!Bound, Udp!UdpBindAssumption
<1>3. WaitersTrue BY DEF Udp!Init, WaitersTrue, Udp!Waits
<1>4. UnbindTrue BY DEF Udp!Init, UnbindTrue
<1>5. Lined BY DEF Udp!Init, Lined, Udp!Owner
<1>6. OneWaits BY DEF Udp!Init, OneWaits, Udp!Waits
<1> QED BY <1>1, <1>2, <1>3, <1>4, <1>5, <1>6 DEF BindInv

(* Lines that go on are lines after the step; and nothing changes them when *)
(* no owner, waiter or link changes.                                        *)
LEMMA LinesStay ==
  ASSUME \A r \in Ports : Udp!Owner(r)' # None => LineGoesOn(r),
         \A s \in Sockets : list'[s] # None => \E p \in Ports : Udp!Owner(p)' = s
  PROVE  Lined' /\ LinesGoOn
<1>1. LinesGoOn BY DEF LinesGoOn, LineGoesOn
<1>2. \A r \in Ports : Udp!Owner(r)' # None =>
        \E z \in Seq(Sockets) : Line(z, Udp!Waiting(r)', list'[Udp!Owner(r)'], nxt', prv')
  BY <1>1 DEF LinesGoOn, LineGoesOn
<1> QED BY <1>1, <1>2 DEF Lined

(* Lines stay when nothing about them changes.                              *)
LEMMA SameLines ==
  ASSUME Lined, \A r \in Ports : Udp!Owner(r)' = Udp!Owner(r) /\ Udp!Waiting(r)' = Udp!Waiting(r),
         list' = list, nxt' = nxt, prv' = prv
  PROVE  Lined' /\ LinesGoOn
<1>1. ASSUME NEW r \in Ports, Udp!Owner(r)' # None PROVE LineGoesOn(r)
  <2>1. PICK q \in Seq(Sockets) : Line(q, Udp!Waiting(r), list[Udp!Owner(r)], nxt, prv)
    BY <1>1 DEF Lined
  <2>2. Line(q, Udp!Waiting(r)', list'[Udp!Owner(r)'], nxt', prv') BY <2>1
  <2> QED BY <2>1, <2>2 DEF LineGoesOn, Follows
<1>2. \A s \in Sockets : list'[s] # None => \E p \in Ports : Udp!Owner(p)' = s
  BY DEF Lined
<1> QED BY <1>1, <1>2, LinesStay

(* Each action keeps the invariant and the lines: bind to a free port,      *)
LEMMA BindFreeKeeps ==
  ASSUME FewWait, BindInv, NEW s \in Sockets, NEW p \in Ports, Udp!BindFree(s, p)
  PROVE  BindInv' /\ LinesGoOn
<1>0. Udp!UdpBindAssumption BY DEF FewWait
<1>1. /\ Udp!MutexFree /\ tstate[s] = "running" /\ ~ Udp!Bound(s) /\ ~ inProgress[s] /\ bound[p] = None
      /\ bound' = [bound EXCEPT ![p] = s] /\ port' = [port EXCEPT ![s] = p]
      /\ previous' = [previous EXCEPT ![s] = None]
      /\ result' = [result EXCEPT ![s] = "SUCCESS"]
      /\ inProgress' = inProgress /\ list' = list /\ nxt' = nxt /\ prv' = prv
      /\ cleanup' = cleanup /\ tstate' = tstate /\ unbinding' = unbinding /\ step' = step
  BY DEF Udp!BindFree, Udp!MayBind, Udp!threadVars, Udp!mutexVars
<1>2. Udp!TypeOK /\ PortsTrue /\ WaitersTrue /\ UnbindTrue /\ Lined /\ OneWaits
  BY DEF BindInv
<1>3. s # None /\ unbinding = None /\ step = "none"
  BY <1>0, <1>1, <1>2 DEF Udp!UdpBindAssumption, Udp!MutexFree, UnbindTrue
<1>4. Udp!TypeOK' BY <1>1, <1>2 DEF Udp!TypeOK
<1>5. /\ bound'[p] = s /\ \A r \in Ports : r # p => bound'[r] = bound[r]
      /\ port'[s] = p /\ \A u \in Sockets : u # s => port'[u] = port[u]
      /\ result'[s] = "SUCCESS" /\ \A u \in Sockets : u # s => result'[u] = result[u]
  BY <1>1, <1>2 DEF Udp!TypeOK
<1>6. \A r \in Ports : bound[r] # s /\ bound[r] \in Sockets \cup {None}
  BY <1>1, <1>2 DEF Udp!Bound, Udp!TypeOK
<1>7. \A u \in Sockets : Udp!Waits(u)' <=> Udp!Waits(u)
  BY <1>1 DEF Udp!Waits
<1>8. ~ Udp!Waits(s) BY <1>1 DEF Udp!Waits
<1>9. \A u \in Sockets : u # s => (Udp!Bound(u)' <=> Udp!Bound(u))
  BY <1>0, <1>1, <1>3, <1>5 DEF Udp!Bound, Udp!UdpBindAssumption
<1>10. Udp!Bound(s)' BY <1>5 DEF Udp!Bound
<1>11. PortsTrue'
  <2>1. \A r \in Ports : bound'[r] # None => port'[bound'[r]] = r
    BY <1>2, <1>5, <1>6 DEF PortsTrue
  <2>2. Udp!ResultTellsTable'
    BY <1>2, <1>5, <1>9, <1>10 DEF PortsTrue, Udp!ResultTellsTable
  <2>3. \A u \in Sockets : Udp!Bound(u)' => ~ Udp!Waits(u)'
    BY <1>2, <1>7, <1>8, <1>9 DEF PortsTrue
  <2> QED BY <2>1, <2>2, <2>3 DEF PortsTrue
<1>12. \A r \in Ports : Udp!Owner(r) = bound[r] /\ Udp!Owner(r)' = bound'[r]
  BY <1>1, <1>3 DEF Udp!Owner
<1>13. \A r \in Ports : Udp!Waiting(r)' = Udp!Waiting(r)
  BY <1>5, <1>7, <1>8 DEF Udp!Waiting
<1>14. WaitersTrue'
  BY <1>1, <1>2, <1>3, <1>5, <1>7, <1>8, <1>12 DEF WaitersTrue
<1>15. UnbindTrue' BY <1>1, <1>3 DEF UnbindTrue
<1>16. Lined' /\ LinesGoOn
  <2>1. ASSUME NEW r \in Ports, Udp!Owner(r)' # None PROVE LineGoesOn(r)
    <3>1. CASE r # p
      <4>1. Udp!Owner(r)' = Udp!Owner(r) BY <1>5, <1>12, <3>1
      <4>2. PICK q \in Seq(Sockets) : Line(q, Udp!Waiting(r), list[Udp!Owner(r)], nxt, prv)
        BY <1>2, <2>1, <4>1 DEF Lined
      <4>3. Line(q, Udp!Waiting(r)', list'[Udp!Owner(r)'], nxt', prv')
        BY <1>1, <1>13, <4>1, <4>2
      <4> QED BY <4>2, <4>3 DEF LineGoesOn, Follows
    <3>2. CASE r = p
      <4>1. Udp!Waiting(p)' = {} BY <1>0, <1>1, <1>12, <1>13, OwnerFacts
      <4>2. list'[s] = None BY <1>1, <1>2, <1>6, <1>12 DEF Lined
      <4>3. Udp!Owner(p)' = s /\ Udp!Owner(p) = None BY <1>1, <1>5, <1>12
      <4>4. Line(<<>>, Udp!Waiting(p)', list'[Udp!Owner(p)'], nxt', prv') /\ <<>> \in Seq(Sockets)
        BY <4>1, <4>2, <4>3, EmptyLine
      <4> QED BY <3>2, <4>3, <4>4 DEF LineGoesOn
    <3> QED BY <3>1, <3>2
  <2>2. \A u \in Sockets : list'[u] # None => \E r \in Ports : Udp!Owner(r)' = u
    BY <1>0, <1>1, <1>2, <1>5, <1>12 DEF Lined, Udp!UdpBindAssumption
  <2> QED BY <2>1, <2>2, LinesStay
<1>17. OneWaits'
  BY <1>1, <1>2, <1>3, <1>5, <1>7, <1>8, <1>12, OwnerFacts DEF OneWaits, WaitersTrue, Udp!TypeOK
<1> QED BY <1>4, <1>11, <1>14, <1>15, <1>16, <1>17 DEF BindInv

(* bind to one that is taken, without waiting,                              *)
LEMMA BindUnavailableKeeps ==
  ASSUME FewWait, BindInv, NEW s \in Sockets, NEW p \in Ports, Udp!BindUnavailable(s, p)
  PROVE  BindInv' /\ LinesGoOn
<1>0. Udp!UdpBindAssumption BY DEF FewWait
<1>1. /\ Udp!MutexFree /\ tstate[s] = "running" /\ ~ Udp!Bound(s) /\ ~ inProgress[s]
      /\ port' = [port EXCEPT ![s] = p] /\ result' = [result EXCEPT ![s] = "UNAVAILABLE"]
      /\ bound' = bound /\ inProgress' = inProgress /\ previous' = previous
      /\ list' = list /\ nxt' = nxt /\ prv' = prv /\ cleanup' = cleanup
      /\ tstate' = tstate /\ unbinding' = unbinding /\ step' = step
  BY DEF Udp!BindUnavailable, Udp!MayBind, Udp!threadVars, Udp!mutexVars
<1>2. Udp!TypeOK /\ PortsTrue /\ WaitersTrue /\ UnbindTrue /\ Lined /\ OneWaits
  BY DEF BindInv
<1>3. unbinding = None /\ step = "none"
  BY <1>1, <1>2 DEF Udp!MutexFree, UnbindTrue
<1>4. Udp!TypeOK' BY <1>1, <1>2 DEF Udp!TypeOK
<1>5. /\ \A u \in Sockets : u # s => port'[u] = port[u] /\ result'[u] = result[u]
      /\ result'[s] = "UNAVAILABLE"
  BY <1>1, <1>2 DEF Udp!TypeOK
<1>6. \A r \in Ports : bound[r] # s /\ bound[r] \in Sockets \cup {None}
  BY <1>1, <1>2 DEF Udp!Bound, Udp!TypeOK
<1>7. \A u \in Sockets : (Udp!Waits(u)' <=> Udp!Waits(u)) /\ (Udp!Bound(u)' <=> Udp!Bound(u))
  BY <1>1 DEF Udp!Waits, Udp!Bound
<1>8. ~ Udp!Waits(s) BY <1>1 DEF Udp!Waits
<1>9. PortsTrue'
  <2>1. \A r \in Ports : bound'[r] # None => port'[bound'[r]] = r
    BY <1>1, <1>2, <1>5, <1>6 DEF PortsTrue
  <2>2. Udp!ResultTellsTable'
    BY <1>1, <1>2, <1>5, <1>7 DEF PortsTrue, Udp!ResultTellsTable
  <2> QED BY <1>2, <1>7, <2>1, <2>2 DEF PortsTrue
<1>10. \A r \in Ports : Udp!Owner(r) = bound[r] /\ Udp!Owner(r)' = bound[r]
  BY <1>1, <1>3 DEF Udp!Owner
<1>11. \A r \in Ports : Udp!Waiting(r)' = Udp!Waiting(r)
  BY <1>5, <1>7, <1>8 DEF Udp!Waiting
<1>12. WaitersTrue'
  BY <1>1, <1>2, <1>5, <1>7, <1>8, <1>10 DEF WaitersTrue
<1>13. UnbindTrue' BY <1>1, <1>3 DEF UnbindTrue
<1>14. Lined' /\ LinesGoOn
  <2>1. /\ \A r \in Ports : Udp!Owner(r)' = Udp!Owner(r) /\ Udp!Waiting(r)' = Udp!Waiting(r)
        /\ list' = list /\ nxt' = nxt /\ prv' = prv
    BY <1>1, <1>10, <1>11
  <2> QED BY <1>2, <2>1, SameLines
<1>15. OneWaits'
  BY <1>1, <1>2, <1>5, <1>7, <1>8, <1>10 DEF OneWaits, WaitersTrue
<1> QED BY <1>4, <1>9, <1>12, <1>13, <1>14, <1>15 DEF BindInv

(* When at most one may wait, none does yet.                                *)
LEMMA NoneWaitsYet ==
  ASSUME FewWait, GiveUp, BindInv, NEW p \in Ports,
         Cardinality({w \in Sockets : inProgress[w] /\ port[w] = p}) < MaxWaiting
  PROVE  Udp!Waiting(p) = {}
<1> DEFINE W == {w \in Sockets : inProgress[w] /\ port[w] = p}
<1>1. IsFiniteSet(W) BY FS_Subset, UdpCardinality DEF FewWait, Udp!UdpBindAssumption
<1>2. Cardinality(W) \in Nat /\ Cardinality(W) < 1
  <2>1. Cardinality(W) \in Nat
    <3> HIDE DEF W
    <3> QED BY <1>1, FS_CardinalityType
  <2>2. MaxWaiting \in Nat /\ MaxWaiting <= 1 /\ Cardinality(W) < MaxWaiting
    BY DEF FewWait, Udp!UdpBindAssumption
  <2> HIDE DEF W
  <2> QED BY <2>1, <2>2
<1>3. W = {}
  <2> HIDE DEF W
  <2>1. Cardinality(W) = 0 BY <1>2
  <2> QED BY <1>1, <2>1, FS_EmptySet
<1> QED BY <1>3 DEF Udp!Waiting, BindInv, WaitersTrue

(* bind that waits, at the end of the line,                                 *)
LEMMA BindWaitKeeps ==
  ASSUME FewWait, BindInv, NEW s \in Sockets, NEW p \in Ports, Udp!BindWait(s, p)
  PROVE  BindInv' /\ LinesGoOn
<1>0. Udp!UdpBindAssumption BY DEF FewWait
<1> DEFINE o == bound[p]
           h == list[o]
<1>1. /\ Udp!MutexFree /\ tstate[s] = "running" /\ ~ Udp!Bound(s) /\ ~ inProgress[s] /\ o # None
      /\ Cardinality({w \in Sockets : inProgress[w] /\ port[w] = p}) < MaxWaiting
      /\ port' = [port EXCEPT ![s] = p] /\ previous' = [previous EXCEPT ![s] = o]
      /\ inProgress' = [inProgress EXCEPT ![s] = TRUE]
      /\ list' = [list EXCEPT ![o] = IF h = None THEN s ELSE h]
      /\ nxt' = IF h = None THEN [nxt EXCEPT ![s] = s]
                ELSE [nxt EXCEPT ![s] = h, ![prv[h]] = s]
      /\ prv' = IF h = None THEN [prv EXCEPT ![s] = s]
                ELSE [prv EXCEPT ![s] = prv[h], ![h] = s]
      /\ cleanup' = [cleanup EXCEPT ![s] = TRUE]
      /\ tstate' = [tstate EXCEPT ![s] = "suspended"]
      /\ bound' = bound /\ result' = result /\ unbinding' = unbinding /\ step' = step
  BY UdpCardinality DEF Udp!BindWait, Udp!WaitOn, Udp!MayBind, Udp!mutexVars
<1>2. Udp!TypeOK /\ PortsTrue /\ WaitersTrue /\ UnbindTrue /\ Lined /\ OneWaits
  BY DEF BindInv
<1>3. s # None /\ None \notin Sockets /\ unbinding = None /\ step = "none" /\ o \in Sockets
  BY <1>0, <1>1, <1>2 DEF Udp!UdpBindAssumption, Udp!MutexFree, UnbindTrue, Udp!TypeOK
<1>4. \A r \in Ports : bound[r] # s /\ bound[r] \in Sockets \cup {None}
  BY <1>1, <1>2 DEF Udp!Bound, Udp!TypeOK
<1>5. \A r \in Ports : Udp!Owner(r) = bound[r] /\ Udp!Owner(r)' = bound[r]
  BY <1>1, <1>3 DEF Udp!Owner
<1>6. ~ Udp!Waits(s) /\ o # s BY <1>1, <1>4 DEF Udp!Waits
<1>7. Udp!Waits(s)' /\ port'[s] = p /\ inProgress'[s] /\ cleanup'[s] /\ previous'[s] = o
  BY <1>1, <1>2 DEF Udp!Waits, Udp!TypeOK
<1>8. \A u \in Sockets : u # s =>
        /\ (Udp!Waits(u)' <=> Udp!Waits(u)) /\ port'[u] = port[u] /\ previous'[u] = previous[u]
        /\ (inProgress'[u] <=> inProgress[u]) /\ (cleanup'[u] <=> cleanup[u])
  BY <1>1, <1>2 DEF Udp!Waits, Udp!TypeOK
<1>9. Udp!Waiting(p)' = Udp!Waiting(p) \cup {s} /\ s \notin Udp!Waiting(p)
  BY <1>6, <1>7, <1>8 DEF Udp!Waiting
<1>10. \A r \in Ports : r # p => Udp!Waiting(r)' = Udp!Waiting(r)
  BY <1>6, <1>7, <1>8 DEF Udp!Waiting
<1>11. PICK q \in Seq(Sockets) : Line(q, Udp!Waiting(p), h, nxt, prv)
  BY <1>1, <1>2, <1>5 DEF Lined
<1>12. h = None \/ (h \in Udp!Waiting(p) /\ h \in Sockets /\ prv[h] \in Udp!Waiting(p))
  <2>1. h # None => h \in Udp!Waiting(p) BY <1>3, <1>11, LineLinks
  <2>2. \A x \in Udp!Waiting(p) : prv[x] \in Udp!Waiting(p) BY <1>3, <1>11, LineLinks
  <2>3. Udp!Waiting(p) \subseteq Sockets BY DEF Udp!Waiting
  <2> QED BY <2>1, <2>2, <2>3
<1>13. Udp!TypeOK'
  <2>1. Udp!Waiting(p) \subseteq Sockets BY DEF Udp!Waiting
  <2>2. nxt' \in [Sockets -> Sockets] /\ prv' \in [Sockets -> Sockets]
    <3>1. nxt \in [Sockets -> Sockets] /\ prv \in [Sockets -> Sockets] BY <1>2 DEF Udp!TypeOK
    <3> HIDE DEF h
    <3> QED BY <1>1, <1>12, <2>1, <3>1
  <2>3. list' \in [Sockets -> Sockets \cup {None}]
    <3>1. list \in [Sockets -> Sockets \cup {None}] BY <1>2 DEF Udp!TypeOK
    <3> HIDE DEF h
    <3> QED BY <1>1, <1>12, <2>1, <3>1
  <2>4. inProgress' \in [Sockets -> BOOLEAN] /\ cleanup' \in [Sockets -> BOOLEAN]
    <3>1. inProgress \in [Sockets -> BOOLEAN] /\ cleanup \in [Sockets -> BOOLEAN]
      BY <1>2 DEF Udp!TypeOK
    <3>2. inProgress' = [inProgress EXCEPT ![s] = TRUE] /\ cleanup' = [cleanup EXCEPT ![s] = TRUE]
      BY <1>1
    <3> QED BY <3>1, <3>2
  <2>5. /\ bound' \in [Ports -> Sockets \cup {None}] /\ port' \in [Sockets -> Ports \cup {None}]
        /\ previous' \in [Sockets -> Sockets \cup {None}]
        /\ tstate' \in [Sockets -> {"running", "suspended"}]
        /\ result' \in [Sockets -> {"NONE", "SUCCESS", "UNAVAILABLE"}]
        /\ unbinding' \in Sockets \cup {None} /\ step' \in {"none", "handover", "cleanup"}
    BY <1>1, <1>2, <1>3 DEF Udp!TypeOK
  <2> QED BY <2>2, <2>3, <2>4, <2>5 DEF Udp!TypeOK
<1>14. \A u \in Sockets : Udp!Bound(u)' <=> Udp!Bound(u)
  BY <1>1 DEF Udp!Bound
<1>15. PortsTrue'
  <2>1. \A r \in Ports : bound'[r] # None => port'[bound'[r]] = r
    BY <1>1, <1>2, <1>4, <1>8 DEF PortsTrue
  <2>2. Udp!ResultTellsTable' BY <1>1, <1>2, <1>14 DEF PortsTrue, Udp!ResultTellsTable
  <2>3. \A u \in Sockets : Udp!Bound(u)' => ~ Udp!Waits(u)' BY <1>1, <1>2, <1>8, <1>14 DEF PortsTrue
  <2> QED BY <2>1, <2>2, <2>3 DEF PortsTrue
<1>16. WaitersTrue'
  <2>1. Udp!Owner(port[s])' = o BY <1>5, <1>7
  <2>2. ASSUME NEW u \in Sockets, u # s
        PROVE  /\ (inProgress'[u] <=> Udp!Waits(u)') /\ (cleanup'[u] <=> Udp!Waits(u)')
               /\ Udp!Waits(u)' => port'[u] \in Ports /\ Udp!Owner(port[u])' # None
    BY <1>2, <1>5, <1>8, <2>2 DEF WaitersTrue
  <2> QED BY <1>1, <1>7, <2>1, <2>2 DEF WaitersTrue
<1>17. UnbindTrue' BY <1>1, <1>3 DEF UnbindTrue
<1>18. Lined' /\ LinesGoOn
  <2>1. ASSUME NEW r \in Ports, Udp!Owner(r)' # None, r # p PROVE LineGoesOn(r)
    <3>1. PICK z \in Seq(Sockets) : Line(z, Udp!Waiting(r), list[Udp!Owner(r)], nxt, prv)
      BY <1>2, <1>5, <2>1 DEF Lined
    <3>2. Udp!Owner(r) # o BY <1>0, <1>1, <1>5, <2>1, OneOwner
    <3>3. list'[Udp!Owner(r)] = list[Udp!Owner(r)]
      <4>1. Udp!Owner(r) \in Sockets BY <1>4, <1>5, <2>1
      <4> QED BY <1>1, <1>2, <3>2, <4>1 DEF Udp!TypeOK
    <3>4. ASSUME NEW x \in Udp!Waiting(r) PROVE nxt'[x] = nxt[x] /\ prv'[x] = prv[x]
      <4>1. x \in Sockets /\ x # s /\ x \notin Udp!Waiting(p)
        BY <1>6, <2>1 DEF Udp!Waiting
      <4>2. h # None => x # h /\ x # prv[h] BY <1>12, <4>1
      <4>3. nxt \in [Sockets -> Sockets] /\ prv \in [Sockets -> Sockets] BY <1>2 DEF Udp!TypeOK
      <4> HIDE DEF h
      <4> QED BY <1>1, <4>1, <4>2, <4>3
    <3>5. Line(z, Udp!Waiting(r), list[Udp!Owner(r)], nxt', prv') BY <3>1, <3>4, SameLine
    <3>6. Udp!Owner(r)' = Udp!Owner(r) /\ Udp!Waiting(r)' = Udp!Waiting(r) BY <1>5, <1>10, <2>1
    <3>7. Line(z, Udp!Waiting(r)', list'[Udp!Owner(r)'], nxt', prv') BY <3>3, <3>5, <3>6
    <3> QED BY <3>1, <3>7 DEF LineGoesOn, Follows
  <2>2. LineGoesOn(p)
    <3>1. nxt \in [Sockets -> Sockets] /\ prv \in [Sockets -> Sockets] BY <1>2 DEF Udp!TypeOK
    <3>2. list'[o] = IF h = None THEN s ELSE h
      BY <1>1, <1>2, <1>3 DEF Udp!TypeOK
    <3>3. PICK n2 : n2 = nxt' OBVIOUS
    <3>4. PICK p2 : p2 = prv' OBVIOUS
    <3>5. /\ Append(q, s) \in Seq(Sockets)
          /\ Line(Append(q, s), Udp!Waiting(p) \cup {s}, IF h = None THEN s ELSE h, n2, p2)
      <4>1. /\ n2 = IF h = None THEN [nxt EXCEPT ![s] = s]
                    ELSE [nxt EXCEPT ![s] = h, ![prv[h]] = s]
            /\ p2 = IF h = None THEN [prv EXCEPT ![s] = s]
                    ELSE [prv EXCEPT ![s] = prv[h], ![h] = s]
        BY <1>1, <3>3, <3>4
      <4> HIDE DEF h
      <4> QED BY <1>3, <1>9, <1>11, <3>1, <4>1, AppendLine
    <3>6. Udp!Owner(p)' = o /\ Udp!Owner(p) = o BY <1>5
    <3>7. Line(Append(q, s), Udp!Waiting(p)', list'[Udp!Owner(p)'], nxt', prv')
      BY <1>9, <3>2, <3>3, <3>4, <3>5, <3>6
    <3>8. Line(q, Udp!Waiting(p), list[Udp!Owner(p)], nxt, prv) BY <1>11, <3>6
    <3> QED BY <3>5, <3>7, <3>8 DEF LineGoesOn, Follows
  <2>3. ASSUME NEW u \in Sockets, list'[u] # None PROVE \E r \in Ports : Udp!Owner(r)' = u
    <3>1. CASE u = o BY <1>5, <3>1
    <3>2. CASE u # o
      <4>1. list'[u] = list[u] BY <1>1, <1>2, <3>2 DEF Udp!TypeOK
      <4> QED BY <1>2, <1>5, <2>3, <4>1 DEF Lined
    <3> QED BY <3>1, <3>2
  <2>4. \A r \in Ports : Udp!Owner(r)' # None => LineGoesOn(r) BY <2>1, <2>2
  <2> QED BY <2>3, <2>4, LinesStay
<1>19. OneWaits'
  <2> SUFFICES ASSUME GiveUp, NEW u \in Sockets, Udp!Waits(u)'
               PROVE  /\ previous'[u] = Udp!Owner(port[u])'
                      /\ \A v \in Sockets : Udp!Waits(v)' /\ port'[v] = port'[u] => v = u
    BY DEF OneWaits
  <2>1. Udp!Waiting(p) = {} BY <1>1, NoneWaitsYet
  <2>2. \A v \in Sockets : v # s /\ Udp!Waits(v)' => port'[v] # p
    BY <1>8, <2>1 DEF Udp!Waiting
  <2>3. CASE u = s BY <1>5, <1>7, <2>2, <2>3
  <2>4. CASE u # s
    <3>1. port[u] \in Ports /\ previous[u] = Udp!Owner(port[u])
      BY <1>2, <1>8, <2>4 DEF OneWaits, WaitersTrue
    <3>2. previous'[u] = Udp!Owner(port[u])' BY <1>5, <1>8, <2>4, <3>1
    <3>3. \A v \in Sockets : Udp!Waits(v)' /\ port'[v] = port'[u] => v = u
      BY <1>2, <1>7, <1>8, <2>2, <2>4 DEF OneWaits
    <3> QED BY <3>2, <3>3
  <2> QED BY <2>3, <2>4
<1> QED BY <1>13, <1>15, <1>16, <1>17, <1>18, <1>19 DEF BindInv

(* The list of the socket that gave its port up is that of the port still.  *)
LEMMA UnbindTableKeeps ==
  ASSUME FewWait, BindInv, NEW s \in Sockets, NEW p \in Ports, Udp!UnbindTable(s, p)
  PROVE  BindInv' /\ LinesGoOn
<1>0. Udp!UdpBindAssumption BY DEF FewWait
<1>1. /\ Udp!MutexFree /\ bound[p] = s
      /\ bound' = [bound EXCEPT ![p] = None] /\ result' = [result EXCEPT ![s] = "NONE"]
      /\ unbinding' = s /\ step' = "handover"
      /\ port' = port /\ inProgress' = inProgress /\ previous' = previous /\ list' = list
      /\ nxt' = nxt /\ prv' = prv /\ cleanup' = cleanup /\ tstate' = tstate
  BY DEF Udp!UnbindTable, Udp!MayUnbind, Udp!threadVars
<1>2. Udp!TypeOK /\ PortsTrue /\ WaitersTrue /\ UnbindTrue /\ Lined /\ OneWaits
  BY DEF BindInv
<1>3. s # None /\ unbinding = None /\ step = "none" /\ port[s] = p
  BY <1>0, <1>1, <1>2 DEF Udp!UdpBindAssumption, Udp!MutexFree, UnbindTrue, PortsTrue
<1>4. Udp!TypeOK' BY <1>1, <1>2 DEF Udp!TypeOK
<1>5. /\ bound'[p] = None /\ \A r \in Ports : r # p => bound'[r] = bound[r] /\ bound[r] # s
      /\ result'[s] = "NONE" /\ \A u \in Sockets : u # s => result'[u] = result[u]
  <2>1. \A r \in Ports : r # p => bound[r] # s BY <1>2, <1>3 DEF PortsTrue
  <2> QED BY <1>1, <1>2, <2>1 DEF Udp!TypeOK
<1>6. \A u \in Sockets : Udp!Waits(u)' <=> Udp!Waits(u)
  BY <1>1 DEF Udp!Waits
<1>7. \A u \in Sockets : u # s => (Udp!Bound(u)' <=> Udp!Bound(u))
  BY <1>0, <1>1, <1>5 DEF Udp!Bound, Udp!UdpBindAssumption
<1>8. ~ Udp!Bound(s)' BY <1>3, <1>5 DEF Udp!Bound
<1>9. PortsTrue'
  <2>1. \A r \in Ports : bound'[r] # None => port'[bound'[r]] = r
    BY <1>1, <1>2, <1>5 DEF PortsTrue
  <2>2. Udp!ResultTellsTable' BY <1>2, <1>5, <1>7, <1>8 DEF PortsTrue, Udp!ResultTellsTable
  <2>3. \A u \in Sockets : Udp!Bound(u)' => ~ Udp!Waits(u)' BY <1>2, <1>6, <1>7, <1>8 DEF PortsTrue
  <2> QED BY <2>1, <2>2, <2>3 DEF PortsTrue
<1>10. \A r \in Ports : Udp!Owner(r)' = Udp!Owner(r)
  BY <1>1, <1>3, <1>5 DEF Udp!Owner
<1>11. \A r \in Ports : Udp!Waiting(r)' = Udp!Waiting(r)
  BY <1>1, <1>6 DEF Udp!Waiting
<1>12. WaitersTrue' BY <1>1, <1>2, <1>6, <1>10 DEF WaitersTrue
<1>13. UnbindTrue'
  <2>1. Udp!Bound(s) BY <1>1 DEF Udp!Bound
  <2>2. ~ Udp!Waits(s)' BY <1>2, <1>6, <2>1 DEF PortsTrue
  <2> QED BY <1>1, <1>3, <1>5, <1>8, <2>2 DEF UnbindTrue
<1>14. Lined' /\ LinesGoOn
  <2>1. /\ \A r \in Ports : Udp!Owner(r)' = Udp!Owner(r) /\ Udp!Waiting(r)' = Udp!Waiting(r)
        /\ list' = list /\ nxt' = nxt /\ prv' = prv
    BY <1>1, <1>10, <1>11
  <2> QED BY <1>2, <2>1, SameLines
<1>15. OneWaits' BY <1>1, <1>2, <1>6, <1>10 DEF OneWaits, WaitersTrue
<1> QED BY <1>4, <1>9, <1>12, <1>13, <1>14, <1>15 DEF BindInv

(* unbind of a socket that waits itself,                                    *)
LEMMA UnbindWaitingKeeps ==
  ASSUME FewWait, BindInv, NEW s \in Sockets, Udp!UnbindWaiting(s)
  PROVE  BindInv' /\ LinesGoOn
<1>1. /\ Udp!MutexFree /\ GiveUp /\ unbinding' = s /\ step' = "cleanup"
      /\ bound' = bound /\ port' = port /\ inProgress' = inProgress /\ previous' = previous
      /\ list' = list /\ nxt' = nxt /\ prv' = prv /\ cleanup' = cleanup /\ tstate' = tstate
      /\ result' = result
  BY DEF Udp!UnbindWaiting, Udp!MayUnbind, Udp!threadVars
<1>2. Udp!TypeOK /\ PortsTrue /\ WaitersTrue /\ UnbindTrue /\ Lined /\ OneWaits
  BY DEF BindInv
<1>3. s # None /\ unbinding = None /\ step = "none"
  BY <1>1, <1>2 DEF FewWait, Udp!UdpBindAssumption, Udp!MutexFree, UnbindTrue
<1>4. \A u \in Sockets : (Udp!Waits(u)' <=> Udp!Waits(u)) /\ (Udp!Bound(u)' <=> Udp!Bound(u))
  BY <1>1 DEF Udp!Waits, Udp!Bound
<1>5. \A r \in Ports : Udp!Owner(r)' = Udp!Owner(r) /\ Udp!Waiting(r)' = Udp!Waiting(r)
  BY <1>1, <1>3, <1>4 DEF Udp!Owner, Udp!Waiting
<1>6. Udp!TypeOK' BY <1>1, <1>2 DEF Udp!TypeOK
<1>7. PortsTrue' BY <1>1, <1>2, <1>4 DEF PortsTrue, Udp!ResultTellsTable
<1>8. WaitersTrue' BY <1>1, <1>2, <1>4, <1>5 DEF WaitersTrue
<1>9. UnbindTrue' BY <1>1, <1>3 DEF UnbindTrue
<1>10. Lined' /\ LinesGoOn
  <2>1. /\ \A r \in Ports : Udp!Owner(r)' = Udp!Owner(r) /\ Udp!Waiting(r)' = Udp!Waiting(r)
        /\ list' = list /\ nxt' = nxt /\ prv' = prv
    BY <1>1, <1>5
  <2> QED BY <1>2, <2>1, SameLines
<1>11. OneWaits' BY <1>1, <1>2, <1>4, <1>5 DEF OneWaits, WaitersTrue
<1> QED BY <1>6, <1>7, <1>8, <1>9, <1>10, <1>11 DEF BindInv

(* The port, with the rest of the list, goes to the first that waits.       *)
LEMMA HandOverKeeps ==
  ASSUME FewWait, BindInv, Udp!HandOver
  PROVE  BindInv' /\ LinesGoOn
<1>0. Udp!UdpBindAssumption BY DEF FewWait
<1>s. PICK s : s = unbinding OBVIOUS
<1>p. PICK p : p = port[s] OBVIOUS
<1>n. PICK n : n = list[s] OBVIOUS
<1>1. step = "handover" /\ unbinding' = None /\ step' = "none" /\ port' = port
  BY DEF Udp!HandOver, Udp!HandOverTo
<1>2. Udp!TypeOK /\ PortsTrue /\ WaitersTrue /\ UnbindTrue /\ Lined /\ OneWaits
  BY DEF BindInv
<1>3. /\ s \in Sockets /\ None \notin Sockets /\ ~ Udp!Bound(s) /\ ~ Udp!Waits(s)
      /\ p \in Ports /\ bound[p] = None /\ Udp!Owner(p) = s
  BY <1>0, <1>1, <1>2, <1>s, <1>p DEF Udp!UdpBindAssumption, UnbindTrue, Udp!TypeOK, Udp!Owner
<1>4. PICK q \in Seq(Sockets) : Line(q, Udp!Waiting(p), n, nxt, prv)
  BY <1>2, <1>3, <1>n DEF Lined
<1>5. \A r \in Ports : r # p => Udp!Owner(r) = bound[r] /\ Udp!Owner(r) # s
  BY <1>1, <1>2, <1>3, <1>s, <1>p DEF Udp!Owner, PortsTrue, Udp!Bound
<1>6. \A r \in Ports : Udp!Owner(r)' = bound'[r]
  BY <1>1 DEF Udp!Owner
<1>7. UnbindTrue' BY <1>1 DEF UnbindTrue
<1>8. CASE n = None
  <2>1. /\ bound' = bound /\ inProgress' = inProgress /\ previous' = previous /\ list' = list
        /\ nxt' = nxt /\ prv' = prv /\ cleanup' = cleanup /\ tstate' = tstate
        /\ result' = result
    BY <1>8, <1>s, <1>n DEF Udp!HandOver, Udp!HandOverTo, Udp!threadVars
  <2>2. Udp!Waiting(p) = {} BY <1>3, <1>4, <1>8, LineLinks
  <2>3. \A u \in Sockets : (Udp!Waits(u)' <=> Udp!Waits(u)) /\ (Udp!Bound(u)' <=> Udp!Bound(u))
    BY <2>1 DEF Udp!Waits, Udp!Bound
  <2>4. \A r \in Ports : r # p => Udp!Owner(r)' = Udp!Owner(r)
    BY <1>5, <1>6, <2>1
  <2>5. Udp!Owner(p)' = None BY <1>3, <1>6, <2>1
  <2>6. \A u \in Sockets : Udp!Waits(u) => port[u] # p BY <2>2 DEF Udp!Waiting
  <2>7. \A r \in Ports : Udp!Waiting(r)' = Udp!Waiting(r) BY <1>1, <2>3 DEF Udp!Waiting
  <2>8. Udp!TypeOK' BY <1>1, <1>2, <2>1 DEF Udp!TypeOK
  <2>9. PortsTrue' BY <1>1, <1>2, <2>1, <2>3 DEF PortsTrue, Udp!ResultTellsTable
  <2>10. WaitersTrue' BY <1>1, <1>2, <2>1, <2>3, <2>4, <2>6 DEF WaitersTrue
  <2>11. Lined' /\ LinesGoOn
    <3>1. ASSUME NEW r \in Ports, Udp!Owner(r)' # None PROVE LineGoesOn(r)
      <4>1. Udp!Owner(r)' = Udp!Owner(r) BY <2>4, <2>5, <3>1
      <4>2. PICK z \in Seq(Sockets) : Line(z, Udp!Waiting(r), list[Udp!Owner(r)], nxt, prv)
        BY <1>2, <3>1, <4>1 DEF Lined
      <4>3. Line(z, Udp!Waiting(r)', list'[Udp!Owner(r)'], nxt', prv') BY <2>1, <2>7, <4>1, <4>2
      <4> QED BY <4>2, <4>3 DEF LineGoesOn, Follows
    <3>2. ASSUME NEW u \in Sockets, list'[u] # None PROVE \E r \in Ports : Udp!Owner(r)' = u
      <4>1. PICK r \in Ports : Udp!Owner(r) = u BY <1>2, <2>1, <3>2 DEF Lined
      <4>2. r # p BY <1>3, <1>8, <1>n, <2>1, <3>2, <4>1
      <4> QED BY <2>4, <4>1, <4>2
    <3> QED BY <3>1, <3>2, LinesStay
  <2>12. OneWaits'
    BY <1>1, <1>2, <2>1, <2>3, <2>4, <2>6 DEF OneWaits, WaitersTrue
  <2> QED BY <1>7, <2>8, <2>9, <2>10, <2>11, <2>12 DEF BindInv
<1>9. CASE n # None
  <2>1. /\ bound' = [bound EXCEPT ![p] = n]
        /\ inProgress' = [inProgress EXCEPT ![n] = FALSE]
        /\ previous' = [previous EXCEPT ![n] = None]
        /\ list' = [list EXCEPT ![s] = None, ![n] = IF nxt[n] = n THEN None ELSE nxt[n]]
        /\ cleanup' = [cleanup EXCEPT ![n] = FALSE]
        /\ tstate' = [tstate EXCEPT ![n] = "running"]
        /\ result' = [result EXCEPT ![n] = "SUCCESS"]
    BY <1>9, <1>s, <1>p, <1>n DEF Udp!HandOver, Udp!HandOverTo, Udp!HeadWithout
  <2>2. /\ nxt' = IF nxt[n] = n THEN nxt ELSE [nxt EXCEPT ![prv[n]] = nxt[n]]
        /\ prv' = IF nxt[n] = n THEN prv ELSE [prv EXCEPT ![nxt[n]] = prv[n]]
    BY <1>9, <1>s, <1>p, <1>n DEF Udp!HandOver, Udp!HandOverTo, Udp!Unlink
  <2>3. /\ n \in Udp!Waiting(p) /\ n \in Sockets /\ nxt[n] \in Udp!Waiting(p) /\ prv[n] \in Udp!Waiting(p)
        /\ Udp!Waiting(p) \subseteq Sockets
    <3>1. n \in Udp!Waiting(p) BY <1>3, <1>4, <1>9, LineLinks
    <3>2. \A x \in Udp!Waiting(p) : nxt[x] \in Udp!Waiting(p) /\ prv[x] \in Udp!Waiting(p)
      BY <1>3, <1>4, LineLinks
    <3> QED BY <3>1, <3>2 DEF Udp!Waiting
  <2>4. Udp!Waits(n) /\ port[n] = p /\ n # s /\ ~ Udp!Bound(n)
    BY <1>2, <1>3, <2>3 DEF Udp!Waiting, PortsTrue
  <2>5. /\ bound'[p] = n /\ \A r \in Ports : r # p => bound'[r] = bound[r] /\ bound[r] # n
    <3>1. \A r \in Ports : bound[r] # n BY <2>4 DEF Udp!Bound
    <3> QED BY <1>2, <1>3, <2>1, <3>1 DEF Udp!TypeOK
  <2>6. \A u \in Sockets : u # n => (Udp!Waits(u)' <=> Udp!Waits(u)) /\ (Udp!Bound(u)' <=> Udp!Bound(u))
    BY <1>2, <1>3, <2>1, <2>5 DEF Udp!Waits, Udp!Bound, Udp!TypeOK
  <2>7. ~ Udp!Waits(n)' /\ Udp!Bound(n)' /\ result'[n] = "SUCCESS"
    BY <1>2, <1>3, <2>1, <2>3, <2>5 DEF Udp!Waits, Udp!Bound, Udp!TypeOK
  <2>8. \A u \in Sockets : u # n =>
          /\ (inProgress'[u] <=> inProgress[u]) /\ previous'[u] = previous[u]
          /\ (cleanup'[u] <=> cleanup[u]) /\ result'[u] = result[u]
    BY <1>2, <2>1 DEF Udp!TypeOK
  <2>9. ~ inProgress'[n] /\ ~ cleanup'[n]
    BY <1>2, <2>1, <2>3 DEF Udp!TypeOK
  <2>10. /\ list'[n] = IF nxt[n] = n THEN None ELSE nxt[n]
         /\ list'[s] = None /\ \A u \in Sockets : u # n /\ u # s => list'[u] = list[u]
    <3>1. list \in [Sockets -> Sockets \cup {None}] BY <1>2 DEF Udp!TypeOK
    <3> QED BY <1>3, <2>1, <2>3, <2>4, <3>1
  <2>11. Udp!Owner(p)' = n /\ \A r \in Ports : r # p => Udp!Owner(r)' = Udp!Owner(r)
    BY <1>3, <1>5, <1>6, <2>5
  <2>12. Udp!Waiting(p)' = Udp!Waiting(p) \ {n} /\ \A r \in Ports : r # p => Udp!Waiting(r)' = Udp!Waiting(r)
    BY <1>1, <2>4, <2>6, <2>7 DEF Udp!Waiting
  <2>13. Udp!TypeOK'
    <3>1. nxt' \in [Sockets -> Sockets] /\ prv' \in [Sockets -> Sockets]
      <4>1. nxt \in [Sockets -> Sockets] /\ prv \in [Sockets -> Sockets] BY <1>2 DEF Udp!TypeOK
      <4> QED BY <2>2, <2>3, <4>1
    <3>2. list' \in [Sockets -> Sockets \cup {None}]
      <4>1. list \in [Sockets -> Sockets \cup {None}] BY <1>2 DEF Udp!TypeOK
      <4> QED BY <2>1, <2>3, <4>1
    <3>3. inProgress' \in [Sockets -> BOOLEAN] /\ cleanup' \in [Sockets -> BOOLEAN]
      <4>1. inProgress \in [Sockets -> BOOLEAN] /\ cleanup \in [Sockets -> BOOLEAN]
        BY <1>2 DEF Udp!TypeOK
      <4> QED BY <2>1, <4>1
    <3>4. /\ bound' \in [Ports -> Sockets \cup {None}]
          /\ previous' \in [Sockets -> Sockets \cup {None}]
          /\ tstate' \in [Sockets -> {"running", "suspended"}]
          /\ result' \in [Sockets -> {"NONE", "SUCCESS", "UNAVAILABLE"}]
      BY <1>2, <2>1, <2>3 DEF Udp!TypeOK
    <3>5. port' \in [Sockets -> Ports \cup {None}] BY <1>1, <1>2 DEF Udp!TypeOK
    <3> QED BY <1>1, <3>1, <3>2, <3>3, <3>4, <3>5 DEF Udp!TypeOK
  <2>14. PortsTrue'
    <3>1. \A r \in Ports : bound'[r] # None => port'[bound'[r]] = r
      BY <1>1, <1>2, <2>4, <2>5 DEF PortsTrue
    <3>2. Udp!ResultTellsTable'
      BY <1>2, <2>6, <2>7, <2>8 DEF PortsTrue, Udp!ResultTellsTable
    <3>3. \A u \in Sockets : Udp!Bound(u)' => ~ Udp!Waits(u)'
      BY <1>2, <2>6, <2>7 DEF PortsTrue
    <3> QED BY <3>1, <3>2, <3>3 DEF PortsTrue
  <2>15. WaitersTrue'
    <3>1. n # None BY <1>3, <2>3
    <3>2. \A r \in Ports : Udp!Owner(r) # None => Udp!Owner(r)' # None BY <2>11, <3>1
    <3> QED BY <1>1, <1>2, <2>6, <2>7, <2>8, <2>9, <3>2 DEF WaitersTrue
  <2>16. Lined' /\ LinesGoOn
    <3>1. ASSUME NEW r \in Ports, Udp!Owner(r)' # None, r # p PROVE LineGoesOn(r)
      <4>1. Udp!Owner(r)' = Udp!Owner(r) /\ Udp!Waiting(r)' = Udp!Waiting(r) BY <2>11, <2>12, <3>1
      <4>2. PICK z \in Seq(Sockets) : Line(z, Udp!Waiting(r), list[Udp!Owner(r)], nxt, prv)
        BY <1>2, <3>1, <4>1 DEF Lined
      <4>3. Udp!Owner(r) # s /\ Udp!Owner(r) # n /\ Udp!Owner(r) \in Sockets
        BY <1>0, <1>5, <2>4, <3>1, <4>1, OwnerFacts
      <4>4. list'[Udp!Owner(r)] = list[Udp!Owner(r)] BY <2>10, <4>3
      <4>5. ASSUME NEW x \in Udp!Waiting(r) PROVE nxt'[x] = nxt[x] /\ prv'[x] = prv[x]
        <5>1. x \notin Udp!Waiting(p) /\ x \in Sockets BY <3>1 DEF Udp!Waiting
        <5>2. nxt \in [Sockets -> Sockets] /\ prv \in [Sockets -> Sockets]
          BY <1>2 DEF Udp!TypeOK
        <5> QED BY <2>2, <2>3, <5>1, <5>2
      <4>6. Line(z, Udp!Waiting(r), list[Udp!Owner(r)], nxt', prv') BY <4>2, <4>5, SameLine
      <4>7. Line(z, Udp!Waiting(r)', list'[Udp!Owner(r)'], nxt', prv') BY <4>1, <4>4, <4>6
      <4> QED BY <4>2, <4>7 DEF LineGoesOn, Follows
    <3>2. LineGoesOn(p)
      <4>1. nxt \in [Sockets -> Sockets] /\ prv \in [Sockets -> Sockets] BY <1>2 DEF Udp!TypeOK
      <4>2. PICK n2 : n2 = nxt' OBVIOUS
      <4>3. PICK p2 : p2 = prv' OBVIOUS
      <4>4. Line(q, Udp!Waiting(p), n, nxt, prv) BY <1>4
      <4>5. /\ Tail(q) \in Seq(Sockets)
            /\ Line(Tail(q), Udp!Waiting(p) \ {n}, IF nxt[n] = n THEN None ELSE nxt[n], n2, p2)
        <5>1. /\ n2 = IF nxt[n] = n THEN nxt ELSE [nxt EXCEPT ![prv[n]] = nxt[n]]
              /\ p2 = IF nxt[n] = n THEN prv ELSE [prv EXCEPT ![nxt[n]] = prv[n]]
          BY <2>2, <4>2, <4>3
        <5>2. n # None BY <1>9
        <5> QED BY <1>3, <4>1, <4>4, <5>1, <5>2, TailLine
      <4>6. Line(Tail(q), Udp!Waiting(p)', list'[Udp!Owner(p)'], nxt', prv')
        BY <2>10, <2>11, <2>12, <4>2, <4>3, <4>5
      <4>7. Line(q, Udp!Waiting(p), list[Udp!Owner(p)], nxt, prv) BY <1>3, <1>n, <4>4
      <4> QED BY <4>5, <4>6, <4>7 DEF LineGoesOn, Follows
    <3>3. ASSUME NEW u \in Sockets, list'[u] # None PROVE \E r \in Ports : Udp!Owner(r)' = u
      <4>1. CASE u = n BY <1>3, <2>11, <4>1
      <4>2. CASE u # n
        <5>1. u # s /\ list[u] # None BY <2>10, <3>3, <4>2
        <5>2. PICK r \in Ports : Udp!Owner(r) = u BY <1>2, <5>1 DEF Lined
        <5>3. r # p BY <1>3, <5>1, <5>2
        <5> QED BY <2>11, <5>2, <5>3
      <4> QED BY <4>1, <4>2
    <3>4. \A r \in Ports : Udp!Owner(r)' # None => LineGoesOn(r) BY <3>1, <3>2
    <3> QED BY <3>3, <3>4, LinesStay
  <2>17. OneWaits'
    <3> SUFFICES ASSUME GiveUp, NEW u \in Sockets, Udp!Waits(u)'
                 PROVE  /\ previous'[u] = Udp!Owner(port[u])'
                        /\ \A v \in Sockets : Udp!Waits(v)' /\ port'[v] = port'[u] => v = u
      BY DEF OneWaits
    <3>1. u # n /\ Udp!Waits(u) BY <2>6, <2>7
    <3>2. port[u] # p BY <1>2, <2>3, <2>4, <3>1 DEF OneWaits
    <3>3. port[u] \in Ports BY <1>2, <3>1 DEF WaitersTrue
    <3>4. previous'[u] = Udp!Owner(port[u])'
      BY <1>1, <1>2, <2>8, <2>11, <3>1, <3>2, <3>3 DEF OneWaits
    <3>5. \A v \in Sockets : Udp!Waits(v)' /\ port'[v] = port'[u] => v = u
      BY <1>1, <1>2, <2>6, <2>7, <3>1 DEF OneWaits
    <3> QED BY <3>4, <3>5
  <2> QED BY <1>7, <2>13, <2>14, <2>15, <2>16, <2>17 DEF BindInv
<1> QED BY <1>8, <1>9

(* A wait that ends early was the only one for its port.                    *)
LEMMA CleanupKeeps ==
  ASSUME FewWait, BindInv, GiveUp, NEW t \in Sockets, Udp!BindCleanup(t),
         bound' = bound, port' = port, previous' = previous,
         UNCHANGED Udp!mutexVars \/ (step = "cleanup" /\ unbinding' = None /\ step' = "none")
  PROVE  BindInv' /\ LinesGoOn
<1>0. Udp!UdpBindAssumption BY DEF FewWait
<1>2. Udp!TypeOK /\ PortsTrue /\ WaitersTrue /\ UnbindTrue /\ Lined /\ OneWaits
  BY DEF BindInv
<1>3. \A r \in Ports : Udp!Owner(r)' = Udp!Owner(r)
  BY DEF Udp!Owner, Udp!mutexVars
<1>4. \A u \in Sockets : Udp!Bound(u)' <=> Udp!Bound(u) BY DEF Udp!Bound
<1>5. CASE ~ cleanup[t]
  <2>1. /\ inProgress' = inProgress /\ list' = list /\ nxt' = nxt /\ prv' = prv
        /\ cleanup' = cleanup /\ tstate' = tstate /\ result' = result
    BY <1>5 DEF Udp!BindCleanup, Udp!threadVars
  <2>2. \A u \in Sockets : Udp!Waits(u)' <=> Udp!Waits(u) BY <2>1 DEF Udp!Waits
  <2>3. \A r \in Ports : Udp!Waiting(r)' = Udp!Waiting(r) BY <2>2 DEF Udp!Waiting
  <2>4. Udp!TypeOK' BY <1>2, <2>1 DEF Udp!TypeOK, Udp!mutexVars
  <2>5. PortsTrue' BY <1>2, <1>4, <2>1, <2>2 DEF PortsTrue, Udp!ResultTellsTable
  <2>6. WaitersTrue' BY <1>2, <1>3, <2>1, <2>2 DEF WaitersTrue
  <2>7. UnbindTrue' BY <1>2, <1>4, <2>1, <2>2 DEF UnbindTrue, Udp!mutexVars, Udp!Bound, Udp!Waits
  <2>8. Lined' /\ LinesGoOn BY <1>2, <1>3, <2>1, <2>3, SameLines
  <2>9. OneWaits' BY <1>2, <1>3, <2>1, <2>2 DEF OneWaits, WaitersTrue
  <2> QED BY <2>4, <2>5, <2>6, <2>7, <2>8, <2>9 DEF BindInv
<1>6. CASE cleanup[t]
  <2>1. PICK p : p = port[t] OBVIOUS
  <2>2. PICK o : o = Udp!Owner(p) OBVIOUS
  <2>3. /\ Udp!Waits(t) /\ p \in Ports /\ o # None /\ o = previous[t] /\ o \in Sockets
        /\ ~ Udp!Bound(t) /\ Udp!Waiting(p) = {t} /\ t # None /\ None \notin Sockets
    <3>1. Udp!Waits(t) /\ p \in Ports /\ o # None BY <1>2, <1>6, <2>1, <2>2 DEF WaitersTrue
    <3>2. o = previous[t] /\ Udp!Waiting(p) = {t}
      BY <1>2, <2>1, <2>2, <3>1 DEF OneWaits, Udp!Waiting
    <3>3. o \in Sockets BY <1>0, <2>2, <3>1, OwnerFacts
    <3> QED BY <1>0, <1>2, <3>1, <3>2, <3>3 DEF PortsTrue, Udp!UdpBindAssumption
  <2>4. PICK q \in Seq(Sockets) : Line(q, {t}, list[o], nxt, prv)
    BY <1>2, <2>2, <2>3 DEF Lined
  <2>5. list[o] = t /\ nxt[t] = t BY <2>3, <2>4, LoneLine
  <2>6. /\ inProgress' = [inProgress EXCEPT ![t] = FALSE]
        /\ list' = [list EXCEPT ![o] = None] /\ nxt' = nxt /\ prv' = prv
        /\ cleanup' = [cleanup EXCEPT ![t] = FALSE]
        /\ tstate' = [tstate EXCEPT ![t] = "running"]
        /\ result' = [result EXCEPT ![t] = "UNAVAILABLE"]
    BY <1>6, <2>3, <2>5 DEF Udp!BindCleanup, Udp!HeadWithout, Udp!Unlink
  <2>7. \A u \in Sockets : u # t =>
          /\ (Udp!Waits(u)' <=> Udp!Waits(u)) /\ (inProgress'[u] <=> inProgress[u])
          /\ (cleanup'[u] <=> cleanup[u]) /\ result'[u] = result[u]
    BY <1>2, <2>6 DEF Udp!Waits, Udp!TypeOK
  <2>8. /\ ~ Udp!Waits(t)' /\ ~ inProgress'[t] /\ ~ cleanup'[t] /\ result'[t] = "UNAVAILABLE"
        /\ list'[o] = None /\ \A u \in Sockets : u # o => list'[u] = list[u]
    BY <1>2, <2>3, <2>6 DEF Udp!Waits, Udp!TypeOK
  <2>9. Udp!Waiting(p)' = {} /\ \A r \in Ports : r # p => Udp!Waiting(r)' = Udp!Waiting(r)
    <3>1. Udp!Waiting(p)' = {} BY <2>3, <2>7, <2>8 DEF Udp!Waiting
    <3>2. \A r \in Ports : r # p => Udp!Waiting(r)' = Udp!Waiting(r)
      BY <2>1, <2>7, <2>8 DEF Udp!Waiting
    <3> QED BY <3>1, <3>2
  <2>10. Udp!TypeOK'
    <3>1. inProgress' \in [Sockets -> BOOLEAN] /\ cleanup' \in [Sockets -> BOOLEAN]
      <4>1. inProgress \in [Sockets -> BOOLEAN] /\ cleanup \in [Sockets -> BOOLEAN]
        BY <1>2 DEF Udp!TypeOK
      <4> QED BY <2>6, <4>1
    <3>2. /\ list' \in [Sockets -> Sockets \cup {None}]
          /\ tstate' \in [Sockets -> {"running", "suspended"}]
          /\ result' \in [Sockets -> {"NONE", "SUCCESS", "UNAVAILABLE"}]
          /\ nxt' \in [Sockets -> Sockets] /\ prv' \in [Sockets -> Sockets]
      BY <1>2, <2>6 DEF Udp!TypeOK
    <3> QED BY <1>2, <3>1, <3>2 DEF Udp!TypeOK, Udp!mutexVars
  <2>11. PortsTrue'
    <3>1. Udp!ResultTellsTable' BY <1>2, <1>4, <2>3, <2>7, <2>8 DEF PortsTrue, Udp!ResultTellsTable
    <3>2. \A u \in Sockets : Udp!Bound(u)' => ~ Udp!Waits(u)' BY <1>2, <1>4, <2>7, <2>8 DEF PortsTrue
    <3> QED BY <1>2, <3>1, <3>2 DEF PortsTrue
  <2>12. WaitersTrue' BY <1>2, <1>3, <2>7, <2>8 DEF WaitersTrue
  <2>13. UnbindTrue'
    <3>1. CASE UNCHANGED Udp!mutexVars
      <4>1. unbinding' = unbinding /\ step' = step BY <3>1 DEF Udp!mutexVars
      <4>2. step = "handover" => unbinding \in Sockets BY <1>2 DEF UnbindTrue, Udp!TypeOK
      <4>3. step = "handover" => ~ Udp!Bound(unbinding)' /\ ~ Udp!Waits(unbinding)'
        <5>1. PICK u : u = unbinding OBVIOUS
        <5>2. step = "handover" => ~ Udp!Bound(u)' /\ ~ Udp!Waits(u)'
          BY <1>2, <1>4, <2>3, <2>7, <4>2, <5>1 DEF UnbindTrue
        <5> QED BY <4>1, <5>1, <5>2 DEF Udp!Bound, Udp!Waits
      <4> QED BY <1>2, <4>1, <4>3 DEF UnbindTrue
    <3>2. CASE unbinding' = None /\ step' = "none"
      BY <3>2 DEF UnbindTrue
    <3> QED BY <3>1, <3>2
  <2>14. Lined' /\ LinesGoOn
    <3>1. ASSUME NEW r \in Ports, Udp!Owner(r)' # None PROVE LineGoesOn(r)
      <4>1. CASE r = p
        <5>1. Line(<<>>, Udp!Waiting(p)', list'[Udp!Owner(p)'], nxt', prv') /\ <<>> \in Seq(Sockets)
          BY <1>3, <2>2, <2>3, <2>8, <2>9, EmptyLine
        <5>2. q = <<t>>
          <6>1. q # <<>> /\ q[1] = t BY <2>3, <2>4, <2>5 DEF Line
          <6>2. Len(q) = 1
            <7>1. \A i \in 1..Len(q) : q[i] \in {t} BY <2>4 DEF Line
            <7>2. \A i, j \in 1..Len(q) : i = j BY <2>4, <7>1 DEF Line
            <7>3. Len(q) \in Nat /\ Len(q) # 0 BY <2>4, <6>1, EmptySeq
            <7>4. 1 \in 1..Len(q) /\ Len(q) \in 1..Len(q) BY <7>3
            <7> QED BY <7>2, <7>4
          <6> QED BY <2>4, <6>1, <6>2
        <5>3. <<>> = Tail(q) BY <5>2
        <5>4. Line(q, Udp!Waiting(p), list[Udp!Owner(p)], nxt, prv) BY <2>2, <2>3, <2>4
        <5> QED BY <4>1, <5>1, <5>3, <5>4 DEF LineGoesOn, Follows
      <4>2. CASE r # p
        <5>1. PICK z \in Seq(Sockets) : Line(z, Udp!Waiting(r), list[Udp!Owner(r)], nxt, prv)
          BY <1>2, <1>3, <3>1 DEF Lined
        <5>2. Udp!Owner(r) # o /\ Udp!Owner(r) \in Sockets
          BY <1>0, <1>3, <2>2, <2>3, <3>1, <4>2, OwnerFacts, OneOwner
        <5>3. list'[Udp!Owner(r)] = list[Udp!Owner(r)] BY <2>8, <5>2
        <5>4. Line(z, Udp!Waiting(r)', list'[Udp!Owner(r)'], nxt', prv')
          BY <1>3, <2>6, <2>9, <4>2, <5>1, <5>3
        <5> QED BY <5>1, <5>4 DEF LineGoesOn, Follows
      <4> QED BY <4>1, <4>2
    <3>2. \A s \in Sockets : list'[s] # None => \E r \in Ports : Udp!Owner(r)' = s
      BY <1>2, <1>3, <2>8 DEF Lined
    <3> QED BY <3>1, <3>2, LinesStay
  <2>15. OneWaits' BY <1>2, <1>3, <2>7, <2>8 DEF OneWaits, WaitersTrue
  <2> QED BY <2>10, <2>11, <2>12, <2>13, <2>14, <2>15 DEF BindInv
<1> QED BY <1>5, <1>6

(* So does every step.                                                      *)
LEMMA BindStepKeeps ==
  ASSUME FewWait, BindInv, [Udp!Next]_(Udp!vars)
  PROVE  BindInv' /\ LinesGoOn
<1>1. ASSUME NEW s \in Sockets, NEW p \in Ports, Udp!BindFree(s, p) PROVE BindInv' /\ LinesGoOn
  BY <1>1, BindFreeKeeps
<1>2. ASSUME NEW s \in Sockets, NEW p \in Ports, Udp!BindUnavailable(s, p)
      PROVE  BindInv' /\ LinesGoOn
  BY <1>2, BindUnavailableKeeps
<1>3. ASSUME NEW s \in Sockets, NEW p \in Ports, Udp!BindWait(s, p) PROVE BindInv' /\ LinesGoOn
  BY <1>3, BindWaitKeeps
<1>4. ASSUME NEW s \in Sockets, NEW p \in Ports, Udp!UnbindTable(s, p)
      PROVE  BindInv' /\ LinesGoOn
  BY <1>4, UnbindTableKeeps
<1>5. ASSUME NEW s \in Sockets, Udp!Expire(s) PROVE BindInv' /\ LinesGoOn
  BY <1>5, CleanupKeeps DEF Udp!Expire
<1>6. ASSUME NEW s \in Sockets, Udp!UnbindWaiting(s) PROVE BindInv' /\ LinesGoOn
  BY <1>6, UnbindWaitingKeeps
<1>7. CASE Udp!HandOver BY <1>7, HandOverKeeps
<1>8. CASE Udp!UnbindCleanup
  <2>1. GiveUp /\ unbinding \in Sockets
    BY <1>8 DEF Udp!UnbindCleanup, BindInv, UnbindTrue, Udp!TypeOK
  <2>2. /\ Udp!BindCleanup(unbinding) /\ bound' = bound /\ port' = port /\ previous' = previous
        /\ step = "cleanup" /\ unbinding' = None /\ step' = "none"
    BY <1>8 DEF Udp!UnbindCleanup
  <2>3. PICK u \in Sockets : u = unbinding BY <2>1
  <2>4. Udp!BindCleanup(u) BY <2>2, <2>3
  <2> QED BY <2>1, <2>2, <2>4, CleanupKeeps
<1>9. CASE UNCHANGED Udp!vars
  <2>1. /\ bound' = bound /\ port' = port /\ inProgress' = inProgress
        /\ previous' = previous /\ list' = list /\ nxt' = nxt /\ prv' = prv
        /\ cleanup' = cleanup /\ tstate' = tstate /\ result' = result
        /\ unbinding' = unbinding /\ step' = step
    BY <1>9 DEF Udp!vars, Udp!threadVars, Udp!mutexVars
  <2>2. \A r \in Ports : Udp!Owner(r)' = Udp!Owner(r) /\ Udp!Waiting(r)' = Udp!Waiting(r)
    BY <2>1 DEF Udp!Owner, Udp!Waiting, Udp!Waits
  <2>3. Udp!TypeOK /\ PortsTrue /\ WaitersTrue /\ UnbindTrue /\ Lined /\ OneWaits
    BY DEF BindInv
  <2>4. Udp!TypeOK' BY <2>1, <2>3 DEF Udp!TypeOK
  <2>5. PortsTrue' BY <2>1, <2>3 DEF PortsTrue, Udp!ResultTellsTable, Udp!Bound, Udp!Waits
  <2>6. WaitersTrue' BY <2>1, <2>2, <2>3 DEF WaitersTrue, Udp!Waits
  <2>7. UnbindTrue' BY <2>1, <2>3 DEF UnbindTrue, Udp!Bound, Udp!Waits
  <2>8. Lined' /\ LinesGoOn BY <2>1, <2>2, <2>3, SameLines
  <2>9. OneWaits' BY <2>1, <2>2, <2>3 DEF OneWaits, Udp!Waits, WaitersTrue
  <2> QED BY <2>4, <2>5, <2>6, <2>7, <2>8, <2>9 DEF BindInv
<1> QED BY <1>1, <1>2, <1>3, <1>4, <1>5, <1>6, <1>7, <1>8, <1>9 DEF Udp!Next

(* The invariant of ports, lists and waiting threads holds in every         *)
(* reachable state, whatever the order of bind, unbind and time-outs        *)
(* (nx_udp_socket_bind.c, nx_udp_socket_unbind.c, nx_udp_bind_cleanup.c).   *)
THEOREM UdpBindInvariant == FewWait => (Udp!Spec => []BindInv)
<1> SUFFICES ASSUME FewWait PROVE Udp!Spec => []BindInv
  OBVIOUS
<1>1. Udp!Init => BindInv BY BindInit DEF FewWait
<1>2. BindInv /\ [Udp!Next]_(Udp!vars) => BindInv' BY BindStepKeeps
<1> QED BY <1>1, <1>2, PTL DEF Udp!Spec

-----------------------------------------------------------------------------
(* The walk along links l from h, as Behind takes it with those of a list.  *)
Walk(h, l, n) ==
  LET at[i \in 0..n] == IF i = 0 THEN h ELSE l[at[i - 1]] IN at[n]

(* It is what Behind does, before a step and after it.                      *)
LEMMA BehindIsWalk == \A o, n : Udp!Behind(o, n) = Walk(list[o], nxt, n)
  BY DEF Udp!Behind, Walk
LEMMA BehindIsWalkNext == \A o, n : Udp!Behind(o, n)' = Walk(list'[o], nxt', n)
  BY DEF Udp!Behind, Walk

(* It finds what any sequence that follows the links has.                   *)
LEMMA WalkIs ==
  ASSUME NEW h, NEW l, NEW n \in Nat, NEW w,
         w[0] = h, \A i \in 0..n : i # n => w[i + 1] = l[w[i]]
  PROVE  Walk(h, l, n) = w[n]
<1> DEFINE f == CHOOSE f : f = [i \in 0..n |-> IF i = 0 THEN h ELSE l[f[i - 1]]]
           g == [i \in 0..n |-> w[i]]
<1>1. g = [i \in 0..n |-> IF i = 0 THEN h ELSE l[g[i - 1]]]
  <2>1. ASSUME NEW i \in 0..n PROVE w[i] = IF i = 0 THEN h ELSE l[g[i - 1]]
    <3>1. CASE i = 0 BY <3>1
    <3>2. CASE i # 0
      <4>1. i - 1 \in 0..n /\ i - 1 # n /\ (i - 1) + 1 = i BY <3>2
      <4>2. w[(i - 1) + 1] = l[w[i - 1]] /\ g[i - 1] = w[i - 1] BY <4>1
      <4> QED BY <3>2, <4>1, <4>2
    <3> QED BY <3>1, <3>2
  <2> QED BY <2>1, Zenon
<1>2. f = [i \in 0..n |-> IF i = 0 THEN h ELSE l[f[i - 1]]]
  <2> HIDE DEF g
  <2> QED BY <1>1, Zenon
<1> HIDE DEF f
<1> DEFINE S == {k \in Nat : k \in 0..n => f[k] = w[k]}
<1>3. Nat \subseteq S
  <2>1. 0 \in S BY <1>2
  <2>2. ASSUME NEW k \in Nat, k \in S PROVE k + 1 \in S
    <3> SUFFICES ASSUME k + 1 \in 0..n PROVE f[k + 1] = w[k + 1]
      OBVIOUS
    <3>1. k \in 0..n /\ k # n /\ (k + 1) - 1 = k /\ k + 1 # 0 OBVIOUS
    <3>2. f[k + 1] = IF k + 1 = 0 THEN h ELSE l[f[(k + 1) - 1]] BY <1>2
    <3>3. f[k] = w[k] BY <2>2, <3>1
    <3> QED BY <3>1, <3>2, <3>3
  <2> HIDE DEF S
  <2> QED BY <2>1, <2>2, Induction
<1>4. f[n] = w[n] BY <1>3
<1>5. Walk(h, l, n) = f[n] BY DEF Walk, f
<1> QED BY <1>4, <1>5

(* From the head the walk finds the line, and then the head again.          *)
LEMMA WalkLine ==
  ASSUME NEW q, NEW W, NEW h, NEW n, NEW p, Line(q, W, h, n, p), q # <<>>
  PROVE  /\ Len(q) \in Nat \ {0}
         /\ \A i \in 1..Len(q) : Walk(h, n, i - 1) = q[i]
         /\ Walk(h, n, Len(q)) = h
<1> DEFINE m == Len(q)
           w == [i \in 0..m |-> IF i = m THEN q[1] ELSE q[i + 1]]
<1>1. q \in Seq(Sockets) /\ m \in Nat /\ m # 0
  <2>1. q \in Seq(Sockets) BY DEF Line
  <2> QED BY <2>1, EmptySeq
<1>2. h = q[1] BY DEF Line
<1>3. \A i \in 1..m : n[q[i]] = q[After(q, i)] BY DEF Line
<1>4. w[0] = h BY <1>1, <1>2
<1>5. ASSUME NEW i \in 0..m, i # m PROVE w[i + 1] = n[w[i]]
  <2>1. i + 1 \in 1..m /\ i + 1 \in 0..m BY <1>1, <1>5
  <2>2. w[i] = q[i + 1] BY <1>5
  <2>3. After(q, i + 1) = IF i + 1 = m THEN 1 ELSE (i + 1) + 1 BY DEF After
  <2>4. w[i + 1] = IF i + 1 = m THEN q[1] ELSE q[(i + 1) + 1] BY <2>1
  <2> QED BY <1>3, <2>1, <2>2, <2>3, <2>4
<1> HIDE DEF w
<1>6. ASSUME NEW k \in 0..m PROVE Walk(h, n, k) = w[k]
  <2>1. k \in Nat /\ \A i \in 0..k : i # k => w[i + 1] = n[w[i]]
    <3>1. \A i \in 0..k : i # k => i \in 0..m /\ i # m BY <1>1
    <3> QED BY <1>1, <1>5, <3>1
  <2> QED BY <1>4, <2>1, WalkIs
<1>7. ASSUME NEW i \in 1..m PROVE Walk(h, n, i - 1) = q[i]
  <2>1. i - 1 \in 0..m /\ i - 1 # m /\ (i - 1) + 1 = i BY <1>1
  <2> QED BY <1>6, <2>1 DEF w
<1>8. Walk(h, n, m) = h BY <1>1, <1>2, <1>6 DEF w
<1> QED BY <1>1, <1>7, <1>8

(* A line is as long as it has members.                                     *)
LEMMA LineLength ==
  ASSUME NEW q, NEW W, NEW h, NEW n, NEW p, Line(q, W, h, n, p)
  PROVE  Cardinality(W) = Len(q)
<1>1. Len(q) \in Nat BY DEF Line
<1>2. q \in Bijection(1..Len(q), W)
  <2>1. q \in [1..Len(q) -> Sockets] BY DEF Line
  <2>2. q \in [1..Len(q) -> W] BY <2>1 DEF Line
  <2> QED BY <2>2 DEF Line, Bijection, Injection, Surjection, IsInjective
<1>3. ExistsBijection(1..Len(q), W) BY <1>2 DEF ExistsBijection
<1> QED BY <1>1, <1>3, FS_CountingElements

(* What the invariant says of the lists.                                    *)
LEMMA InvListed == ASSUME FewWait, BindInv PROVE Udp!WaitersListed
<1>0. Udp!UdpBindAssumption BY DEF FewWait
<1> SUFFICES ASSUME NEW p \in Ports
             PROVE  LET o == Udp!Owner(p)
                        n == Cardinality(Udp!Waiting(p))
                    IN /\ n > 0 => o # None
                       /\ o # None => (list[o] = None <=> n = 0)
                       /\ o # None /\ n > 0 => {Udp!Behind(o, i) : i \in 0..n - 1} = Udp!Waiting(p)
                                               /\ Udp!Behind(o, n) = list[o]
  BY UdpCardinality DEF Udp!WaitersListed
<1>1. CASE Udp!Owner(p) = None
  <2>1. Udp!Waiting(p) = {} BY <1>0, <1>1, OwnerFacts
  <2>2. Cardinality(Udp!Waiting(p)) = 0 BY <2>1, FS_EmptySet
  <2> QED BY <1>1, <2>2
<1>2. CASE Udp!Owner(p) # None
  <2>1. PICK o : o = Udp!Owner(p) OBVIOUS
  <2>2. PICK q \in Seq(Sockets) : Line(q, Udp!Waiting(p), list[o], nxt, prv)
    BY <1>2, <2>1 DEF BindInv, Lined
  <2>3. PICK n \in Nat : n = Len(q) OBVIOUS
  <2>4. Cardinality(Udp!Waiting(p)) = n BY <2>2, <2>3, LineLength
  <2>5. q = <<>> <=> n = 0 BY <2>3, EmptySeq
  <2>6. list[o] = None <=> n = 0
    <3>1. list[o] = IF q = <<>> THEN None ELSE q[1] BY <2>2 DEF Line
    <3>2. n # 0 => q[1] \in Sockets
      <4>1. n # 0 => 1 \in 1..n BY <2>3
      <4> QED BY <2>3, <4>1
    <3> QED BY <1>0, <2>5, <3>1, <3>2 DEF Udp!UdpBindAssumption
  <2>7. ASSUME n # 0
        PROVE  {Udp!Behind(o, i) : i \in 0..n - 1} = Udp!Waiting(p) /\ Udp!Behind(o, n) = list[o]
    <3>1. /\ \A i \in 1..n : Udp!Behind(o, i - 1) = q[i]
          /\ Udp!Behind(o, n) = list[o]
      BY <2>2, <2>3, <2>5, <2>7, WalkLine, BehindIsWalk
    <3>2. Udp!Waiting(p) = {q[i] : i \in 1..n} BY <2>2, <2>3 DEF Line
    <3>3. \A i \in 0..n - 1 : i + 1 \in 1..n /\ (i + 1) - 1 = i BY <2>7
    <3>4. \A i \in 1..n : i - 1 \in 0..n - 1 BY <2>7
    <3>5. \A i \in 0..n - 1 : Udp!Behind(o, i) = q[i + 1]
      <4> TAKE i \in 0..n - 1
      <4>1. Udp!Behind(o, (i + 1) - 1) = q[i + 1] BY <3>1, <3>3
      <4> QED BY <3>3, <4>1
    <3>6. ASSUME NEW x \in {Udp!Behind(o, i) : i \in 0..n - 1} PROVE x \in Udp!Waiting(p)
      BY <3>2, <3>3, <3>5
    <3>7. ASSUME NEW x \in Udp!Waiting(p) PROVE x \in {Udp!Behind(o, i) : i \in 0..n - 1}
      BY <3>1, <3>2, <3>4
    <3> QED BY <3>1, <3>6, <3>7
  <2>8. n > 0 <=> n # 0 OBVIOUS
  <2> QED BY <1>2, <2>1, <2>4, <2>6, <2>7, <2>8
<1> QED BY <1>1, <1>2

(* Before counts the places in front of one that waits.                     *)
LEMMA BeforeIs ==
  ASSUME IsFiniteSet(Sockets), NEW q, NEW W \in SUBSET Sockets, NEW h, NEW n, NEW p,
         Line(q, W, h, n, p), NEW i \in 1..Len(q), NEW b,
         b = CHOOSE k \in 0..Cardinality(Sockets) :
               Walk(h, n, k) = q[i] /\ \A m \in 0..k - 1 : Walk(h, n, m) # q[i]
  PROVE  b = i - 1
<1>1. q \in Seq(Sockets) /\ Len(q) \in Nat BY DEF Line
<1>2. q # <<>> BY <1>1, EmptySeq
<1>3. \A j \in 1..Len(q) : Walk(h, n, j - 1) = q[j] BY <1>2, WalkLine
<1>4. \A j, k \in 1..Len(q) : q[j] = q[k] => j = k BY DEF Line
<1>5. i - 1 \in 0..Cardinality(Sockets)
  <2>1. Cardinality(W) = Len(q) BY LineLength
  <2>2. Cardinality(W) <= Cardinality(Sockets) BY FS_Subset
  <2>3. Cardinality(Sockets) \in Nat BY FS_CardinalityType
  <2> QED BY <1>1, <2>1, <2>2, <2>3
<1> DEFINE P(k) == Walk(h, n, k) = q[i] /\ \A m \in 0..k - 1 : Walk(h, n, m) # q[i]
<1>6. P(i - 1)
  <2>1. Walk(h, n, i - 1) = q[i] BY <1>3
  <2>2. ASSUME NEW m \in 0..(i - 1) - 1 PROVE Walk(h, n, m) # q[i]
    <3>1. m + 1 \in 1..Len(q) /\ (m + 1) - 1 = m /\ m + 1 # i BY <1>1
    <3>2. Walk(h, n, (m + 1) - 1) = q[m + 1] BY <1>3, <3>1
    <3> QED BY <1>4, <3>1, <3>2
  <2> QED BY <2>1, <2>2
<1>7. ASSUME NEW k \in 0..Cardinality(Sockets), P(k) PROVE k = i - 1
  <2>1. k \in Nat
    <3>1. Cardinality(Sockets) \in Nat BY FS_CardinalityType
    <3> QED BY <3>1
  <2>2. CASE k < i - 1
    <3>1. k \in 0..(i - 1) - 1 BY <1>1, <2>1, <2>2
    <3> QED BY <1>6, <1>7, <3>1
  <2>3. CASE k > i - 1
    <3>1. i - 1 \in 0..k - 1 BY <1>1, <2>1, <2>3
    <3> QED BY <1>6, <1>7, <3>1
  <2> QED BY <1>1, <2>1, <2>2, <2>3
<1> HIDE DEF P
<1>8. b = CHOOSE k \in 0..Cardinality(Sockets) : P(k) BY DEF P
<1>9. b \in 0..Cardinality(Sockets) /\ P(b) BY <1>5, <1>6, <1>8
<1> QED BY <1>7, <1>9

(* The port goes to the first of those that wait for it.                    *)
LEMMA StepHandsOver == ASSUME FewWait, BindInv, [Udp!Next]_(Udp!vars) PROVE Udp!HandedToWaiter
<1>0. Udp!UdpBindAssumption BY DEF FewWait
<1> SUFFICES ASSUME NEW p \in Ports, step = "handover", bound[p] = None, bound'[p] # None
             PROVE  Udp!Waits(bound'[p]) /\ port[bound'[p]] = p
  BY DEF Udp!HandedToWaiter
<1>1. Udp!TypeOK /\ UnbindTrue /\ unbinding # None
  BY DEF BindInv, UnbindTrue
<1>2. PICK s \in Sockets : s = unbinding BY <1>1 DEF Udp!TypeOK
<1>3. Udp!HandOver
  <2>1. bound' # bound OBVIOUS
  <2>2. ~ Udp!MutexFree BY <1>1 DEF Udp!MutexFree
  <2> QED
    BY ZenonT(30), <2>1, <2>2 DEF Udp!Next, Udp!vars, Udp!BindFree, Udp!BindUnavailable, Udp!BindWait, Udp!WaitOn, Udp!MayBind, Udp!UnbindTable,
       Udp!MayUnbind, Udp!Expire, Udp!UnbindWaiting, Udp!UnbindCleanup
<1>4. PICK n : n = list[s] OBVIOUS
<1>5. n # None /\ bound' = [bound EXCEPT ![port[s]] = n]
  BY <1>2, <1>3, <1>4 DEF Udp!HandOver, Udp!HandOverTo
<1>6. p = port[s] /\ bound'[p] = n
  BY <1>1, <1>5 DEF Udp!TypeOK
<1>7. Udp!Owner(p) = s BY <1>0, <1>1, <1>2, <1>6 DEF Udp!Owner, Udp!UdpBindAssumption
<1>8. PICK q \in Seq(Sockets) : Line(q, Udp!Waiting(p), n, nxt, prv)
  BY <1>0, <1>2, <1>4, <1>7 DEF BindInv, Lined, Udp!UdpBindAssumption
<1>9. n \in Udp!Waiting(p) BY <1>0, <1>5, <1>8, LineLinks DEF Udp!UdpBindAssumption
<1> QED BY <1>6, <1>9 DEF Udp!Waiting

(* Where the first of a line leaves or one is added at its end, nobody is   *)
(* pushed back.                                                             *)
LEMMA StepOvertakesNobody == ASSUME FewWait, BindInv, [Udp!Next]_(Udp!vars) PROVE Udp!OvertakesNobody
<1>0. Udp!UdpBindAssumption BY DEF FewWait
<1> SUFFICES ASSUME NEW s \in Sockets, Udp!Waits(s), Udp!Waits(s)' PROVE Udp!Before(s)' <= Udp!Before(s)
  BY DEF Udp!OvertakesNobody
<1>1. BindInv' /\ LinesGoOn BY BindStepKeeps
<1>2. PICK p : p = port[s] OBVIOUS
<1>3. p \in Ports /\ Udp!Owner(p) # None BY <1>2 DEF BindInv, WaitersTrue
<1>4. port'[s] = p
  <2>1. \A u \in Sockets : Udp!MayBind(u) => u # s BY DEF Udp!MayBind, Udp!Waits
  <2>2. port' = port \/ \E u \in Sockets, r \in Ports : Udp!MayBind(u) /\ port' = [port EXCEPT ![u] = r]
    BY DEF Udp!Next, Udp!vars, Udp!BindFree, Udp!BindUnavailable, Udp!BindWait, Udp!WaitOn, Udp!UnbindTable, Udp!Expire,
       Udp!UnbindWaiting, Udp!UnbindCleanup, Udp!HandOver, Udp!HandOverTo
  <2>3. port \in [Sockets -> Ports \cup {None}] BY DEF BindInv, Udp!TypeOK
  <2> QED BY <1>2, <2>1, <2>2, <2>3
<1>5. Udp!Owner(p)' # None
  <2>1. Udp!Owner(port[s])' # None BY <1>1 DEF BindInv, WaitersTrue
  <2> QED BY <1>4, <2>1 DEF Udp!Owner
<1>6. PICK h2 : h2 = list'[Udp!Owner(p)'] OBVIOUS
<1>7. PICK h : h = list[Udp!Owner(p)] OBVIOUS
<1>8. PICK n2 : n2 = nxt' OBVIOUS
<1>9. PICK p2 : p2 = prv' OBVIOUS
<1>10. PICK W2 : W2 = Udp!Waiting(p)' OBVIOUS
<1>11. PICK z \in Seq(Sockets), q \in Seq(Sockets) :
         Line(z, W2, h2, n2, p2) /\ Line(q, Udp!Waiting(p), h, nxt, prv) /\ Follows(q, z)
  BY <1>1, <1>3, <1>5, <1>6, <1>7, <1>8, <1>9, <1>10 DEF LinesGoOn, LineGoesOn
<1>12. s \in Udp!Waiting(p) /\ s \in W2 /\ Udp!Waiting(p) \subseteq Sockets /\ W2 \subseteq Sockets
  BY <1>2, <1>4, <1>10 DEF Udp!Waiting
<1>13. PICK i \in 1..Len(q) : q[i] = s BY <1>11, <1>12 DEF Line
<1>14. PICK j \in 1..Len(z) : z[j] = s BY <1>11, <1>12 DEF Line
<1>15. j <= i
  <2>1. \A a, b \in 1..Len(z) : z[a] = z[b] => a = b BY <1>11 DEF Line
  <2>2. CASE z = q BY <1>13, <1>14, <2>1, <2>2
  <2>3. CASE \E t : z = Append(q, t)
    <3>1. i \in 1..Len(z) /\ z[i] = s BY <1>13, <2>3
    <3> QED BY <1>14, <2>1, <3>1
  <2>4. CASE z = Tail(q)
    <3>1. q # <<>> BY <1>13, EmptySeq
    <3>2. Len(z) = Len(q) - 1 /\ \A k \in 1..Len(z) : z[k] = q[k + 1]
      BY <2>4, <3>1
    <3>3. q[j + 1] = q[i] /\ j + 1 \in 1..Len(q) BY <1>13, <1>14, <3>2
    <3>4. j + 1 = i BY <1>11, <3>3 DEF Line
    <3> QED BY <1>13, <1>14, <3>4
  <2> QED BY <1>11, <2>2, <2>3, <2>4 DEF Follows
<1>16. Udp!Before(s) = i - 1
  <2>1. Udp!Before(s) = CHOOSE k \in 0..Cardinality(Sockets) :
                          Walk(h, nxt, k) = q[i] /\ \A m \in 0..k - 1 : Walk(h, nxt, m) # q[i]
    BY <1>2, <1>7, <1>13, BehindIsWalk DEF Udp!Before, Udp!Cardinality, Cardinality
  <2>2. IsFiniteSet(Sockets) BY <1>0, UdpCardinality DEF Udp!UdpBindAssumption
  <2> QED BY <1>11, <1>12, <2>1, <2>2, BeforeIs
<1>17. Udp!Before(s)' = j - 1
  <2>1. Udp!Before(s)' = CHOOSE k \in 0..Cardinality(Sockets) :
                           Walk(h2, n2, k) = z[j] /\ \A m \in 0..k - 1 : Walk(h2, n2, m) # z[j]
    BY <1>4, <1>6, <1>8, <1>14, BehindIsWalkNext DEF Udp!Before, Udp!Cardinality, Cardinality
  <2>2. PICK b : b = Udp!Before(s)' OBVIOUS
  <2>3. IsFiniteSet(Sockets) BY <1>0, UdpCardinality DEF Udp!UdpBindAssumption
  <2> QED BY SMTT(20), <1>11, <1>12, <2>1, <2>2, <2>3, BeforeIs
<1> QED BY <1>13, <1>14, <1>15, <1>16, <1>17

(* Every variable has its type.                                             *)
THEOREM UdpBindTypes == FewWait => (Udp!Spec => []Udp!TypeOK)
<1>1. BindInv => Udp!TypeOK BY DEF BindInv
<1> QED BY <1>1, UdpBindInvariant, PTL

(* A socket has a port exactly when its last bind returned NX_SUCCESS and   *)
(* it was not unbound since (nx_udp_socket_bind.c, nx_udp_socket_unbind.c,  *)
(* nx_udp_bind_cleanup.c).                                                  *)
THEOREM UdpResultsTrue == FewWait => (Udp!Spec => []Udp!ResultTellsTable)
<1>1. BindInv => Udp!ResultTellsTable BY DEF BindInv, PortsTrue
<1> QED BY <1>1, UdpBindInvariant, PTL

(* A wait that ended left nothing behind: bind_in_progress is set exactly   *)
(* while the thread waits (nx_udp_bind_cleanup.c, nx_udp_socket_unbind.c).  *)
THEOREM UdpBindingWaits == FewWait => (Udp!Spec => []Udp!BindingWaits)
<1>1. BindInv => Udp!BindingWaits BY DEF BindInv, WaitersTrue, Udp!BindingWaits
<1> QED BY <1>1, UdpBindInvariant, PTL

(* Who waits for a port is on the list of the socket that holds it, linked  *)
(* in a ring, and nobody else is, also between unbind's two parts.          *)
THEOREM UdpWaitersListed == FewWait => (Udp!Spec => []Udp!WaitersListed)
<1> SUFFICES ASSUME FewWait PROVE Udp!Spec => []Udp!WaitersListed
  OBVIOUS
<1>1. BindInv => Udp!WaitersListed BY InvListed
<1> QED BY <1>1, UdpBindInvariant, PTL

(* A port that is given up goes to a thread that waits for it, none of whom *)
(* is overtaken by another, however often the port changes hands.           *)
THEOREM UdpPortsHandedOver ==
  FewWait => (Udp!Spec => [][Udp!HandedToWaiter /\ Udp!OvertakesNobody]_(Udp!vars))
<1> SUFFICES ASSUME FewWait PROVE Udp!Spec => [][Udp!HandedToWaiter /\ Udp!OvertakesNobody]_(Udp!vars)
  OBVIOUS
<1>1. BindInv /\ [Udp!Next]_(Udp!vars) => [Udp!HandedToWaiter /\ Udp!OvertakesNobody]_(Udp!vars)
  BY StepHandsOver, StepOvertakesNobody
<1> QED BY <1>1, UdpBindInvariant, PTL DEF Udp!Spec
=============================================================================
