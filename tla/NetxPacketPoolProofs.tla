------------------------- MODULE NetxPacketPoolProofs -------------------------
(***************************************************************************)
(* Proofs about NetxPacketPool, for every number of threads and packets,   *)
(* and that it implements NetxPacketOwnership: each step of the lists and  *)
(* marks maps to a step of the ownership or to a stutter.                  *)
(***************************************************************************)
EXTENDS NetxPacketPoolRefinement, FiniteSetTheorems, SequenceTheorems, TLAPS

(* What the invariants leave unsaid and every step relies on: the chain a   *)
(* caller is releasing consists of different packets it still owns, and a   *)
(* thread that was granted a packet has a real one.                         *)
ChainsOwned ==
  \A a \in Callers :
    /\ \A i \in 1..Len(chain[a]) : chain[a][i] \in holds[a]
    /\ \A i, j \in 1..Len(chain[a]) : chain[a][i] = chain[a][j] => i = j

GrantsReal == \A t \in Threads : Granted(t) => out[t] \in Packets

IInv == TypeOK /\ PacketsAccounted /\ NoWaitBesideFree /\ WaitersConsistent
          /\ ChainsOwned /\ GrantsReal

-----------------------------------------------------------------------------
(* Taking one element out of a sequence keeps the others, in order.         *)
LEMMA RemoveAtProperties ==
  ASSUME NEW S, NEW s \in Seq(S), NEW i \in 1..Len(s)
  PROVE  /\ RemoveAt(s, i) \in Seq(S)
         /\ Len(RemoveAt(s, i)) = Len(s) - 1
         /\ \A j \in 1..(Len(s) - 1) :
              RemoveAt(s, i)[j] = IF j < i THEN s[j] ELSE s[j + 1]
<1> DEFINE l == SubSeq(s, 1, i - 1)
           r == SubSeq(s, i + 1, Len(s))
<1>1. Len(s) \in Nat /\ i \in Int /\ 1 <= i /\ i <= Len(s)
  BY LenProperties
<1>2. \A j \in 1..Len(s) : s[j] \in S
  BY ElementOfSeq
<1>3. /\ l \in Seq(S) /\ Len(l) = i - 1
      /\ \A j \in 1..(i - 1) : l[j] = s[j]
  <2>1. \A j \in 1..(i - 1) : s[j] \in S
    BY <1>1, <1>2
  <2>2. /\ l \in Seq(S)
        /\ Len(l) = IF 1 <= i - 1 THEN (i - 1) - 1 + 1 ELSE 0
        /\ \A j \in 1..((i - 1) - 1 + 1) : l[j] = s[1 + j - 1]
    BY <1>1, <2>1, SubSeqProperties, SMT
  <2> QED BY <1>1, <2>2, SMT
<1>4. /\ r \in Seq(S) /\ Len(r) = Len(s) - i
      /\ \A j \in 1..(Len(s) - i) : r[j] = s[i + j]
  <2>1. \A j \in (i + 1)..Len(s) : s[j] \in S
    BY <1>1, <1>2
  <2>2. /\ r \in Seq(S)
        /\ Len(r) = IF i + 1 <= Len(s) THEN Len(s) - (i + 1) + 1 ELSE 0
        /\ \A j \in 1..(Len(s) - (i + 1) + 1) : r[j] = s[i + 1 + j - 1]
    BY <1>1, <2>1, SubSeqProperties, SMT
  <2> QED BY <1>1, <2>2, SMT
<1>5. /\ l \o r \in Seq(S)
      /\ Len(l \o r) = Len(l) + Len(r)
      /\ \A j \in 1..(Len(l) + Len(r)) :
           (l \o r)[j] = IF j <= Len(l) THEN l[j] ELSE r[j - Len(l)]
  BY <1>3, <1>4, ConcatProperties
<1>6. RemoveAt(s, i) = l \o r
  BY DEF RemoveAt
<1> HIDE DEF l, r
<1>7. Len(l \o r) = Len(s) - 1
  BY <1>1, <1>3, <1>4, <1>5
<1>8. ASSUME NEW j \in 1..(Len(s) - 1)
      PROVE  (l \o r)[j] = IF j < i THEN s[j] ELSE s[j + 1]
  <2>1. CASE j < i
    BY <1>1, <1>3, <1>4, <1>5, <2>1
  <2>2. CASE ~ (j < i)
    <3>1. /\ j - (i - 1) \in 1..(Len(s) - i) /\ i + (j - (i - 1)) = j + 1
          /\ j \in 1..(Len(l) + Len(r)) /\ ~ (j <= Len(l))
      BY <1>1, <1>3, <1>4, <2>2
    <3>2. (l \o r)[j] = r[j - (i - 1)]
      BY <1>3, <1>5, <3>1
    <3> QED BY <1>4, <2>2, <3>1, <3>2
  <2> QED BY <2>1, <2>2
<1> QED BY <1>5, <1>6, <1>7, <1>8, Zenon

(* The pool starts with every packet free and nobody waiting.               *)
LEMMA InitIInv == Init => IInv
<1> SUFFICES ASSUME Init PROVE IInv
  OBVIOUS
<1> USE PoolAssumption DEF Init, Callers
<1>1. TypeOK
  <2>1. <<>> \in Seq(Threads) /\ <<>> \in Seq(Packets)
    BY EmptySeq
  <2> QED BY <2>1, FS_CardinalityType DEF TypeOK
<1>2. PacketsAccounted
  BY DEF PacketsAccounted, Has, Granted
<1>3. NoWaitBesideFree /\ WaitersConsistent /\ ChainsOwned /\ GrantsReal
  BY DEF NoWaitBesideFree, WaitersConsistent, ChainsOwned, GrantsReal, Granted, Listed
<1> QED BY <1>1, <1>2, <1>3 DEF IInv

(* Every step keeps the types.                                              *)
LEMMA StepTypeOK == IInv /\ [Next]_vars => TypeOK'
<1> SUFFICES ASSUME IInv, [Next]_vars PROVE TypeOK'
  OBVIOUS
<1> USE PoolAssumption DEF IInv, TypeOK, Callers
<1>1. ASSUME NEW a \in Callers, AllocateAvailable(a) PROVE TypeOK'
  BY <1>1 DEF AllocateAvailable, waitVars
<1>2. ASSUME NEW t \in Threads, AllocateWait(t) PROVE TypeOK'
  BY <1>2, AppendProperties DEF AllocateWait, poolVars, callerVars
<1>3. ASSUME NEW t \in Threads, AllocateReturn(t) PROVE TypeOK'
  <2>1. holds' \in [Callers -> SUBSET Packets]
    <3>1. CASE status[t] = "SUCCESS"
      <4>1. out[t] \in Packets /\ t \in Callers
        BY <1>3, <3>1 DEF AllocateReturn, GrantsReal, Granted
      <4>2. holds' = [holds EXCEPT ![t] = @ \cup {out[t]}]
        BY <1>3, <3>1 DEF AllocateReturn
      <4> QED BY <4>1, <4>2
    <3>2. CASE status[t] # "SUCCESS"
      BY <1>3, <3>2 DEF AllocateReturn
    <3> QED BY <3>1, <3>2
  <2> QED BY <1>3, <2>1 DEF AllocateReturn, poolVars
<1>4. ASSUME NEW a \in Callers, ReleaseStart(a) PROVE TypeOK'
  BY <1>4 DEF ReleaseStart, poolVars, waitVars
<1>5. ASSUME NEW a \in Callers, ReleaseToWaiter(a) PROVE TypeOK'
  <2>1. /\ Head(suspList) \in Threads /\ Tail(suspList) \in Seq(Threads)
        /\ Len(suspList) \in Nat \ {0}
    BY <1>5, HeadTailProperties, EmptySeq DEF ReleaseToWaiter
  <2>2. Head(chain[a]) \in Packets /\ Tail(chain[a]) \in Seq(Packets)
    BY <1>5, HeadTailProperties DEF ReleaseToWaiter
  <2> QED BY <1>5, <2>1, <2>2 DEF ReleaseToWaiter, poolVars, WaitersConsistent
<1>6. ASSUME NEW a \in Callers, ReleaseToPool(a) PROVE TypeOK'
  <2>1. Head(chain[a]) \in Packets /\ Tail(chain[a]) \in Seq(Packets)
    BY <1>6, HeadTailProperties DEF ReleaseToPool
  <2> QED BY <1>6, <2>1 DEF ReleaseToPool, waitVars
<1>7. ASSUME NEW a \in Callers, ReleaseInvalid(a) PROVE TypeOK'
  BY <1>7 DEF ReleaseInvalid, waitVars, callerVars
<1>8. ASSUME NEW t \in Threads, TimerExpire(t) PROVE TypeOK'
  BY <1>8 DEF TimerExpire, poolVars, callerVars
<1>9. ASSUME PoolCleanup PROVE TypeOK'
  <2>1. CASE cleanup[timer]
    <3>1. PICK i \in 1..Len(suspList) : suspList' = RemoveAt(suspList, i)
      BY <1>9, <2>1 DEF PoolCleanup
    <3>2. suspList' \in Seq(Threads) /\ Len(suspList) \in Nat \ {0}
      BY <3>1, RemoveAtProperties, LenProperties
    <3>3. timer \in Threads /\ suspCount - 1 \in Nat
      BY <1>9, <3>2 DEF PoolCleanup, WaitersConsistent
    <3>4. /\ suspCount' = suspCount - 1 /\ timer' = NoThread
          /\ cleanup' = [cleanup EXCEPT ![timer] = FALSE]
          /\ status' = [status EXCEPT ![timer] = "NO_PACKET"]
          /\ tstate' = [tstate EXCEPT ![timer] = "resumed"]
      BY <1>9, <2>1 DEF PoolCleanup
    <3> QED BY <1>9, <3>2, <3>3, <3>4 DEF PoolCleanup, poolVars, callerVars
  <2>2. CASE ~ cleanup[timer]
    BY <1>9, <2>2 DEF PoolCleanup, poolVars, callerVars
  <2> QED BY <2>1, <2>2
<1>10. CASE UNCHANGED vars
  BY <1>10 DEF vars, poolVars, waitVars, callerVars
<1> QED BY <1>1, <1>2, <1>3, <1>4, <1>5, <1>6, <1>7, <1>8, <1>9, <1>10 DEF Next, Release

-----------------------------------------------------------------------------
(* Who has which packet after each kind of step: first, an allocation.      *)
LEMMA AfterTake ==
  ASSUME IInv, NEW a \in Callers, AllocateAvailable(a)
  PROVE  \E p \in free :
           /\ free' = free \ {p} /\ mark' = [mark EXCEPT ![p] = "ALLOCATED"]
           /\ \A b \in Callers, q \in Packets :
                Has(b, q)' <=> Has(b, q) \/ (b = a /\ q = p)
<1>1. PICK p \in free : /\ free' = free \ {p}
                       /\ mark' = [mark EXCEPT ![p] = "ALLOCATED"]
                       /\ holds' = [holds EXCEPT ![a] = @ \cup {p}]
  BY DEF AllocateAvailable
<1>2. UNCHANGED <<tstate, status, out>>
  BY DEF AllocateAvailable, waitVars
<1>3. ASSUME NEW b \in Callers, NEW q \in Packets
      PROVE  Has(b, q)' <=> Has(b, q) \/ (b = a /\ q = p)
  <2>1. q \in holds'[b] <=> q \in holds[b] \/ (b = a /\ q = p)
    BY <1>1 DEF IInv, TypeOK
  <2> QED BY <1>2, <2>1, Zenon DEF Has, Granted
<1> QED BY <1>1, <1>3

(* After a release to a waiter the packet moved from the releaser to the    *)
(* oldest waiter.                                                           *)
LEMMA AfterHandOver ==
  ASSUME IInv, NEW a \in Callers, ReleaseToWaiter(a)
  PROVE  \E p \in Packets, t \in Threads :
           /\ p = Head(chain[a]) /\ t = Head(suspList)
           /\ Has(a, p) /\ t # a /\ tstate[t] = "suspended"
           /\ Granted(t)' /\ out'[t] = p
           /\ \A u \in Threads :
                u # t => (Granted(u)' <=> Granted(u)) /\ out'[u] = out[u]
           /\ \A b \in Callers, q \in Packets :
                Has(b, q)' <=> IF q = p THEN b = t ELSE Has(b, q)
<1> USE DEF IInv, TypeOK, Callers
<1>1. PICK p \in Packets : p = Head(chain[a]) /\ p \in holds[a]
  <2>1. chain[a] \in Seq(Packets) /\ chain[a] # <<>>
    BY DEF ReleaseToWaiter
  <2>2. 1 \in 1..Len(chain[a]) /\ Head(chain[a]) = chain[a][1]
    BY <2>1, EmptySeq
  <2> QED BY <2>1, <2>2 DEF ChainsOwned
<1>2. PICK t \in Threads : t = Head(suspList) /\ tstate[t] = "suspended"
  <2>1. suspList \in Seq(Threads) /\ suspList # <<>>
    BY DEF ReleaseToWaiter
  <2>2. 1 \in 1..Len(suspList) /\ Head(suspList) = suspList[1]
    BY <2>1, EmptySeq
  <2>3. Head(suspList) \in Threads
    BY <2>1, HeadTailProperties
  <2> QED BY <2>2, <2>3 DEF WaitersConsistent, Listed
<1>3. t # a /\ (a \in Threads => ~ Granted(a))
  BY <1>2, PoolAssumption DEF ReleaseToWaiter, MayRun, Granted
<1>4. /\ status' = [status EXCEPT ![t] = "SUCCESS"]
      /\ out' = [out EXCEPT ![t] = p]
      /\ tstate' = [tstate EXCEPT ![t] = "resumed"]
      /\ holds' = [holds EXCEPT ![a] = @ \ {p}]
  BY <1>1, <1>2 DEF ReleaseToWaiter
<1>5. Granted(t)' /\ out'[t] = p /\ ~ Granted(t)
  BY <1>2, <1>4 DEF Granted
<1>6. ASSUME NEW u \in Threads, u # t
      PROVE  (Granted(u)' <=> Granted(u)) /\ out'[u] = out[u]
  BY <1>4, <1>6 DEF Granted
<1>7. ASSUME NEW b \in Callers, NEW q \in Packets
      PROVE  Has(b, q)' <=> IF q = p THEN b = t ELSE Has(b, q)
  <2>1. Has(b, p) => b = a
    BY <1>1, Zenon DEF PacketsAccounted, Has
  <2>2. q \in holds'[b] <=> q \in holds[b] /\ ~ (b = a /\ q = p)
    BY <1>4
  <2>3. CASE b = t
    BY <1>2, <1>3, <1>5, <2>2, <2>3 DEF Has
  <2>4. CASE b # t
    <3>1. b \in Threads => (Granted(b)' <=> Granted(b)) /\ out'[b] = out[b]
      BY <1>6, <2>4
    <3>2. CASE q = p
      BY <1>3, <2>1, <2>2, <2>4, <3>1, <3>2, Zenon DEF Has
    <3>3. CASE q # p
      BY <2>2, <2>4, <3>1, <3>3, Zenon DEF Has
    <3> QED BY <3>2, <3>3
  <2> QED BY <2>3, <2>4
<1>8. Has(a, p)
  BY <1>1 DEF Has
<1> HIDE DEF IInv, TypeOK, Callers
<1> QED BY <1>1, <1>2, <1>3, <1>5, <1>6, <1>7, <1>8, Zenon

(* After a release to the pool the packet moved from the releaser to the    *)
(* free list.                                                               *)
LEMMA AfterGiveBack ==
  ASSUME IInv, NEW a \in Callers, ReleaseToPool(a)
  PROVE  \E p \in Packets :
           /\ p = Head(chain[a]) /\ Has(a, p)
           /\ \A b \in Callers, q \in Packets :
                Has(b, q)' <=> q # p /\ Has(b, q)
<1> USE DEF IInv, TypeOK, Callers
<1>1. PICK p \in Packets : p = Head(chain[a]) /\ p \in holds[a]
  <2>1. chain[a] \in Seq(Packets) /\ chain[a] # <<>>
    BY DEF ReleaseToPool
  <2>2. 1 \in 1..Len(chain[a]) /\ Head(chain[a]) = chain[a][1]
    BY <2>1, EmptySeq
  <2> QED BY <2>1, <2>2 DEF ChainsOwned
<1>2. a \in Threads => ~ Granted(a)
  BY PoolAssumption DEF ReleaseToPool, MayRun, Granted
<1>3. /\ holds' = [holds EXCEPT ![a] = @ \ {p}]
      /\ UNCHANGED <<tstate, status, out>>
  BY <1>1 DEF ReleaseToPool, waitVars
<1>4. ASSUME NEW b \in Callers, NEW q \in Packets
      PROVE  Has(b, q)' <=> q # p /\ Has(b, q)
  <2>1. Has(b, p) => b = a
    BY <1>1, Zenon DEF PacketsAccounted, Has
  <2>2. q \in holds'[b] <=> q \in holds[b] /\ ~ (b = a /\ q = p)
    BY <1>3
  <2> QED BY <1>2, <1>3, <2>1, <2>2, Zenon DEF Has, Granted
<1> QED BY <1>1, <1>4, Zenon DEF Has

(* The steps that move no packet.                                           *)
MovesNothing ==
  \/ \E a \in Callers : ReleaseStart(a) \/ ReleaseInvalid(a)
  \/ \E t \in Threads : AllocateWait(t) \/ AllocateReturn(t) \/ TimerExpire(t)
  \/ PoolCleanup \/ UNCHANGED vars

(* A step that moves nothing changes nobody's packets.                      *)
LEMMA AfterOther ==
  ASSUME IInv, MovesNothing
  PROVE  /\ UNCHANGED <<free, available, mark>>
         /\ \A t \in Threads : Granted(t)' => Granted(t) /\ out'[t] = out[t]
         /\ \A b \in Callers, q \in Packets : Has(b, q)' <=> Has(b, q)
<1> USE DEF IInv, TypeOK, Callers
<1> DEFINE Same ==
      /\ UNCHANGED <<free, available, mark>>
      /\ \A t \in Threads : Granted(t)' => Granted(t) /\ out'[t] = out[t]
      /\ \A b \in Callers, q \in Packets : Has(b, q)' <=> Has(b, q)
<1>1. CASE UNCHANGED <<free, available, mark, tstate, status, out, holds>>
  BY <1>1 DEF Granted, Has
<1>2. ASSUME NEW t \in Threads, AllocateWait(t) PROVE Same
  <2>1. ~ Granted(t) /\ ~ Granted(t)'
    BY <1>2, PoolAssumption DEF AllocateWait, MayRun, Granted
  <2>2. \A u \in Threads : u # t => (Granted(u)' <=> Granted(u)) /\ out'[u] = out[u]
    BY <1>2 DEF AllocateWait, Granted
  <2>3. UNCHANGED <<free, available, mark, holds>>
    BY <1>2 DEF AllocateWait, poolVars, callerVars
  <2> QED BY <2>1, <2>2, <2>3 DEF Has
<1>3. ASSUME NEW t \in Threads, AllocateReturn(t) PROVE Same
  <2>1. /\ ~ Granted(t)' /\ (Granted(t) <=> status[t] = "SUCCESS")
        /\ UNCHANGED <<free, available, mark, status, out>>
    BY <1>3 DEF AllocateReturn, Granted, poolVars
  <2>2. \A u \in Threads : u # t => (Granted(u)' <=> Granted(u))
    BY <1>3 DEF AllocateReturn, Granted
  <2>3. ASSUME NEW b \in Callers, NEW q \in Packets
        PROVE  q \in holds'[b] <=> q \in holds[b] \/ (b = t /\ Granted(t) /\ out[t] = q)
    <3>1. CASE status[t] = "SUCCESS"
      <4>1. holds' = [holds EXCEPT ![t] = @ \cup {out[t]}]
        BY <1>3, <3>1 DEF AllocateReturn
      <4> QED BY <2>1, <3>1, <4>1
    <3>2. CASE status[t] # "SUCCESS"
      <4>1. holds' = holds
        BY <1>3, <3>2 DEF AllocateReturn
      <4> QED BY <2>1, <3>2, <4>1
    <3> QED BY <3>1, <3>2
  <2>4. ASSUME NEW b \in Callers, NEW q \in Packets PROVE Has(b, q)' <=> Has(b, q)
    <3>1. CASE b = t
      BY <2>1, <2>3, <3>1 DEF Has
    <3>2. CASE b # t
      <4>1. q \in holds'[b] <=> q \in holds[b]
        BY <2>3, <3>2
      <4>2. b \in Threads => (Granted(b)' <=> Granted(b))
        BY <2>2, <3>2
      <4> QED BY <2>1, <4>1, <4>2, Zenon DEF Has
    <3> QED BY <3>1, <3>2
  <2>5. \A u \in Threads : Granted(u)' => Granted(u)
    BY <2>1, <2>2, Zenon
  <2> QED BY <2>1, <2>4, <2>5
<1>4. ASSUME PoolCleanup PROVE Same
  <2>1. CASE cleanup[timer]
    <3>1. PICK t \in Threads : t = timer /\ tstate[t] = "suspended"
      BY <1>4, <2>1 DEF PoolCleanup, WaitersConsistent
    <3>2. ~ Granted(t) /\ ~ Granted(t)'
      BY <1>4, <2>1, <3>1 DEF PoolCleanup, Granted
    <3>3. \A u \in Threads : u # t => (Granted(u)' <=> Granted(u))
      BY <1>4, <2>1, <3>1 DEF PoolCleanup, Granted
    <3>4. UNCHANGED <<free, available, mark, holds, out>>
      BY <1>4 DEF PoolCleanup, poolVars, callerVars
    <3> QED BY <3>2, <3>3, <3>4 DEF Has
  <2>2. CASE ~ cleanup[timer]
    BY <1>1, <1>4, <2>2 DEF PoolCleanup, poolVars, callerVars
  <2> QED BY <2>1, <2>2
<1>5. ASSUME \E a \in Callers : ReleaseStart(a) \/ ReleaseInvalid(a) PROVE Same
  BY <1>1, <1>5 DEF ReleaseStart, ReleaseInvalid, poolVars, waitVars, callerVars
<1>6. ASSUME NEW t \in Threads, TimerExpire(t) PROVE Same
  BY <1>1, <1>6 DEF TimerExpire, poolVars, callerVars
<1>7. ASSUME UNCHANGED vars PROVE Same
  BY <1>1, <1>7 DEF vars, poolVars, waitVars, callerVars
<1> QED BY <1>2, <1>3, <1>4, <1>5, <1>6, <1>7 DEF MovesNothing

(* Every step takes, hands over, gives back, or moves nothing.              *)
LEMMA StepKinds ==
  [Next]_vars => \/ MovesNothing
                 \/ \E a \in Callers : \/ AllocateAvailable(a)
                                       \/ ReleaseToWaiter(a) \/ ReleaseToPool(a)
BY DEF Next, Release, MovesNothing

(* The free packets can be counted.                                         *)
LEMMA FreeIsFinite == IInv => IsFiniteSet(free) /\ Cardinality(free) \in Nat
BY PoolAssumption, FS_Subset, FS_CardinalityType DEF IInv, TypeOK

(* The packets stay accounted for, and a granted packet is a real one.      *)
LEMMA StepAccounted == IInv /\ [Next]_vars => PacketsAccounted' /\ GrantsReal'
<1> SUFFICES ASSUME IInv, [Next]_vars PROVE PacketsAccounted' /\ GrantsReal'
  OBVIOUS
<1>1. CASE MovesNothing
  <2>1. /\ UNCHANGED <<free, available, mark>>
        /\ \A t \in Threads : Granted(t)' => Granted(t) /\ out'[t] = out[t]
        /\ \A b \in Callers, q \in Packets : Has(b, q)' <=> Has(b, q)
    BY <1>1, AfterOther
  <2>2. GrantsReal'
    BY <2>1 DEF GrantsReal, IInv
  <2>3. PacketsAccounted'
    BY <2>1 DEF PacketsAccounted, IInv
  <2> QED BY <2>2, <2>3
<1>2. ASSUME NEW a \in Callers, AllocateAvailable(a) PROVE PacketsAccounted' /\ GrantsReal'
  <2>1. PICK p \in free :
          /\ free' = free \ {p} /\ mark' = [mark EXCEPT ![p] = "ALLOCATED"]
          /\ \A b \in Callers, q \in Packets :
               Has(b, q)' <=> Has(b, q) \/ (b = a /\ q = p)
    BY <1>2, AfterTake
  <2>2. available' = Cardinality(free')
    BY <1>2, <2>1, FreeIsFinite, FS_RemoveElement
    DEF AllocateAvailable, IInv, PacketsAccounted
  <2>3. \A q \in Packets : q \in free' <=> mark'[q] = "FREE"
    BY <2>1 DEF IInv, TypeOK, PacketsAccounted
  <2>4. p \in Packets /\ \A b \in Callers : ~ Has(b, p)
    BY <2>1 DEF IInv, TypeOK, PacketsAccounted
  <2>5. \A q \in Packets : q \in free' <=> \A b \in Callers : ~ Has(b, q)'
    BY <2>1, <2>4 DEF IInv, PacketsAccounted
  <2>6. \A q \in Packets : \A b, c \in Callers : Has(b, q)' /\ Has(c, q)' => b = c
    BY <2>1, <2>4 DEF IInv, PacketsAccounted
  <2>7. GrantsReal'
    BY <1>2 DEF AllocateAvailable, waitVars, IInv, GrantsReal, Granted
  <2> QED BY <2>2, <2>3, <2>5, <2>6, <2>7 DEF PacketsAccounted
<1>3. ASSUME NEW a \in Callers, ReleaseToWaiter(a) PROVE PacketsAccounted' /\ GrantsReal'
  <2>1. PICK p \in Packets, t \in Threads :
          /\ Has(a, p) /\ out'[t] = p
          /\ \A u \in Threads :
               u # t => (Granted(u)' <=> Granted(u)) /\ out'[u] = out[u]
          /\ \A b \in Callers, q \in Packets :
               Has(b, q)' <=> IF q = p THEN b = t ELSE Has(b, q)
    BY <1>3, AfterHandOver
  <2>2. UNCHANGED <<free, available, mark>>
    BY <1>3 DEF ReleaseToWaiter, poolVars
  <2>3. t \in Callers
    BY DEF Callers
  <2>4. GrantsReal'
    BY <2>1 DEF IInv, GrantsReal
  <2>5. PacketsAccounted'
    BY <2>1, <2>2, <2>3 DEF IInv, PacketsAccounted
  <2> QED BY <2>4, <2>5
<1>4. ASSUME NEW a \in Callers, ReleaseToPool(a) PROVE PacketsAccounted' /\ GrantsReal'
  <2>1. PICK p \in Packets :
          /\ p = Head(chain[a]) /\ Has(a, p)
          /\ \A b \in Callers, q \in Packets : Has(b, q)' <=> q # p /\ Has(b, q)
    BY <1>4, AfterGiveBack
  <2>2. /\ free' = free \cup {p} /\ available' = available + 1
        /\ mark' = [mark EXCEPT ![p] = "FREE"] /\ p \notin free
    BY <1>4, <2>1 DEF ReleaseToPool, IInv, PacketsAccounted
  <2>3. available' = Cardinality(free')
    BY <2>2, FreeIsFinite, FS_AddElement DEF IInv, PacketsAccounted
  <2>4. \A q \in Packets : q \in free' <=> mark'[q] = "FREE"
    BY <2>2 DEF IInv, TypeOK, PacketsAccounted
  <2>5. \A q \in Packets : q \in free' <=> \A b \in Callers : ~ Has(b, q)'
    BY <2>1, <2>2 DEF IInv, PacketsAccounted
  <2>6. \A q \in Packets : \A b, c \in Callers : Has(b, q)' /\ Has(c, q)' => b = c
    BY <2>1 DEF IInv, PacketsAccounted
  <2>7. GrantsReal'
    BY <1>4 DEF ReleaseToPool, waitVars, IInv, GrantsReal, Granted
  <2> QED BY <2>3, <2>4, <2>5, <2>6, <2>7 DEF PacketsAccounted
<1> QED BY <1>1, <1>2, <1>3, <1>4, StepKinds

(* Chains under release stay owned by the caller that releases them.        *)
LEMMA StepChains == IInv /\ [Next]_vars => ChainsOwned'
<1> SUFFICES ASSUME IInv, [Next]_vars PROVE ChainsOwned'
  OBVIOUS
<1> USE DEF IInv, TypeOK
<1>1. CASE chain' = chain /\ \A a \in Callers : holds[a] \subseteq holds'[a]
  BY <1>1 DEF ChainsOwned
<1>2. ASSUME NEW a \in Callers, ReleaseStart(a) PROVE ChainsOwned'
  <2>1. PICK p, q \in holds[a] :
          chain' = [chain EXCEPT ![a] = IF p = q THEN <<p>> ELSE <<p, q>>]
    BY <1>2 DEF ReleaseStart
  <2>2. holds' = holds
    BY <1>2 DEF ReleaseStart
  <2>3. \/ p = q /\ chain'[a] = <<p>>
        \/ p # q /\ chain'[a] = <<p, q>>
    BY <2>1
  <2>4. \A b \in Callers : b # a => chain'[b] = chain[b]
    BY <2>1
  <2>5. /\ \A i \in 1..Len(chain'[a]) : chain'[a][i] \in holds'[a]
        /\ \A i, j \in 1..Len(chain'[a]) : chain'[a][i] = chain'[a][j] => i = j
    <3>1. CASE p = q /\ chain'[a] = <<p>>
      <4>1. Len(chain'[a]) = 1 /\ chain'[a][1] = p
        BY <3>1
      <4> QED BY <2>2, <4>1
    <3>2. CASE p # q /\ chain'[a] = <<p, q>>
      <4>1. Len(chain'[a]) = 2 /\ chain'[a][1] = p /\ chain'[a][2] = q
        BY <3>2
      <4>2. \A i \in 1..2 : i = 1 \/ i = 2
        OBVIOUS
      <4> QED BY <2>2, <3>2, <4>1, <4>2
    <3> QED BY <2>3, <3>1, <3>2
  <2> QED BY <2>2, <2>4, <2>5 DEF ChainsOwned
<1>3. ASSUME NEW a \in Callers, ReleaseToWaiter(a) \/ ReleaseToPool(a) PROVE ChainsOwned'
  <2>1. /\ chain[a] \in Seq(Packets) /\ chain[a] # <<>>
        /\ holds' = [holds EXCEPT ![a] = @ \ {Head(chain[a])}]
        /\ chain' = [chain EXCEPT ![a] = Tail(@)]
    BY <1>3 DEF ReleaseToWaiter, ReleaseToPool
  <2>2. /\ Head(chain[a]) = chain[a][1] /\ Len(chain[a]) \in Nat \ {0}
        /\ Len(Tail(chain[a])) = Len(chain[a]) - 1
        /\ \A i \in 1..Len(Tail(chain[a])) : Tail(chain[a])[i] = chain[a][i + 1]
    BY <2>1, HeadTailProperties, EmptySeq
  <2>3. \A i \in 1..Len(chain'[a]) :
          /\ chain'[a][i] = chain[a][i + 1]
          /\ i + 1 \in 1..Len(chain[a]) /\ i + 1 # 1 /\ 1 \in 1..Len(chain[a])
    BY <2>1, <2>2
  <2>4. ASSUME NEW i \in 1..Len(chain'[a]) PROVE chain'[a][i] \in holds'[a]
    BY <2>1, <2>2, <2>3 DEF ChainsOwned
  <2>5. ASSUME NEW i \in 1..Len(chain'[a]), NEW j \in 1..Len(chain'[a]),
               chain'[a][i] = chain'[a][j]
        PROVE  i = j
    BY <2>3, <2>5 DEF ChainsOwned
  <2>6. \A b \in Callers : b # a => chain'[b] = chain[b] /\ holds'[b] = holds[b]
    BY <2>1
  <2> QED BY <2>4, <2>5, <2>6 DEF ChainsOwned
<1>4. CASE UNCHANGED vars
  BY <1>1, <1>4 DEF vars, callerVars
<1>5. ASSUME NEW a \in Callers, AllocateAvailable(a) \/ ReleaseInvalid(a) PROVE ChainsOwned'
  <2>1. CASE AllocateAvailable(a)
    <3>1. PICK p \in free : chain' = chain /\ holds' = [holds EXCEPT ![a] = @ \cup {p}]
      BY <2>1 DEF AllocateAvailable
    <3> QED BY <1>1, <3>1
  <2> QED BY <1>1, <1>5, <2>1 DEF ReleaseInvalid, callerVars
<1>6. ASSUME NEW t \in Threads, AllocateWait(t) \/ AllocateReturn(t) \/ TimerExpire(t)
      PROVE  ChainsOwned'
  <2>1. CASE AllocateReturn(t)
    <3>1. chain' = chain /\ \/ holds' = holds
                            \/ holds' = [holds EXCEPT ![t] = @ \cup {out[t]}]
      BY <2>1 DEF AllocateReturn
    <3> QED BY <1>1, <3>1
  <2> QED BY <1>1, <1>6, <2>1 DEF AllocateWait, TimerExpire, callerVars
<1>7. ASSUME PoolCleanup PROVE ChainsOwned'
  BY <1>1, <1>7 DEF PoolCleanup, callerVars
<1> QED BY <1>2, <1>3, <1>4, <1>5, <1>6, <1>7 DEF Next, Release

(* The list keeps holding each suspended thread once: one thread joins its  *)
(* tail, leaves its head or is cut out of it.                               *)
LEMMA StepListed ==
  ASSUME IInv, [Next]_vars
  PROVE  /\ suspCount' = Len(suspList')
         /\ \A i, j \in 1..Len(suspList') : suspList'[i] = suspList'[j] => i = j
         /\ \A t \in Threads : Listed(t)' <=> tstate'[t] = "suspended"
<1> DEFINE Good == /\ suspCount' = Len(suspList')
                   /\ \A i, j \in 1..Len(suspList') : suspList'[i] = suspList'[j] => i = j
                   /\ \A t \in Threads : Listed(t)' <=> tstate'[t] = "suspended"
<1> USE DEF IInv, TypeOK
<1>1. Len(suspList) \in Nat
  BY LenProperties
<1>2. CASE UNCHANGED <<suspList, suspCount, tstate>>
  BY <1>2 DEF WaitersConsistent, Listed
<1>3. ASSUME NEW t \in Threads, AllocateWait(t) PROVE Good
  <2>1. /\ Len(suspList') = Len(suspList) + 1 /\ suspList'[Len(suspList) + 1] = t
        /\ \A i \in 1..Len(suspList) : suspList'[i] = suspList[i]
        /\ suspCount' = suspCount + 1 /\ tstate' = [tstate EXCEPT ![t] = "suspended"]
    BY <1>3, AppendProperties DEF AllocateWait
  <2>2. ~ Listed(t)
    BY <1>3, PoolAssumption DEF WaitersConsistent, AllocateWait, MayRun
  <2>3. ASSUME NEW i \in 1..Len(suspList'), NEW j \in 1..Len(suspList'),
               suspList'[i] = suspList'[j]
        PROVE  i = j
    BY <1>1, <2>1, <2>2, <2>3 DEF WaitersConsistent, Listed
  <2>4. ASSUME NEW u \in Threads PROVE Listed(u)' <=> Listed(u) \/ u = t
    <3>1. ASSUME Listed(u)' PROVE Listed(u) \/ u = t
      BY <1>1, <2>1, <3>1 DEF Listed
    <3>2. ASSUME Listed(u) PROVE Listed(u)'
      BY <1>1, <2>1, <3>2 DEF Listed
    <3>3. ASSUME u = t PROVE Listed(u)'
      <4>1. Len(suspList) + 1 \in 1..Len(suspList')
        BY <1>1, <2>1
      <4> QED BY <2>1, <3>3, <4>1 DEF Listed
    <3> QED BY <3>1, <3>2, <3>3
  <2> QED BY <2>1, <2>3, <2>4 DEF WaitersConsistent
<1>4. ASSUME NEW a \in Callers, ReleaseToWaiter(a) PROVE Good
  <2>1. suspList # <<>> /\ suspList' = Tail(suspList) /\ suspCount' = suspCount - 1
    BY <1>4 DEF ReleaseToWaiter
  <2>2. PICK t \in Threads : t = Head(suspList) /\ tstate' = [tstate EXCEPT ![t] = "resumed"]
    BY <1>4, <2>1, HeadTailProperties DEF ReleaseToWaiter
  <2>3. /\ t = suspList[1] /\ Len(suspList) \in Nat \ {0}
        /\ Len(suspList') = Len(suspList) - 1
        /\ \A i \in 1..Len(suspList') : suspList'[i] = suspList[i + 1]
    BY <2>1, <2>2, HeadTailProperties, EmptySeq
  <2>4. \A i \in 1..Len(suspList') : i + 1 \in 1..Len(suspList) /\ i + 1 # 1
    BY <2>3
  <2>5. ASSUME NEW i \in 1..Len(suspList'), NEW j \in 1..Len(suspList'),
               suspList'[i] = suspList'[j]
        PROVE  i = j
    BY <2>3, <2>4, <2>5 DEF WaitersConsistent
  <2>6. ASSUME NEW u \in Threads PROVE Listed(u)' <=> Listed(u) /\ u # t
    <3>1. ASSUME Listed(u)' PROVE Listed(u) /\ u # t
      <4>1. PICK i \in 1..Len(suspList') : suspList'[i] = u
        BY <3>1 DEF Listed
      <4>2. suspList[i + 1] = u /\ i + 1 \in 1..Len(suspList) /\ i + 1 # 1
            /\ 1 \in 1..Len(suspList)
        BY <2>3, <2>4, <4>1
      <4> QED BY <2>3, <4>2 DEF Listed, WaitersConsistent
    <3>2. ASSUME Listed(u), u # t PROVE Listed(u)'
      <4>1. PICK i \in 1..Len(suspList) : suspList[i] = u
        BY <3>2 DEF Listed
      <4>2. i - 1 \in 1..Len(suspList') /\ suspList'[i - 1] = u
        BY <2>3, <3>2, <4>1
      <4> QED BY <4>2 DEF Listed
    <3> QED BY <3>1, <3>2
  <2>7. suspCount' = Len(suspList')
    BY <2>1, <2>3 DEF WaitersConsistent
  <2> QED BY <2>2, <2>5, <2>6, <2>7 DEF WaitersConsistent
<1>5. ASSUME PoolCleanup, cleanup[timer] PROVE Good
  <2>1. PICK k \in 1..Len(suspList) : suspList[k] = timer /\ suspList' = RemoveAt(suspList, k)
    BY <1>5 DEF PoolCleanup
  <2>2. PICK t \in Threads : t = timer /\ tstate' = [tstate EXCEPT ![t] = "resumed"]
    BY <1>5 DEF PoolCleanup
  <2>3. /\ Len(suspList') = Len(suspList) - 1
        /\ \A i \in 1..Len(suspList') :
             suspList'[i] = IF i < k THEN suspList[i] ELSE suspList[i + 1]
    BY <2>1, RemoveAtProperties
  <2>4. ASSUME NEW i \in 1..Len(suspList'), NEW j \in 1..Len(suspList'),
               suspList'[i] = suspList'[j]
        PROVE  i = j
    <3>1. /\ i \in 1..Len(suspList) /\ i + 1 \in 1..Len(suspList)
          /\ j \in 1..Len(suspList) /\ j + 1 \in 1..Len(suspList)
      BY <1>1, <2>3
    <3> QED BY <1>1, <2>3, <2>4, <3>1 DEF WaitersConsistent
  <2>5. ASSUME NEW u \in Threads PROVE Listed(u)' <=> Listed(u) /\ u # t
    <3>1. ASSUME Listed(u)' PROVE Listed(u) /\ u # t
      <4>1. PICK i \in 1..Len(suspList') : suspList'[i] = u
        BY <3>1 DEF Listed
      <4>2. PICK j \in 1..Len(suspList) : suspList[j] = u /\ j # k
        BY <1>1, <2>3, <4>1
      <4> QED BY <2>1, <2>2, <4>2 DEF Listed, WaitersConsistent
    <3>2. ASSUME Listed(u), u # t PROVE Listed(u)'
      <4>1. PICK i \in 1..Len(suspList) : suspList[i] = u /\ i # k
        BY <2>1, <2>2, <3>2 DEF Listed
      <4>2. CASE i < k
        <5>1. i \in 1..Len(suspList') /\ suspList'[i] = u
          BY <1>1, <2>3, <4>1, <4>2
        <5> QED BY <5>1 DEF Listed
      <4>3. CASE i > k
        <5>1. i - 1 \in 1..Len(suspList') /\ suspList'[i - 1] = u
          BY <1>1, <2>3, <4>1, <4>3
        <5> QED BY <5>1 DEF Listed
      <4> QED BY <4>1, <4>2, <4>3
    <3> QED BY <3>1, <3>2
  <2>6. suspCount' = Len(suspList')
    BY <1>5, <2>3 DEF PoolCleanup, WaitersConsistent
  <2> QED BY <2>2, <2>4, <2>5, <2>6 DEF WaitersConsistent
<1>6. ASSUME NEW t \in Threads, AllocateReturn(t) PROVE Good
  <2>1. /\ tstate' = [tstate EXCEPT ![t] = "running"] /\ tstate[t] = "resumed"
        /\ UNCHANGED <<suspList, suspCount>>
    BY <1>6 DEF AllocateReturn
  <2> QED BY <2>1 DEF WaitersConsistent, Listed
<1>7. ASSUME NEW a \in Callers, \/ AllocateAvailable(a) \/ ReleaseStart(a)
                               \/ ReleaseToPool(a) \/ ReleaseInvalid(a)
      PROVE  Good
  BY <1>2, <1>7 DEF AllocateAvailable, ReleaseStart, ReleaseToPool, ReleaseInvalid, waitVars
<1>8. ASSUME NEW t \in Threads, TimerExpire(t) PROVE Good
  BY <1>2, <1>8 DEF TimerExpire
<1>9. ASSUME PoolCleanup, ~ cleanup[timer] PROVE Good
  BY <1>2, <1>9 DEF PoolCleanup
<1>10. ASSUME UNCHANGED vars PROVE Good
  BY <1>2, <1>10 DEF vars, waitVars
<1> HIDE DEF Good
<1> QED
  <2>1. Good
    BY <1>3, <1>4, <1>5, <1>6, <1>7, <1>8, <1>9, <1>10 DEF Next, Release
  <2> QED BY <2>1 DEF Good

(* The cleanup pointers follow the threads, and nobody waits beside a free  *)
(* packet.                                                                  *)
LEMMA StepWaiters == IInv /\ [Next]_vars => WaitersConsistent' /\ NoWaitBesideFree'
<1> SUFFICES ASSUME IInv, [Next]_vars PROVE WaitersConsistent' /\ NoWaitBesideFree'
  OBVIOUS
<1> DEFINE Cleanups == \A t \in Threads : cleanup'[t] <=> tstate'[t] = "suspended"
<1> SUFFICES Cleanups /\ NoWaitBesideFree'
  BY StepListed DEF WaitersConsistent
<1> USE DEF IInv, TypeOK
<1>1. CASE UNCHANGED <<suspList, free, cleanup, tstate>>
  BY <1>1 DEF WaitersConsistent, NoWaitBesideFree
<1>2. ASSUME NEW a \in Callers, AllocateAvailable(a) PROVE Cleanups /\ NoWaitBesideFree'
  BY <1>2 DEF AllocateAvailable, waitVars, WaitersConsistent, NoWaitBesideFree
<1>3. ASSUME NEW t \in Threads, AllocateWait(t) PROVE Cleanups /\ NoWaitBesideFree'
  <2>1. free' = {}
    BY <1>3, FreeIsFinite, FS_EmptySet DEF AllocateWait, poolVars, PacketsAccounted
  <2>2. Cleanups
    BY <1>3 DEF AllocateWait, WaitersConsistent
  <2> QED BY <2>1, <2>2 DEF NoWaitBesideFree
<1>4. ASSUME NEW t \in Threads, AllocateReturn(t) PROVE Cleanups /\ NoWaitBesideFree'
  <2>1. /\ tstate[t] = "resumed" /\ tstate' = [tstate EXCEPT ![t] = "running"]
        /\ UNCHANGED <<suspList, free, cleanup>>
    BY <1>4 DEF AllocateReturn, poolVars
  <2> QED BY <2>1 DEF WaitersConsistent, NoWaitBesideFree
<1>5. ASSUME NEW a \in Callers, ReleaseToWaiter(a) PROVE Cleanups /\ NoWaitBesideFree'
  <2>1. PICK t \in Threads : t = Head(suspList) /\ tstate[t] = "suspended"
    BY <1>5, AfterHandOver
  <2>2. /\ cleanup' = [cleanup EXCEPT ![t] = FALSE]
        /\ tstate' = [tstate EXCEPT ![t] = "resumed"]
        /\ suspList # <<>> /\ free' = free
    BY <1>5, <2>1 DEF ReleaseToWaiter, poolVars
  <2> QED BY <2>2 DEF WaitersConsistent, NoWaitBesideFree
<1>6. ASSUME NEW a \in Callers, ReleaseToPool(a) PROVE Cleanups /\ NoWaitBesideFree'
  BY <1>6 DEF ReleaseToPool, waitVars, WaitersConsistent, NoWaitBesideFree
<1>7. ASSUME PoolCleanup, cleanup[timer] PROVE Cleanups /\ NoWaitBesideFree'
  <2>1. /\ timer \in Threads /\ free' = free
        /\ cleanup' = [cleanup EXCEPT ![timer] = FALSE]
        /\ tstate' = [tstate EXCEPT ![timer] = "resumed"]
    BY <1>7 DEF PoolCleanup, poolVars
  <2>2. suspList # <<>>
    <3>1. PICK i \in 1..Len(suspList) : suspList[i] = timer
      BY <1>7 DEF PoolCleanup
    <3> QED BY <3>1, EmptySeq
  <2> QED BY <2>1, <2>2 DEF WaitersConsistent, NoWaitBesideFree
<1>8. ASSUME PoolCleanup, ~ cleanup[timer] PROVE Cleanups /\ NoWaitBesideFree'
  BY <1>1, <1>8 DEF PoolCleanup, poolVars
<1>9. ASSUME NEW a \in Callers, ReleaseStart(a) \/ ReleaseInvalid(a)
      PROVE  Cleanups /\ NoWaitBesideFree'
  BY <1>1, <1>9 DEF ReleaseStart, ReleaseInvalid, poolVars, waitVars
<1>10. ASSUME NEW t \in Threads, TimerExpire(t) PROVE Cleanups /\ NoWaitBesideFree'
  BY <1>1, <1>10 DEF TimerExpire, poolVars
<1>11. ASSUME UNCHANGED vars PROVE Cleanups /\ NoWaitBesideFree'
  BY <1>1, <1>11 DEF vars, poolVars, waitVars
<1> HIDE DEF Cleanups
<1> QED BY <1>2, <1>3, <1>4, <1>5, <1>6, <1>7, <1>8, <1>9, <1>10, <1>11 DEF Next, Release

(* No step serves a younger waiter before an older one.                     *)
LEMMA StepInOrder ==
  ASSUME IInv, [Next]_vars
  PROVE  /\ \A t, u \in Threads : Older(t, u) /\ Granted(u)' => ~ Listed(t)'
         /\ suspList # <<>> => free' = free
<1> USE DEF IInv, TypeOK
<1>1. \A t, u \in Threads : Older(t, u) => Listed(u) /\ ~ Granted(u)
  BY DEF Older, Listed, WaitersConsistent, Granted
<1>2. CASE MovesNothing
  BY <1>1, <1>2, AfterOther
<1>3. ASSUME NEW a \in Callers, AllocateAvailable(a) \/ ReleaseToPool(a)
      PROVE  /\ \A u \in Threads : Granted(u)' => Granted(u)
             /\ suspList = <<>>
  BY <1>3 DEF AllocateAvailable, ReleaseToPool, waitVars, Granted, NoWaitBesideFree
<1>4. ASSUME NEW a \in Callers, ReleaseToWaiter(a)
      PROVE  /\ \A t, u \in Threads : Older(t, u) => ~ Granted(u)'
             /\ free' = free
  <2>1. PICK h \in Threads :
          /\ h = Head(suspList) /\ suspList # <<>>
          /\ \A u \in Threads : u # h => (Granted(u)' <=> Granted(u))
    BY <1>4, AfterHandOver DEF ReleaseToWaiter
  <2>2. h = suspList[1] /\ 1 \in 1..Len(suspList)
    BY <2>1, EmptySeq
  <2>3. \A t, u \in Threads : Older(t, u) => u # h
    BY <2>2, LenProperties DEF Older, WaitersConsistent
  <2> QED BY <1>1, <1>4, <2>1, <2>3 DEF ReleaseToWaiter, poolVars
<1> QED BY <1>1, <1>2, <1>3, <1>4, StepKinds

-----------------------------------------------------------------------------
(* Every step keeps the invariant.                                          *)
LEMMA StepIInv == IInv /\ [Next]_vars => IInv'
BY StepTypeOK, StepAccounted, StepChains, StepWaiters DEF IInv

(* The invariant holds in every reachable state, for every set of packets   *)
(* and threads.                                                             *)
THEOREM PoolInvariant == Spec => []IInv
BY InitIInv, StepIInv, PTL DEF Spec

(* The words of the packets and of the thread control blocks only ever hold *)
(* what the services store in them, and the suspended count never underflows.*)
THEOREM TypeCorrect == Spec => []TypeOK
<1>1. IInv => TypeOK
  BY DEF IInv
<1> QED BY <1>1, PoolInvariant, PTL

(* No interleaving of threads, interrupts and time-outs loses a packet or   *)
(* gives it two owners.                                                     *)
THEOREM PacketsStayAccounted == Spec => []PacketsAccounted
<1>1. IInv => PacketsAccounted
  BY DEF IInv
<1> QED BY <1>1, PoolInvariant, PTL

(* A thread never sleeps in nx_packet_allocate while a packet is free.      *)
THEOREM NobodyWaitsBesideFree == Spec => []NoWaitBesideFree
<1>1. IInv => NoWaitBesideFree
  BY DEF IInv
<1> QED BY <1>1, PoolInvariant, PTL

(* The suspension list, its count, the cleanup pointers and the suspended   *)
(* threads agree, so no wait is ended twice.                                *)
THEOREM WaitersStayConsistent == Spec => []WaitersConsistent
<1>1. IInv => WaitersConsistent
  BY DEF IInv
<1> QED BY <1>1, PoolInvariant, PTL

(* Packets are granted in the order in which the threads began to wait.     *)
THEOREM WaitersServedInOrder == Spec => ServedInOrder
<1>1. IInv /\ [Next]_vars =>
        [/\ \A t, u \in Threads : Older(t, u) /\ Granted(u)' => ~ Listed(t)'
         /\ suspList # <<>> => free' = free]_vars
  BY StepInOrder
<1> QED BY <1>1, PoolInvariant, PTL DEF Spec, ServedInOrder

-----------------------------------------------------------------------------
(* The threads that wait for a packet, as the ownership sees them.           *)
Waiting == {t \in Threads : tstate[t] = "suspended"}

(* Owner is the pool for a free packet and else the one caller that has it. *)
OwnerIsHolder ==
  /\ Owner \in [Packets -> Callers \cup {Pool}]
  /\ \A p \in Packets : Owner[p] = Pool <=> p \in free
  /\ \A p \in Packets : \A a \in Callers : Owner[p] = a <=> Has(a, p)

(* The owner of a packet that is not free is the one caller that has it.    *)
LEMMA HolderIsOwner == IInv => OwnerIsHolder
<1> SUFFICES ASSUME IInv PROVE OwnerIsHolder
  OBVIOUS
<1> USE OwnerAssumption DEF IInv, PacketsAccounted
<1>1. ASSUME NEW p \in Packets
      PROVE  /\ p \in free => Owner[p] = Pool
             /\ p \notin free => Owner[p] \in Callers /\ Has(Owner[p], p)
  <2>1. CASE p \in free
    BY <2>1 DEF Owner
  <2>2. CASE p \notin free
    <3>1. \E a \in Callers : Has(a, p)
      BY <2>2
    <3>2. Owner[p] = CHOOSE a \in Callers : Has(a, p)
      BY <2>2 DEF Owner
    <3> QED BY <2>2, <3>1, <3>2, Zenon
  <2> QED BY <2>1, <2>2
<1>2. \A p \in Packets : Owner[p] = Pool <=> p \in free
  BY <1>1
<1>3. ASSUME NEW p \in Packets, NEW a \in Callers PROVE Owner[p] = a <=> Has(a, p)
  BY <1>1, Zenon
<1>4. Owner \in [Packets -> Callers \cup {Pool}]
  BY <1>1 DEF Owner
<1> QED BY <1>2, <1>3, <1>4 DEF OwnerIsHolder

(* The same of the next state.                                              *)
LEMMA HolderIsOwnerNext == IInv' => OwnerIsHolder'
BY HolderIsOwner, PTL

(* Nobody waits while the list is empty, and no packet is free while it is  *)
(* not.                                                                     *)
LEMMA WaitingEmpty ==
  ASSUME IInv
  PROVE  /\ suspList = <<>> => Waiting = {}
         /\ free # {} => suspList = <<>>
BY EmptySeq DEF IInv, WaitersConsistent, NoWaitBesideFree, Listed, Waiting

(* The pool's initial states are initial states of the ownership.           *)
LEMMA OwnershipInit == Init => Own!Init
<1> SUFFICES ASSUME Init PROVE Own!Init
  OBVIOUS
<1>1. Owner = [p \in Packets |-> Pool]
  BY DEF Init, Owner
<1>2. Waiting = {}
  BY DEF Init, Waiting
<1> QED BY <1>1, <1>2 DEF Own!Init, Waiting

(* Every step of the pool is a step of the ownership, or moves no packet    *)
(* and answers no wait.                                                     *)
LEMMA OwnershipStep == IInv /\ IInv' /\ [Next]_vars => [Own!Next]_<<Owner, Waiting>>
<1> SUFFICES ASSUME IInv, IInv', [Next]_vars PROVE [Own!Next]_<<Owner, Waiting>>
  OBVIOUS
<1>1. OwnerIsHolder /\ OwnerIsHolder'
  BY HolderIsOwner, HolderIsOwnerNext
<1>2. ASSUME NEW a \in Callers, AllocateAvailable(a) PROVE Own!Next
  <2>1. PICK p \in free :
          /\ free' = free \ {p}
          /\ \A b \in Callers, q \in Packets :
               Has(b, q)' <=> Has(b, q) \/ (b = a /\ q = p)
    BY <1>2, AfterTake
  <2>2. p \in Packets /\ Owner[p] = Pool
    BY <1>1, <2>1 DEF IInv, TypeOK, OwnerIsHolder
  <2>3. Waiting = {} /\ Waiting' = Waiting
    BY <1>2, <2>1, WaitingEmpty DEF AllocateAvailable, waitVars, Waiting
  <2>4. \A q \in Packets : Owner'[q] = IF q = p THEN a ELSE Owner[q]
    BY <1>1, <2>1, <2>2 DEF OwnerIsHolder
  <2>5. Owner' = [Owner EXCEPT ![p] = a]
    BY <1>1, <2>2, <2>4 DEF OwnerIsHolder
  <2> QED BY <2>2, <2>3, <2>5 DEF Own!Next, Own!Take, Waiting
<1>3. ASSUME NEW a \in Callers, ReleaseToWaiter(a) PROVE Own!Next
  <2>1. PICK p \in Packets, t \in Threads :
          /\ t = Head(suspList) /\ Has(a, p) /\ tstate[t] = "suspended"
          /\ \A b \in Callers, q \in Packets :
               Has(b, q)' <=> IF q = p THEN b = t ELSE Has(b, q)
    BY <1>3, AfterHandOver
  <2>2. Owner[p] = a /\ t \in Callers
    BY <1>1, <2>1 DEF OwnerIsHolder, Callers
  <2>3. a \notin Waiting /\ t \in Waiting
    BY <1>3, <2>1, PoolAssumption DEF ReleaseToWaiter, MayRun, Waiting
  <2>4. Waiting' = Waiting \ {t}
    BY <1>3, <2>1 DEF ReleaseToWaiter, Waiting, IInv, TypeOK
  <2>5. ASSUME NEW q \in Packets PROVE Owner'[q] = IF q = p THEN t ELSE Owner[q]
    <3>1. CASE q = p
      BY <1>1, <2>1, <2>2, <3>1 DEF OwnerIsHolder
    <3>2. CASE q # p
      <4>1. q \in free' <=> q \in free
        BY <1>3 DEF ReleaseToWaiter, poolVars
      <4>2. \A b \in Callers : Has(b, q)' <=> Has(b, q)
        BY <2>1, <3>2
      <4> QED BY <1>1, <3>2, <4>1, <4>2 DEF OwnerIsHolder
    <3> QED BY <3>1, <3>2
  <2>6. Owner' = [Owner EXCEPT ![p] = t]
    BY <1>1, <2>5 DEF OwnerIsHolder
  <2> QED BY <2>2, <2>3, <2>4, <2>6 DEF Own!Next, Own!HandOver, Waiting
<1>4. ASSUME NEW a \in Callers, ReleaseToPool(a) PROVE Own!Next
  <2>1. PICK p \in Packets :
          /\ p = Head(chain[a]) /\ Has(a, p)
          /\ \A b \in Callers, q \in Packets : Has(b, q)' <=> q # p /\ Has(b, q)
    BY <1>4, AfterGiveBack
  <2>2. Owner[p] = a /\ free' = free \cup {p}
    BY <1>1, <1>4, <2>1 DEF OwnerIsHolder, ReleaseToPool
  <2>3. Waiting = {} /\ Waiting' = Waiting
    BY <1>4, WaitingEmpty DEF ReleaseToPool, waitVars, Waiting
  <2>4. \A q \in Packets : Owner'[q] = IF q = p THEN Pool ELSE Owner[q]
    BY <1>1, <2>1, <2>2 DEF OwnerIsHolder
  <2>5. Owner' = [Owner EXCEPT ![p] = Pool]
    BY <1>1, <2>4 DEF OwnerIsHolder
  <2> QED BY <2>2, <2>3, <2>5 DEF Own!Next, Own!GiveBack, Waiting
<1>5. CASE MovesNothing
  <2>1. Owner' = Owner
    <3>1. /\ free' = free
          /\ \A b \in Callers, q \in Packets : Has(b, q)' <=> Has(b, q)
      BY <1>5, AfterOther
    <3>2. \A q \in Packets : Owner'[q] = Owner[q]
      BY <1>1, <3>1 DEF OwnerIsHolder
    <3> QED BY <1>1, <3>2 DEF OwnerIsHolder
  <2>2. ASSUME NEW t \in Threads, AllocateWait(t) PROVE Own!Next
    <3>1. t \notin Waiting
      BY <2>2, PoolAssumption DEF AllocateWait, MayRun, Waiting
    <3>2. Waiting' = Waiting \cup {t}
      BY <2>2 DEF AllocateWait, Waiting, IInv, TypeOK
    <3>3. \A p \in Packets : Owner[p] # Pool
      BY <1>1, <2>2, FreeIsFinite, FS_EmptySet
      DEF AllocateWait, IInv, PacketsAccounted, OwnerIsHolder
    <3> QED BY <2>1, <3>1, <3>2, <3>3 DEF Own!Next, Own!Wait, Waiting
  <2>3. ASSUME NEW t \in Threads, AllocateReturn(t) PROVE Waiting' = Waiting
    <3>1. tstate[t] = "resumed" /\ tstate' = [tstate EXCEPT ![t] = "running"]
      BY <2>3 DEF AllocateReturn
    <3> QED BY <3>1 DEF Waiting, IInv, TypeOK
  <2>4. ASSUME PoolCleanup, cleanup[timer] PROVE Own!Next
    <3>1. PICK t \in Threads : t = timer /\ tstate[t] = "suspended"
      BY <2>4 DEF PoolCleanup, IInv, TypeOK, WaitersConsistent
    <3>2. tstate' = [tstate EXCEPT ![t] = "resumed"]
      BY <2>4, <3>1 DEF PoolCleanup
    <3>3. t \in Waiting /\ Waiting' = Waiting \ {t}
      BY <3>1, <3>2 DEF Waiting, IInv, TypeOK
    <3> QED BY <2>1, <3>3 DEF Own!Next, Own!GiveUp, Waiting
  <2>5. ASSUME tstate' = tstate PROVE Waiting' = Waiting
    BY <2>5 DEF Waiting
  <2> QED
    BY <1>5, <2>1, <2>2, <2>3, <2>4, <2>5
    DEF MovesNothing, ReleaseStart, ReleaseInvalid, TimerExpire, PoolCleanup, waitVars, vars
<1> QED BY <1>2, <1>3, <1>4, <1>5, StepKinds

(* What nx_packet_allocate and nx_packet_release promise about who owns a   *)
(* packet and who waits for one is what their lists, marks and cleanup      *)
(* pointers do.                                                             *)
THEOREM PoolImplementsOwnership == Spec => ImplementsOwnership
<1> QED BY PoolInvariant, OwnershipInit, OwnershipStep, PTL
    DEF Spec, ImplementsOwnership, Own!Spec, Waiting
=============================================================================
