-------------------------- MODULE NetxTcpBindProofs --------------------------
(***************************************************************************)
(* Proofs about NetxTcpBind, for every number of sockets, ports and        *)
(* waiters.                                                                *)
(*                                                                         *)
(* The waiters of a socket are on one ring (Cyclic).  Two things in the    *)
(* code spoil it, and the model marks them: a cleanup through a pointer    *)
(* that was not handed over with the port (stale), and a check that leaves *)
(* its ring through a thread that meanwhile waits for the mutex (lost).    *)
(***************************************************************************)
EXTENDS NetxTcpBind, FiniteSetTheorems, TLAPS

(* W is one ring: n leads from each member to another, p back, and who      *)
(* follows n from any member comes by all.                                  *)
Cyclic(W, n, p) ==
  /\ \A x \in W : n[x] \in W /\ p[x] \in W /\ p[n[x]] = x /\ n[p[x]] = x
  /\ \A S \in SUBSET W : S # {} /\ (\A x \in S : n[x] \in S) => S = W

(* The links n2 and p2 are n and p, but for those that led to t.            *)
Unlinked(W, t, n, p, n2, p2) ==
  /\ \A x \in W \ {t, p[t]} : n2[x] = n[x]
  /\ \A x \in W \ {t, n[t]} : p2[x] = p[x]
  /\ n2[p[t]] = n[t] /\ p2[n[t]] = p[t]

(* Who follows n from h comes by all of W before it leaves W.               *)
Reaches(W, h, n) ==
  W # {} =>
    /\ h \in W
    /\ \A S \in SUBSET W : h \in S /\ (\A x \in S : n[x] \in W => n[x] \in S) => S = W

-----------------------------------------------------------------------------
(* A thread that waits is marked as binding, for a port a socket holds.     *)
WaitsTrue ==
  /\ \A s \in Sockets : Waits(s) =>
       /\ inProgress[s] /\ port[s] \in Ports /\ previous[s] \in Sockets
       /\ bound[port[s]] \in Sockets /\ cleanup[s] \in {"BIND", "DEFERRED"}
  /\ \A s \in Sockets :
       ~ Waits(s) => ~ inProgress[s] /\ cleanup[s] \notin {"BIND", "DEFERRED"}

(* The port table holds sockets whose bind succeeded, each once.            *)
TableTrue ==
  /\ \A p \in Ports : bound[p] # None =>
       /\ port[bound[p]] = p /\ result[bound[p]] = "SUCCESS" /\ ~ Waits(bound[p])
  /\ \A s \in Sockets : result[s] = "SUCCESS" => Bound(s)

(* The ring, the head and the count of a socket are those of its waiters.   *)
ListTrue(o) ==
  /\ Cyclic(Waiting(o), nxt, prv) /\ count[o] = Cardinality(Waiting(o))
  /\ IF Waiting(o) = {} THEN list[o] = None ELSE list[o] \in Waiting(o)
Listed == \A o \in Sockets : ListTrue(o)

(* The check is at some thread, and who waits for the mutex is in a list of *)
(* their own.                                                               *)
CheckConsistent ==
  /\ ip \in {"walk", "next"} => walk \in Sockets /\ left # 0
  /\ ip = "idle" => mutexList = None
  /\ mutexList # None => tstate[mutexList] = "mutex" /\ tstate[prv[mutexList]] = "mutex"

(* U are the waiters the check still comes by on this list.                 *)
Rest(U) ==
  /\ U \in SUBSET Sockets /\ \A w \in U : Waits(w)
  /\ ip \notin {"walk", "next"} => U = {}
  /\ ip = "walk" => Reaches(U, walk, nxt) /\ Cardinality(U) = left
  /\ ip = "next" => /\ tstate[walk] # "mutex" => Reaches(U, nxt[walk], nxt)
                    /\ Cardinality(U) = left - 1

(* A time-out that was deferred is still to be looked at.                   *)
Comes(U) ==
  \A s \in Sockets : cleanup[s] = "DEFERRED" =>
    event \/ (ip # "idle" /\ bound[port[s]] \in todo) \/ s \in U
Pending == \E U \in SUBSET Sockets : Rest(U) /\ Comes(U)

Strong == WaitsTrue /\ TableTrue /\ Listed /\ CheckConsistent /\ (~ lost => Pending)
IInv == TypeOK /\ (~ stale => Strong)

-----------------------------------------------------------------------------
(* A ring of none, and of one.                                              *)
LEMMA EmptyCyclic == ASSUME NEW n, NEW p PROVE Cyclic({}, n, p)
  BY DEF Cyclic

(* Only the links of the members matter.                                    *)
LEMMA SameCyclic ==
  ASSUME NEW W, NEW n, NEW p, NEW n2, NEW p2, Cyclic(W, n, p),
         \A x \in W : n2[x] = n[x] /\ p2[x] = p[x]
  PROVE  Cyclic(W, n2, p2)
<1>1. \A S \in SUBSET W : (\A x \in S : n2[x] \in S) => (\A x \in S : n[x] \in S)
  OBVIOUS
<1> QED BY <1>1 DEF Cyclic

(* A member that is linked to itself is alone.                              *)
LEMMA AloneCyclic ==
  ASSUME NEW W, NEW n, NEW p, Cyclic(W, n, p), NEW t \in W, n[t] = t
  PROVE  W = {t}
<1>1. {t} \in SUBSET W /\ \A x \in {t} : n[x] \in {t}
  OBVIOUS
<1> QED BY <1>1 DEF Cyclic

LEMMA OneCyclic ==
  ASSUME NEW t, NEW n, NEW p, n[t] = t, p[t] = t
  PROVE  Cyclic({t}, n, p)
BY DEF Cyclic

(* A new member goes between h and the one before it.                       *)
LEMMA InsertCyclic ==
  ASSUME NEW D, NEW W \in SUBSET D, NEW n \in [D -> D], NEW p, DOMAIN p = D,
         Cyclic(W, n, p), NEW h \in W, NEW t \in D, t \notin W,
         NEW n2, n2 = [n EXCEPT ![t] = h, ![p[h]] = t],
         NEW p2, p2 = [p EXCEPT ![t] = p[h], ![h] = t]
  PROVE  Cyclic(W \cup {t}, n2, p2)
<1> DEFINE l == p[h]
           V == W \cup {t}
<1>1. /\ l \in W /\ n[l] = h /\ l \in D /\ h \in D /\ l # t /\ h # t
      /\ \A x \in W : n[x] \in W /\ p[x] \in W /\ p[n[x]] = x /\ n[p[x]] = x /\ x \in D
  BY DEF Cyclic
<1>2. /\ n2[t] = h /\ n2[l] = t /\ \A x \in W : x # l => n2[x] = n[x]
      /\ p2[t] = l /\ p2[h] = t /\ \A x \in W : x # h => p2[x] = p[x]
  BY <1>1
<1> HIDE DEF l
<1>3. \A x \in V : n2[x] \in V /\ p2[x] \in V /\ p2[n2[x]] = x /\ n2[p2[x]] = x
  BY <1>1, <1>2
<1>4. ASSUME NEW S \in SUBSET V, S # {}, \A x \in S : n2[x] \in S PROVE S = V
  <2> DEFINE R == S \ {t}
  <2>1. R \in SUBSET W OBVIOUS
  <2>2. R # {}
    <3>1. CASE t \in S BY <3>1, <1>2, <1>1, <1>4
    <3>2. CASE t \notin S BY <3>2, <1>4
    <3> QED BY <3>1, <3>2
  <2>3. ASSUME NEW x \in R PROVE n[x] \in R
    <3>1. CASE x = l
      <4>1. t \in S BY <3>1, <1>2, <1>4
      <4>2. h \in S BY <4>1, <1>2, <1>4
      <4> QED BY <3>1, <4>2, <1>1
    <3>2. CASE x # l
      BY <3>2, <2>3, <2>1, <1>2, <1>1, <1>4
    <3> QED BY <3>1, <3>2
  <2>4. R = W
    <3> HIDE DEF R
    <3> QED BY <2>1, <2>2, <2>3 DEF Cyclic
  <2>5. t \in S
    BY <2>4, <1>1, <1>2, <1>4
  <2> QED BY <2>4, <2>5
<1> QED BY <1>3, <1>4 DEF Cyclic

(* A member that is not alone leaves.                                       *)
LEMMA RemoveCyclic ==
  ASSUME NEW W, NEW n, NEW p, Cyclic(W, n, p), NEW t, t \in W, n[t] # t,
         NEW n2, NEW p2, Unlinked(W, t, n, p, n2, p2)
  PROVE  Cyclic(W \ {t}, n2, p2) /\ n[t] \in W \ {t}
<1> DEFINE l == p[t]
           r == n[t]
           V == W \ {t}
<1>1. /\ l \in W /\ r \in W /\ l # t /\ r # t /\ n[l] = t /\ p[r] = t
      /\ \A x \in W : n[x] \in W /\ p[x] \in W /\ p[n[x]] = x /\ n[p[x]] = x
  BY DEF Cyclic
<1>2. /\ n2[l] = r /\ \A x \in V : x # l => n2[x] = n[x]
      /\ p2[r] = l /\ \A x \in V : x # r => p2[x] = p[x]
  BY DEF Unlinked
<1>9. n[t] = r OBVIOUS
<1> HIDE DEF l, r
<1>3. \A x \in V : n2[x] \in V /\ p2[x] \in V /\ p2[n2[x]] = x /\ n2[p2[x]] = x
  BY <1>1, <1>2, <1>9
<1>4. ASSUME NEW S \in SUBSET V, S # {}, \A x \in S : n2[x] \in S PROVE S = V
  <2>1. CASE l \in S
    <3> DEFINE R == S \cup {t}
    <3>1. R \in SUBSET W /\ R # {} OBVIOUS
    <3>2. ASSUME NEW x \in R PROVE n[x] \in R
      <4>1. CASE x = l BY <4>1, <1>1
      <4>2. CASE x = t BY <4>2, <1>2, <2>1, <1>4, <1>9
      <4>3. CASE x # l /\ x # t BY <4>3, <3>2, <1>2, <1>4
      <4> QED BY <4>1, <4>2, <4>3
    <3>3. R = W
      <4> HIDE DEF R
      <4> QED BY <3>1, <3>2 DEF Cyclic
    <3> QED BY <3>3
  <2>2. CASE l \notin S
    <3>1. \A x \in S : n[x] \in S BY <2>2, <1>2, <1>4
    <3>2. S = W BY <3>1, <1>4 DEF Cyclic
    <3> QED BY <3>2, <1>1, <2>2
  <2> QED BY <2>1, <2>2
<1>5. Cyclic(V, n2, p2)
  BY <1>3, <1>4 DEF Cyclic
<1> QED BY <1>5, <1>1, <1>9

(* From any member the ring is reached, and what was walked over does not   *)
(* matter for the rest.                                                     *)
LEMMA CyclicReaches ==
  ASSUME NEW W, NEW n, NEW p, Cyclic(W, n, p), NEW h, W # {} => h \in W
  PROVE  Reaches(W, h, n)
BY DEF Cyclic, Reaches

(* Behind the first, the second comes by the rest.                          *)
LEMMA ReachesOn ==
  ASSUME NEW W, NEW h, NEW n, Reaches(W, h, n), W # {}
  PROVE  h \in W /\ Reaches(W \ {h}, n[h], n)
<1> DEFINE V == W \ {h}
<1>1. h \in W BY DEF Reaches
<1>2. ASSUME V # {} PROVE n[h] \in V
  <2>1. SUFFICES ASSUME n[h] \notin V PROVE FALSE OBVIOUS
  <2>2. {h} \in SUBSET W /\ \A x \in {h} : n[x] \in W => n[x] \in {h} BY <1>1, <2>1
  <2>3. {h} = W BY <2>2, <1>1 DEF Reaches
  <2> QED BY <2>3, <1>2
<1>3. ASSUME NEW S \in SUBSET V, n[h] \in S, \A x \in S : n[x] \in V => n[x] \in S
      PROVE  S = V
  <2> DEFINE R == S \cup {h}
  <2>1. R \in SUBSET W /\ h \in R BY <1>1
  <2>2. \A x \in R : n[x] \in W => n[x] \in R BY <1>3
  <2>3. R = W
    <3> HIDE DEF R
    <3> QED BY <1>1, <2>1, <2>2 DEF Reaches
  <2> QED BY <2>3
<1> QED BY <1>1, <1>2, <1>3 DEF Reaches

(* Neither does a link that led back to what was walked over.               *)
LEMMA ReachesPast ==
  ASSUME NEW W, NEW h, NEW n, NEW n2, Reaches(W, h, n), W # {}, n2[h] = n[h],
         \A x \in W : n2[x] = n[x] \/ n[x] = h
  PROVE  Reaches(W \ {h}, n2[h], n2)
<1> DEFINE V == W \ {h}
<1>1. Reaches(V, n[h], n) BY ReachesOn
<1>2. h \notin V /\ \A x \in V : n2[x] = n[x] \/ n[x] = h OBVIOUS
<1> HIDE DEF V
<1>3. ASSUME V # {}
      PROVE  n[h] \in V /\ \A S \in SUBSET V :
               n[h] \in S /\ (\A x \in S : n2[x] \in V => n2[x] \in S) => S = V
  <2>1. n[h] \in V BY <1>1, <1>3 DEF Reaches
  <2>2. ASSUME NEW S \in SUBSET V, n[h] \in S, \A x \in S : n2[x] \in V => n2[x] \in S
        PROVE  S = V
    <3>1. \A x \in S : n[x] \in V => n[x] \in S BY <1>2, <2>2
    <3> QED BY <1>1, <1>3, <2>2, <3>1 DEF Reaches
  <2> QED BY <2>1, <2>2
<1>4. Reaches(V, n2[h], n2) BY <1>3 DEF Reaches
<1> QED BY <1>4 DEF V

LEMMA SameReaches ==
  ASSUME NEW W, NEW h, NEW n, NEW n2, Reaches(W, h, n), \A x \in W : n2[x] = n[x]
  PROVE  Reaches(W, h, n2)
<1> SUFFICES ASSUME W # {}
             PROVE  h \in W /\ \A S \in SUBSET W :
                      h \in S /\ (\A x \in S : n2[x] \in W => n2[x] \in S) => S = W
  BY DEF Reaches
<1>1. h \in W BY DEF Reaches
<1>2. ASSUME NEW S \in SUBSET W, h \in S, \A x \in S : n2[x] \in W => n2[x] \in S
      PROVE  S = W
  <2>1. \A x \in S : n[x] \in W => n[x] \in S BY <1>2
  <2> QED BY <1>2, <2>1 DEF Reaches
<1> QED BY <1>1, <1>2

-----------------------------------------------------------------------------
(* A count that is not zero goes down by one.                               *)
LEMMA DownIs ==
  ASSUME NEW n \in 0..ULongMax
  PROVE  Down(n) \in 0..ULongMax /\ (n # 0 => Down(n) = n - 1)
<1> DEFINE M == ULongMax + 1
<1>1. ULongMax \in Nat /\ ULongMax > 0 BY BindAssumption
<1>2. CASE n = 0
  <2>1. (0 + ULongMax) % M = ULongMax BY <1>1
  <2> QED BY <1>1, <1>2, <2>1 DEF Down
<1>3. CASE n # 0
  <2>1. n - 1 \in 0..ULongMax /\ n + ULongMax = M + (n - 1) BY <1>1, <1>3
  <2>2. (M + (n - 1)) % M = n - 1 BY <1>1, <2>1
  <2> QED BY <1>1, <2>1, <2>2 DEF Down
<1> QED BY <1>2, <1>3

LEMMA Finite == ASSUME NEW o PROVE IsFiniteSet(Waiting(o)) /\ Waiting(o) \in SUBSET Sockets
<1>1. Waiting(o) \in SUBSET Sockets BY DEF Waiting
<1> QED BY <1>1, BindAssumption, FS_Subset

(* Who waits for other sockets, and their links, do not matter.             *)
LEMMA ListKept ==
  ASSUME NEW o, ListTrue(o), Waiting(o)' = Waiting(o), list'[o] = list[o],
         count'[o] = count[o], \A w \in Waiting(o) : nxt'[w] = nxt[w] /\ prv'[w] = prv[w]
  PROVE  ListTrue(o)'
<1>1. Cyclic(Waiting(o), nxt', prv') BY SameCyclic DEF ListTrue
<1>2. Cyclic(Waiting(o)', nxt', prv') BY <1>1
<1> QED BY <1>2 DEF ListTrue

(* Nor does anything else while all wait as before.                         *)
LEMMA SameWaiters ==
  ASSUME \A s \in Sockets : Waits(s)' <=> Waits(s),
         \A s \in Sockets : Waits(s) => bound'[port'[s]] = bound[port[s]], NEW o
  PROVE  Waiting(o)' = Waiting(o)
BY DEF Waiting

(* A thread is unlinked from its ring: no other link changes.               *)
LEMMA UnlinkRing ==
  ASSUME TypeOK, NEW W \in SUBSET Sockets, Cyclic(W, nxt, prv), NEW t \in W, Unlink(t)
  PROVE  /\ Cyclic(W \ {t}, nxt', prv')
         /\ IF nxt[t] = t THEN W = {t} ELSE nxt[t] \in W \ {t}
         /\ \A x \in Sockets \ W : nxt'[x] = nxt[x] /\ prv'[x] = prv[x]
         /\ \A x \in Sockets : nxt'[x] = nxt[x] \/ nxt[x] = t
         /\ nxt'[t] = nxt[t]
         /\ nxt' \in [Sockets -> Sockets] /\ prv' \in [Sockets -> Sockets]
<1>0. nxt \in [Sockets -> Sockets] /\ prv \in [Sockets -> Sockets] /\ t \in Sockets
  BY DEF TypeOK
<1>1. CASE nxt[t] = t
  <2>1. W = {t} BY <1>1, AloneCyclic
  <2>2. UNCHANGED <<nxt, prv>> BY <1>1 DEF Unlink
  <2>3. Cyclic(W \ {t}, nxt', prv')
    <3>1. W \ {t} = {} BY <2>1
    <3> QED BY <3>1, EmptyCyclic
  <2> QED BY <1>0, <1>1, <2>1, <2>2, <2>3
<1>2. CASE nxt[t] # t
  <2>1. /\ nxt' = [nxt EXCEPT ![prv[t]] = nxt[t]] /\ prv' = [prv EXCEPT ![nxt[t]] = prv[t]]
    BY <1>2 DEF Unlink
  <2>2. prv[t] \in W /\ nxt[t] \in W /\ nxt[prv[t]] = t /\ prv[t] # t
    BY <1>2 DEF Cyclic
  <2>3. Unlinked(W, t, nxt, prv, nxt', prv') BY <1>0, <2>1, <2>2 DEF Unlinked
  <2>4. Cyclic(W \ {t}, nxt', prv') /\ nxt[t] \in W \ {t}
    BY <1>2, <2>3, RemoveCyclic
  <2> QED BY <1>0, <1>2, <2>1, <2>2, <2>4
<1> QED BY <1>1, <1>2

LEMMA InitIInv == Init => IInv
<1> SUFFICES ASSUME Init PROVE IInv
  OBVIOUS
<1> USE BindAssumption DEF Init, Waits, Bound
<1>1. TypeOK
  <2>1. inProgress \in [Sockets -> BOOLEAN] /\ armed \in [Sockets -> BOOLEAN]
    BY Zenon
  <2>2. count \in [Sockets -> 0..ULongMax] /\ left \in 0..ULongMax
    OBVIOUS
  <2>3. /\ list \in [Sockets -> Sockets \cup {None}] /\ nxt \in [Sockets -> Sockets]
        /\ prv \in [Sockets -> Sockets]
    OBVIOUS
  <2> QED BY <2>1, <2>2, <2>3 DEF TypeOK
<1>2. WaitsTrue /\ TableTrue /\ CheckConsistent
  BY DEF WaitsTrue, TableTrue, CheckConsistent
<1>3. Listed
  <2>1. \A o \in Sockets : Waiting(o) = {} BY DEF Waiting
  <2>2. Cyclic({}, nxt, prv) BY EmptyCyclic
  <2>3. Cardinality({}) = 0 BY FS_EmptySet
  <2> QED BY <2>1, <2>2, <2>3 DEF Listed, ListTrue
<1>4. Rest({}) /\ Comes({})
  BY DEF Rest, Comes
<1>5. Pending BY <1>4 DEF Pending
<1> QED BY <1>1, <1>2, <1>3, <1>5 DEF IInv, Strong

(* No check is under way: none is left to come by.                          *)
LEMMA IdlePending ==
  ASSUME ip = "idle", UNCHANGED ipVars, Pending,
         \A s \in Sockets : cleanup'[s] = "DEFERRED" => cleanup[s] = "DEFERRED"
  PROVE  Pending'
<1>1. PICK U \in SUBSET Sockets : Rest(U) /\ Comes(U) BY DEF Pending
<1>2. U = {} BY <1>1 DEF Rest
<1>3. Rest({})' BY DEF Rest, ipVars
<1>4. Comes({})' BY <1>1, <1>2 DEF Comes, ipVars
<1> QED BY <1>3, <1>4 DEF Pending

-----------------------------------------------------------------------------
(* Every step keeps the invariant, and the first stale cleanup its types.   *)
LEMMA BindFreeKeeps ==
  ASSUME TypeOK, Strong, NEW s \in Sockets, NEW p \in Ports, BindFree(s, p)
  PROVE  TypeOK' /\ Strong'
<1> USE BindAssumption DEF TypeOK, BindFree, Waits, Bound, Strong, MutexFree
<1>1. TypeOK'
  BY DEF ipVars, history
<1>2. \A w \in Sockets : Waits(w) => w # s /\ port[w] # p /\ port[w] \in Ports
  BY DEF WaitsTrue
<1>3. WaitsTrue'
  BY <1>2 DEF WaitsTrue
<1>4. TableTrue'
  BY DEF TableTrue, WaitsTrue
<1>5. Listed'
  <2> SUFFICES ASSUME NEW o \in Sockets PROVE ListTrue(o)'
    BY DEF Listed
  <2>1. Waiting(o)' = Waiting(o)
    BY <1>2, SameWaiters
  <2> QED BY <2>1, ListKept DEF Listed
<1>6. CheckConsistent'
  BY DEF CheckConsistent, ipVars
<1>7. ~ lost' => Pending'
  BY IdlePending DEF history
<1> QED BY <1>1, <1>3, <1>4, <1>5, <1>6, <1>7

LEMMA BindWaitKeeps ==
  ASSUME TypeOK, Strong, NEW s \in Sockets, NEW p \in Ports, BindWait(s, p),
         NEW o, o = bound[p]
  PROVE  TypeOK' /\ Strong'
<1> DEFINE W == Waiting(o)
<1> USE BindAssumption
<1>1. /\ o \in Sockets /\ o # s /\ Waiting(s) = {} /\ s \notin W /\ tstate[s] = "running"
      /\ ~ Bound(s) /\ ip = "idle" /\ ~ Waits(s) /\ ListTrue(o)
  BY DEF BindWait, Bound, TypeOK, MutexFree, Waits, Waiting, Strong, Listed, WaitsTrue
<1>2. IsFiniteSet(W) /\ W \in SUBSET Sockets
  BY Finite
<1>3. count[o] = Cardinality(W) /\ Cardinality(W) \in Nat /\ Cardinality(W) < MaxWaiting
  <2>1. W = {w \in Sockets : inProgress[w] /\ port[w] = p}
    BY <1>1 DEF Waiting, Strong, WaitsTrue, TableTrue
  <2>2. Cardinality(W) < MaxWaiting
    BY <2>1 DEF BindWait
  <2> QED BY <1>1, <1>2, <2>2, FS_CardinalityType DEF ListTrue
<1>4. count[o] + 1 \in 0..ULongMax
  BY <1>3
<1>5. /\ port' = [port EXCEPT ![s] = p] /\ count' = [count EXCEPT ![o] = @ + 1]
      /\ inProgress' = [inProgress EXCEPT ![s] = TRUE]
      /\ previous' = [previous EXCEPT ![s] = o] /\ LinkAt(list[o], s)
      /\ list' = [list EXCEPT ![o] = IF list[o] = None THEN s ELSE list[o]]
      /\ cleanup' = [cleanup EXCEPT ![s] = "BIND"]
      /\ armed' = [armed EXCEPT ![s] = TRUE]
      /\ tstate' = [tstate EXCEPT ![s] = "suspended"]
      /\ UNCHANGED <<bound, result, ipVars, history>>
  BY DEF BindWait, TypeOK
<1>6. Waiting(o)' = W \cup {s} /\ \A x \in Sockets : x # o => Waiting(x)' = Waiting(x)
  BY <1>1, <1>5 DEF Waiting, Waits, TypeOK
<1>7. /\ Cyclic(W \cup {s}, nxt', prv')
      /\ \A x \in Sockets : x # s /\ x \notin W => nxt'[x] = nxt[x] /\ prv'[x] = prv[x]
      /\ nxt' \in [Sockets -> Sockets] /\ prv' \in [Sockets -> Sockets]
  <2>1. nxt \in [Sockets -> Sockets] /\ prv \in [Sockets -> Sockets] BY DEF TypeOK
  <2>2. CASE list[o] = None
    <3>1. nxt' = [nxt EXCEPT ![s] = s] /\ prv' = [prv EXCEPT ![s] = s]
      BY <1>5, <2>2 DEF LinkAt
    <3>2. W = {} /\ nxt'[s] = s /\ prv'[s] = s
      BY <1>1, <1>2, <2>1, <2>2, <3>1 DEF ListTrue
    <3>3. Cyclic({s}, nxt', prv')
      <4> HIDE DEF W
      <4> QED BY <3>2, OneCyclic
    <3>4. W \cup {s} = {s} BY <3>2
    <3> QED BY <2>1, <3>1, <3>3, <3>4
  <2>3. CASE list[o] # None
    <3> DEFINE h == list[o]
    <3>1. h \in W /\ Cyclic(W, nxt, prv) BY <1>1, <2>3 DEF ListTrue
    <3>2. /\ nxt' = [nxt EXCEPT ![s] = h, ![prv[h]] = s]
          /\ prv' = [prv EXCEPT ![s] = prv[h], ![h] = s]
      BY <1>5, <2>3 DEF LinkAt
    <3>3. prv[h] \in W BY <3>1 DEF Cyclic
    <3> HIDE DEF W, h
    <3>4. Cyclic(W \cup {s}, nxt', prv')
      BY <1>1, <1>2, <2>1, <3>1, <3>2, InsertCyclic
    <3> QED BY <1>2, <2>1, <3>1, <3>2, <3>3, <3>4
  <2> QED BY <2>2, <2>3
<1>8. TypeOK'
  <2>1. inProgress' \in [Sockets -> BOOLEAN] /\ armed' \in [Sockets -> BOOLEAN]
    BY <1>5, Zenon DEF TypeOK
  <2>2. count' \in [Sockets -> 0..ULongMax]
    BY <1>4, <1>5 DEF TypeOK
  <2>3. /\ port' \in [Sockets -> Ports \cup {None}] /\ list' \in [Sockets -> Sockets \cup {None}]
        /\ previous' \in [Sockets -> Sockets \cup {None}]
    BY <1>1, <1>5 DEF TypeOK
  <2> QED BY <1>5, <1>7, <2>1, <2>2, <2>3 DEF TypeOK, ipVars, history
<1>9. WaitsTrue'
  BY <1>1, <1>5 DEF WaitsTrue, Strong, Waits, TypeOK
<1>10. TableTrue'
  BY <1>1, <1>5 DEF TableTrue, Strong, Waits, TypeOK, Bound
<1>11. Listed'
  <2> SUFFICES ASSUME NEW x \in Sockets PROVE ListTrue(x)'
    BY DEF Listed
  <2>1. CASE x = o
    <3>1. count'[o] = Cardinality(W) + 1 /\ list'[o] \in W \cup {s}
      BY <1>1, <1>3, <1>5 DEF TypeOK, ListTrue
    <3>2. Cardinality(W \cup {s}) = Cardinality(W) + 1
      <4> HIDE DEF W
      <4> QED BY <1>1, <1>2, FS_AddElement
    <3>3. ListTrue(o)'
      BY <1>6, <1>7, <3>1, <3>2 DEF ListTrue
    <3> QED BY <2>1, <3>3
  <2>2. CASE x # o
    <3>1. \A w \in Waiting(x) : w \in Sockets /\ w # s /\ w \notin W
      BY <1>1, <2>2 DEF Waiting
    <3>2. ListTrue(x) /\ list'[x] = list[x] /\ count'[x] = count[x]
      BY <1>5, <2>2 DEF Strong, Listed, TypeOK
    <3> QED BY <1>6, <1>7, <2>2, <3>1, <3>2, ListKept
  <2> QED BY <2>1, <2>2
<1>12. CheckConsistent'
  <2>1. mutexList = None
    BY <1>1 DEF CheckConsistent, Strong
  <2> QED BY <1>1, <1>5, <2>1 DEF CheckConsistent, ipVars
<1>13. ~ lost' => Pending'
  BY <1>1, <1>5, IdlePending DEF history, Strong, TypeOK
<1> QED BY <1>8, <1>9, <1>10, <1>11, <1>12, <1>13 DEF Strong

(* The cleanup of a thread on the list of the socket that holds its port.   *)
Cleaned(t, o) ==
  /\ o \in Sockets /\ bound[port[t]] = o /\ o # t /\ ~ Waits(o)
  /\ Cyclic(Waiting(o) \ {t}, nxt', prv')
  /\ \A x \in Sockets \ Waiting(o) : nxt'[x] = nxt[x] /\ prv'[x] = prv[x]
  /\ \A x \in Sockets : nxt'[x] = nxt[x] \/ nxt[x] = t
  /\ nxt'[t] = nxt[t]
  /\ IF Waiting(o) = {t} THEN list'[o] = None ELSE list'[o] \in Waiting(o) \ {t}
  /\ \A x \in Sockets : x # o => list'[x] = list[x]
  /\ count[o] # 0 /\ count' = [count EXCEPT ![o] = count[o] - 1]
  /\ inProgress' = [inProgress EXCEPT ![t] = FALSE]
  /\ cleanup' = [cleanup EXCEPT ![t] = "NULL"]
  /\ armed' = [armed EXCEPT ![t] = FALSE]
  /\ tstate' = [tstate EXCEPT ![t] = "running"]
  /\ result' = [result EXCEPT ![t] = "PORT_UNAVAILABLE"]
  /\ UNCHANGED <<bound, port, previous>>
LEMMA CleanupTrue ==
  ASSUME TypeOK, Strong, NEW t \in Sockets, Waits(t), BindCleanup(t), ~ stale',
         NEW o, o = bound[port[t]]
  PROVE  Cleaned(t, o)
<1> USE BindAssumption
<1>1. o \in Sockets /\ previous[t] = o /\ port[t] \in Ports /\ t \in Waiting(o)
  BY DEF BindCleanup, Strong, WaitsTrue, Waiting
<1>2. o # t /\ ~ Waits(o) /\ ListTrue(o)
  BY <1>1 DEF Strong, TableTrue, Listed
<1>3. Unlink(t) /\ Cyclic(Waiting(o), nxt, prv) /\ Waiting(o) \in SUBSET Sockets
  BY <1>2, Finite DEF BindCleanup, ListTrue
<1>4. /\ Cyclic(Waiting(o) \ {t}, nxt', prv')
      /\ IF nxt[t] = t THEN Waiting(o) = {t} ELSE nxt[t] \in Waiting(o) \ {t}
      /\ \A x \in Sockets \ Waiting(o) : nxt'[x] = nxt[x] /\ prv'[x] = prv[x]
      /\ \A x \in Sockets : nxt'[x] = nxt[x] \/ nxt[x] = t
      /\ nxt'[t] = nxt[t]
  BY <1>1, <1>3, UnlinkRing
<1>5. list' = [list EXCEPT ![o] = HeadWithout(t)]
  BY <1>1 DEF BindCleanup
<1>6. IF Waiting(o) = {t} THEN list'[o] = None ELSE list'[o] \in Waiting(o) \ {t}
  BY <1>1, <1>3, <1>4, <1>5 DEF HeadWithout, TypeOK, Cyclic
<1>7. count[o] # 0
  BY <1>1, <1>2, Finite, FS_EmptySet DEF ListTrue
<1>8. count' = [count EXCEPT ![o] = count[o] - 1]
  BY <1>1, <1>7, DownIs DEF BindCleanup, TypeOK
<1> QED BY <1>1, <1>2, <1>4, <1>5, <1>6, <1>7, <1>8 DEF BindCleanup, Resume, tableVars, Cleaned, TypeOK

(* It keeps the lists true; and whatever list it is, the types.             *)
LEMMA CleanedKeeps ==
  ASSUME TypeOK, Strong, NEW t \in Sockets, Waits(t), NEW o, Cleaned(t, o)
  PROVE  WaitsTrue' /\ TableTrue' /\ Listed'
<1> USE BindAssumption
<1>1. WaitsTrue'
  BY DEF Cleaned, WaitsTrue, Strong, Waits, TypeOK
<1>2. TableTrue'
  BY DEF Cleaned, TableTrue, Strong, Waits, TypeOK, Bound
<1>3. \A x \in Sockets : Waiting(x)' = Waiting(x) \ {t}
  BY DEF Waiting, Waits, Cleaned, TypeOK
<1>4. t \in Waiting(o) /\ ListTrue(o) /\ o \in Sockets
  BY DEF Cleaned, Waiting, Strong, Listed
<1>5. ListTrue(o)'
  <2>1. Cardinality(Waiting(o) \ {t}) = Cardinality(Waiting(o)) - 1
    BY <1>4, Finite, FS_RemoveElement
  <2>2. count'[o] = Cardinality(Waiting(o) \ {t})
    BY <1>4, <2>1 DEF Cleaned, ListTrue, TypeOK
  <2> QED BY <1>3, <1>4, <2>2 DEF Cleaned, ListTrue
<1>6. ASSUME NEW x \in Sockets, x # o PROVE ListTrue(x)'
  <2>1. \A w \in Waiting(x) : w \in Sockets /\ w \notin Waiting(o)
    BY <1>6 DEF Waiting
  <2>2. Waiting(x)' = Waiting(x)
    BY <1>3, <1>4, <2>1
  <2>3. ListTrue(x) /\ list'[x] = list[x] /\ count'[x] = count[x]
    BY <1>4, <1>6 DEF Strong, Listed, Cleaned, TypeOK
  <2> QED BY <2>1, <2>2, <2>3, ListKept DEF Cleaned
<1> QED BY <1>1, <1>2, <1>5, <1>6 DEF Listed

CleanupTypes ==
  /\ bound \in [Ports -> Sockets \cup {None}] /\ port \in [Sockets -> Ports \cup {None}]
  /\ inProgress \in [Sockets -> BOOLEAN]
  /\ previous \in [Sockets -> Sockets \cup {None}]
  /\ list \in [Sockets -> Sockets \cup {None}] /\ count \in [Sockets -> 0..ULongMax]
  /\ nxt \in [Sockets -> Sockets] /\ prv \in [Sockets -> Sockets]
  /\ cleanup \in [Sockets -> {"NULL", "BIND", "DEFERRED", "MUTEX"}]
  /\ armed \in [Sockets -> BOOLEAN]
  /\ tstate \in [Sockets -> {"running", "suspended", "mutex"}]
  /\ result \in [Sockets -> {"NONE", "SUCCESS", "PORT_UNAVAILABLE"}] /\ stale \in BOOLEAN
LEMMA CleanupTyped ==
  ASSUME TypeOK, NEW t \in Sockets, BindCleanup(t)
  PROVE  CleanupTypes'
<1> USE BindAssumption DEF TypeOK, BindCleanup
<1>1. inProgress' \in [Sockets -> BOOLEAN] /\ armed' \in [Sockets -> BOOLEAN]
  BY Zenon DEF Resume
<1>2. nxt' \in [Sockets -> Sockets] /\ prv' \in [Sockets -> Sockets]
  BY DEF Unlink
<1>3. list' \in [Sockets -> Sockets \cup {None}]
  BY DEF HeadWithout
<1>4. count' \in [Sockets -> 0..ULongMax]
  BY DownIs
<1>5. stale' \in BOOLEAN
  OBVIOUS
<1>6. /\ cleanup' \in [Sockets -> {"NULL", "BIND", "DEFERRED", "MUTEX"}]
      /\ tstate' \in [Sockets -> {"running", "suspended", "mutex"}]
      /\ result' \in [Sockets -> {"NONE", "SUCCESS", "PORT_UNAVAILABLE"}]
  BY DEF Resume
<1> QED BY <1>1, <1>2, <1>3, <1>4, <1>5, <1>6 DEF CleanupTypes, tableVars

LEMMA UnbindFreeKeeps ==
  ASSUME TypeOK, Strong, NEW s \in Sockets, UnbindFree(s)
  PROVE  TypeOK' /\ Strong'
<1> USE BindAssumption
<1>1. PICK p \in Ports : bound[p] = s /\ bound' = [bound EXCEPT ![p] = None]
  BY DEF UnbindFree
<1>2. ListTrue(s) /\ Waiting(s) = {}
  BY Finite DEF UnbindFree, Strong, Listed, ListTrue
<1>3. \A w \in Sockets : Waits(w) => port[w] # p
  BY <1>1, <1>2 DEF Waiting
<1>4. ip = "idle" /\ result' = [result EXCEPT ![s] = "NONE"]
      /\ UNCHANGED <<port, sockVars, nxt, prv, cleanup, armed, tstate, ipVars, history>>
  BY DEF UnbindFree, MutexFree
<1> USE DEF sockVars, history
<1>5. TypeOK'
  BY <1>1, <1>4 DEF TypeOK, ipVars
<1>6. WaitsTrue'
  BY <1>1, <1>3, <1>4 DEF WaitsTrue, Strong, Waits, TypeOK
<1>7. TableTrue'
  BY <1>1, <1>4 DEF TableTrue, Strong, Waits, TypeOK, Bound
<1>8. Listed'
  <2> SUFFICES ASSUME NEW o \in Sockets PROVE ListTrue(o)'
    BY DEF Listed
  <2>1. Waiting(o)' = Waiting(o)
    BY <1>1, <1>3, <1>4, SameWaiters DEF Waits, WaitsTrue, Strong, TypeOK
  <2> QED BY <1>4, <2>1, ListKept DEF Listed, Strong
<1>9. CheckConsistent'
  BY <1>4 DEF CheckConsistent, Strong, ipVars
<1>10. ~ lost' => Pending'
  BY <1>4, IdlePending DEF Strong
<1> QED BY <1>5, <1>6, <1>7, <1>8, <1>9, <1>10 DEF Strong

LEMMA UnbindHandOverKeeps ==
  ASSUME TypeOK, Strong, NEW s \in Sockets, UnbindHandOver(s), NEW new, new = list[s]
  PROVE  TypeOK' /\ Strong'
<1> USE BindAssumption
<1> DEFINE W == Waiting(s)
<1>1. PICK p \in Ports : bound[p] = s /\ bound' = [bound EXCEPT ![p] = new]
  BY DEF UnbindHandOver
<1>2. new \in W /\ W \in SUBSET Sockets /\ ListTrue(s) /\ Waits(new) /\ port[new] = p
      /\ new # s /\ ~ Waits(s) /\ ~ Bound(new) /\ Waiting(new) = {} /\ ListTrue(new)
  <2>1. ListTrue(s) /\ new \in W /\ W \in SUBSET Sockets
    BY Finite DEF Strong, Listed, ListTrue, UnbindHandOver
  <2>2. Waits(new) /\ bound[port[new]] = s /\ port[new] \in Ports
    BY <2>1 DEF Waiting, Strong, WaitsTrue
  <2>3. ~ Waits(s) /\ port[new] = p
    BY <1>1, <2>2 DEF Strong, TableTrue
  <2>4. ~ Bound(new) /\ ListTrue(new)
    BY <2>1, <2>2 DEF Strong, TableTrue, Bound, Listed
  <2>5. Waiting(new) = {}
    BY <2>4 DEF Waiting, Bound, Strong, WaitsTrue
  <2> QED BY <2>1, <2>2, <2>3, <2>4, <2>5
<1>3. /\ Cyclic(W \ {new}, nxt', prv')
      /\ IF nxt[new] = new THEN W = {new} ELSE nxt[new] \in W \ {new}
      /\ \A x \in Sockets \ W : nxt'[x] = nxt[x] /\ prv'[x] = prv[x]
      /\ nxt' \in [Sockets -> Sockets] /\ prv' \in [Sockets -> Sockets]
  BY <1>2, UnlinkRing DEF UnbindHandOver, ListTrue
<1>4. /\ inProgress' = [inProgress EXCEPT ![new] = FALSE]
      /\ list' = [list EXCEPT ![s] = None, ![new] = HeadWithout(new)]
      /\ count' = [count EXCEPT ![s] = 0, ![new] = Down(count[s])]
      /\ previous' = [previous EXCEPT ![new] = None]
      /\ cleanup' = [cleanup EXCEPT ![new] = "NULL"]
      /\ armed' = [armed EXCEPT ![new] = FALSE]
      /\ tstate' = [tstate EXCEPT ![new] = "running"]
      /\ result' = [result EXCEPT ![s] = "NONE", ![new] = "SUCCESS"]
      /\ UNCHANGED <<port, ipVars, history>> /\ ip = "idle"
  BY DEF UnbindHandOver, MutexFree
<1>5. count[s] # 0 /\ Down(count[s]) = count[s] - 1 /\ Down(count[s]) \in 0..ULongMax
      /\ count[s] - 1 = Cardinality(W \ {new})
  <2>1. count[s] = Cardinality(W) /\ IsFiniteSet(W)
    BY <1>2, Finite DEF ListTrue
  <2>2. count[s] # 0 /\ count[s] \in 0..ULongMax
    BY <1>2, <2>1, FS_EmptySet DEF TypeOK
  <2>3. Cardinality(W \ {new}) = Cardinality(W) - 1
    <3> HIDE DEF W
    <3> QED BY <1>2, <2>1, FS_RemoveElement
  <2> QED BY <2>1, <2>2, <2>3, DownIs
<1>6. Waiting(new)' = W \ {new} /\ Waiting(s)' = {}
      /\ \A x \in Sockets : x # s /\ x # new => Waiting(x)' = Waiting(x)
  <2>1. \A w \in Sockets : Waits(w)' <=> Waits(w) /\ w # new
    BY <1>2, <1>4 DEF Waits, TypeOK
  <2>2. \A w \in Sockets : Waits(w) =>
          bound'[port'[w]] = IF bound[port[w]] = s THEN new ELSE bound[port[w]]
    BY <1>1, <1>4 DEF Strong, WaitsTrue, TableTrue, TypeOK
  <2>3. \A w \in Sockets : Waits(w) => bound[port[w]] # new
    BY <1>2 DEF Strong, WaitsTrue, Bound
  <2> QED BY <1>2, <2>1, <2>2, <2>3 DEF Waiting
<1>7. TypeOK'
  <2>1. inProgress' \in [Sockets -> BOOLEAN] /\ armed' \in [Sockets -> BOOLEAN]
    BY <1>4, Zenon DEF TypeOK
  <2>2. /\ list' \in [Sockets -> Sockets \cup {None}] /\ count' \in [Sockets -> 0..ULongMax]
    BY <1>2, <1>4, <1>5 DEF TypeOK, HeadWithout
  <2>3. /\ bound' \in [Ports -> Sockets \cup {None}]
        /\ previous' \in [Sockets -> Sockets \cup {None}]
    BY <1>1, <1>2, <1>4 DEF TypeOK
  <2> QED BY <1>3, <1>4, <2>1, <2>2, <2>3 DEF TypeOK, ipVars, history
<1>8. WaitsTrue'
  BY <1>1, <1>2, <1>4 DEF WaitsTrue, Strong, Waits, TypeOK
<1>9. TableTrue'
  BY <1>1, <1>2, <1>4 DEF TableTrue, Strong, Waits, TypeOK, Bound
<1>10. Listed'
  <2> SUFFICES ASSUME NEW x \in Sockets PROVE ListTrue(x)'
    BY DEF Listed
  <2>1. CASE x = s
    <3>1. list'[x] = None /\ count'[x] = 0 /\ Waiting(x)' = {}
      BY <1>2, <1>4, <1>6, <2>1 DEF TypeOK
    <3>2. Cyclic({}, nxt', prv') /\ Cardinality({}) = 0
      BY EmptyCyclic, FS_EmptySet
    <3> QED BY <3>1, <3>2 DEF ListTrue
  <2>2. CASE x = new
    <3>1. /\ list'[x] = HeadWithout(new) /\ count'[x] = Cardinality(W \ {new})
          /\ Waiting(x)' = W \ {new}
      BY <1>2, <1>4, <1>5, <1>6, <2>2 DEF TypeOK
    <3>2. IF W \ {new} = {} THEN list'[x] = None ELSE list'[x] \in W \ {new}
      BY <1>2, <1>3, <3>1 DEF HeadWithout
    <3> QED BY <1>3, <3>1, <3>2 DEF ListTrue
  <2>3. CASE x # s /\ x # new
    <3>1. \A w \in Waiting(x) : w \in Sockets /\ w \notin W
      BY <2>3 DEF Waiting
    <3>2. ListTrue(x) /\ list'[x] = list[x] /\ count'[x] = count[x]
      BY <1>4, <2>3 DEF Strong, Listed, TypeOK
    <3> QED BY <1>3, <1>6, <2>3, <3>1, <3>2, ListKept
  <2> QED BY <2>1, <2>2, <2>3
<1>11. CheckConsistent'
  BY <1>4 DEF CheckConsistent, Strong, ipVars
<1>12. ~ lost' => Pending'
  BY <1>4, IdlePending DEF Strong, history, TypeOK
<1> QED BY <1>7, <1>8, <1>9, <1>10, <1>11, <1>12 DEF Strong

LEMMA UnbindWaitingKeeps ==
  ASSUME TypeOK, Strong, NEW s \in Sockets, UnbindWaiting(s)
  PROVE  TypeOK' /\ (~ stale' => Strong')
<1>1. Waits(s) /\ BindCleanup(s) /\ UNCHANGED <<ipVars, lost>> /\ ip = "idle"
  BY DEF UnbindWaiting, MutexFree, Strong, WaitsTrue
<1>2. TypeOK'
  BY <1>1, CleanupTyped DEF TypeOK, CleanupTypes, ipVars
<1>3. ASSUME ~ stale', NEW o, o = bound[port[s]] PROVE Strong'
  <2>1. Cleaned(s, o) BY <1>1, <1>3, CleanupTrue
  <2>2. WaitsTrue' /\ TableTrue' /\ Listed' BY <1>1, <2>1, CleanedKeeps
  <2>3. CheckConsistent' BY <1>1 DEF CheckConsistent, Strong, ipVars
  <2>4. ~ lost' => Pending'
    BY <1>1, <2>1, IdlePending DEF Strong, Cleaned, TypeOK
  <2> QED BY <2>2, <2>3, <2>4 DEF Strong
<1> QED BY <1>2, <1>3

(* The lists and the table stay as they are: so does what is said of them.  *)
SameLists ==
  /\ UNCHANGED <<bound, port, inProgress, previous, list, count, result>>
  /\ \A s \in Sockets :
       /\ Waits(s)' <=> Waits(s)
       /\ Waits(s) => nxt'[s] = nxt[s] /\ prv'[s] = prv[s]
       /\ cleanup'[s] \in {"BIND", "DEFERRED"} <=> Waits(s)
LEMMA SameListsKeep ==
  ASSUME TypeOK, Strong, SameLists
  PROVE  WaitsTrue' /\ TableTrue' /\ Listed'
<1>1. WaitsTrue'
  BY DEF SameLists, Strong, WaitsTrue, Waits
<1>2. TableTrue'
  BY BindAssumption DEF SameLists, Strong, TableTrue, Bound, TypeOK, Waits
<1>3. ASSUME NEW o \in Sockets PROVE ListTrue(o)'
  <2>1. Waiting(o)' = Waiting(o)
    BY SameWaiters DEF SameLists
  <2>2. \A w \in Waiting(o) : nxt'[w] = nxt[w] /\ prv'[w] = prv[w]
    BY DEF SameLists, Waiting
  <2>3. ListTrue(o) /\ list'[o] = list[o] /\ count'[o] = count[o]
    BY DEF SameLists, Strong, Listed
  <2> QED BY <2>1, <2>2, <2>3, ListKept
<1> QED BY <1>1, <1>2, <1>3 DEF Listed

LEMMA TimerExpireKeeps ==
  ASSUME TypeOK, Strong, NEW s \in Sockets, TimerExpire(s)
  PROVE  TypeOK' /\ Strong'
<1> USE BindAssumption
<1>1. TypeOK'
  <2>1. armed' \in [Sockets -> BOOLEAN] /\ event' \in BOOLEAN
    BY Zenon DEF TimerExpire, TypeOK
  <2> QED BY <2>1 DEF TimerExpire, TypeOK, tableVars, sockVars, history
<1>2. SameLists
  BY DEF TimerExpire, SameLists, Waits, Strong, WaitsTrue, TypeOK, tableVars, sockVars
<1>3. CheckConsistent'
  BY DEF TimerExpire, CheckConsistent, Strong
<1>4. ASSUME ~ lost' PROVE Pending'
  <2>1. PICK U \in SUBSET Sockets : Rest(U)
    BY <1>4 DEF TimerExpire, Strong, Pending, history
  <2>2. Rest(U)' BY <2>1 DEF TimerExpire, Rest, Waits
  <2>3. Comes(U)' BY DEF TimerExpire, Comes
  <2> QED BY <2>2, <2>3 DEF Pending
<1> QED BY <1>1, <1>2, <1>3, <1>4, SameListsKeep DEF Strong

LEMMA MutexWaitKeeps ==
  ASSUME TypeOK, Strong, NEW t \in Sockets, MutexWait(t)
  PROVE  TypeOK' /\ Strong'
<1> USE BindAssumption
<1> DEFINE h == mutexList
<1>1. h # None => h \in Sockets /\ tstate[h] = "mutex" /\ prv[h] \in Sockets /\ tstate[prv[h]] = "mutex"
  BY DEF CheckConsistent, Strong, TypeOK
<1>2. \A x \in Sockets : x # t /\ tstate[x] # "mutex" => nxt'[x] = nxt[x] /\ prv'[x] = prv[x]
  BY <1>1 DEF LinkAt, MutexWait, TypeOK
<1>3. nxt' \in [Sockets -> Sockets] /\ prv' \in [Sockets -> Sockets]
  BY SMTT(20), <1>1 DEF LinkAt, MutexWait, TypeOK
<1>4. /\ tstate' = [tstate EXCEPT ![t] = "mutex"] /\ tstate[t] = "running"
      /\ cleanup' = [cleanup EXCEPT ![t] = "MUTEX"] /\ ip # "idle"
      /\ mutexList' = IF h = None THEN t ELSE h
      /\ UNCHANGED <<tableVars, sockVars, armed, result, event, ip, todo, walk, left, history>>
  BY DEF MutexWait
<1>5. TypeOK'
  BY <1>1, <1>3, <1>4 DEF TypeOK, tableVars, sockVars, history
<1>6. SameLists
  BY <1>2, <1>4 DEF SameLists, Waits, Strong, WaitsTrue, TypeOK, tableVars, sockVars
<1>7. CheckConsistent'
  BY <1>1, <1>4 DEF CheckConsistent, Strong, LinkAt, MutexWait, TypeOK
<1>8. ASSUME ~ lost' PROVE Pending'
  <2>1. PICK U \in SUBSET Sockets : Rest(U) /\ Comes(U)
    BY <1>4, <1>8 DEF Strong, Pending, history
  <2>2. \A x \in U : x \in Sockets /\ Waits(x)' /\ nxt'[x] = nxt[x]
    BY <2>1, <1>2, <1>4 DEF Rest, Waits, TypeOK
  <2>3. ip = "walk" => Reaches(U, walk, nxt')
    BY <2>1, <2>2, SameReaches DEF Rest
  <2>4. ip = "next" /\ tstate'[walk] # "mutex" => Reaches(U, nxt'[walk], nxt')
    <3> SUFFICES ASSUME ip = "next", tstate'[walk] # "mutex" PROVE Reaches(U, nxt'[walk], nxt')
      OBVIOUS
    <3>1. walk \in Sockets /\ walk # t /\ tstate[walk] # "mutex" /\ nxt'[walk] = nxt[walk]
      BY <1>2, <1>4 DEF Strong, CheckConsistent, TypeOK
    <3>2. Reaches(U, nxt[walk], nxt) BY <2>1, <3>1 DEF Rest
    <3> QED BY <2>2, <3>1, <3>2, SameReaches
  <2>5. Rest(U)' BY <1>4, <2>1, <2>2, <2>3, <2>4 DEF Rest
  <2>6. Comes(U)' BY <1>4, <2>1 DEF Comes, TypeOK, tableVars
  <2> QED BY <2>5, <2>6 DEF Pending
<1> QED BY <1>5, <1>6, <1>7, <1>8, SameListsKeep DEF Strong

(* The thread the check looks at is cleaned up or not: the rest of the list *)
(* is still ahead.                                                          *)
LEMMA CheckThreadKeeps ==
  ASSUME TypeOK, Strong, CheckThread
  PROVE  TypeOK' /\ (~ stale' => Strong')
<1> USE BindAssumption
<1>1. walk \in Sockets /\ left # 0 /\ ip = "walk" /\ ip' = "next"
      /\ UNCHANGED <<event, todo, walk, left, mutexList, lost>>
  BY DEF CheckThread, Strong, CheckConsistent
<1>2. ASSUME ~ lost', \A x \in Sockets : nxt'[x] = nxt[x] \/ nxt[x] = walk,
             nxt'[walk] = nxt[walk], \A x \in Sockets : Waits(x) /\ x # walk => Waits(x)',
             \A x \in Sockets : cleanup'[x] = "DEFERRED" =>
               cleanup[x] = "DEFERRED" /\ x # walk,
             UNCHANGED <<bound, port>>
      PROVE  Pending'
  <2>1. PICK U \in SUBSET Sockets : Rest(U) /\ Comes(U)
    BY <1>1, <1>2 DEF Strong, Pending
  <2>2. IsFiniteSet(U) /\ Reaches(U, walk, nxt) /\ Cardinality(U) = left /\ \A w \in U : Waits(w)
    BY <1>1, <2>1, FS_Subset DEF Rest
  <2>3. U # {} /\ walk \in U
    BY <1>1, <2>2, FS_EmptySet DEF Reaches
  <2>4. Reaches(U \ {walk}, nxt'[walk], nxt')
    BY <1>2, <2>1, <2>2, <2>3, ReachesPast
  <2>5. Cardinality(U \ {walk}) = left - 1
    BY <2>2, <2>3, FS_RemoveElement
  <2>6. ASSUME NEW V, V = U \ {walk} PROVE Pending'
    <3>1. V \in SUBSET Sockets /\ \A w \in V : Waits(w)'
      BY <1>2, <2>1, <2>2, <2>6
    <3>2. Comes(V)'
      BY <1>1, <1>2, <2>1, <2>6 DEF Comes
    <3>3. Rest(V)' BY <1>1, <2>4, <2>5, <2>6, <3>1 DEF Rest
    <3> QED BY <3>1, <3>2, <3>3 DEF Pending
  <2> QED BY <2>6
<1>3. CASE cleanup[walk] = "DEFERRED"
  <2>1. BindCleanup(walk) /\ Waits(walk)
    BY <1>1, <1>3 DEF CheckThread, Strong, WaitsTrue
  <2>2. TypeOK'
    BY <1>1, <2>1, CleanupTyped DEF TypeOK, CleanupTypes
  <2>3. ASSUME ~ stale', NEW o, o = bound[port[walk]], NEW t, t = walk PROVE Strong'
    <3>1. Cleaned(t, o) BY <1>1, <2>1, <2>3, CleanupTrue
    <3>2. WaitsTrue' /\ TableTrue' /\ Listed' BY <1>1, <2>1, <2>3, <3>1, CleanedKeeps
    <3>3. tstate' = [tstate EXCEPT ![t] = "running"] /\ tstate[t] = "suspended"
      BY <2>1, <2>3, <3>1 DEF Cleaned, Waits
    <3>4. prv[mutexList] # t /\ mutexList # None => prv'[mutexList] = prv[mutexList]
      BY <1>1, <2>3, <3>1, <3>3 DEF Cleaned, CheckConsistent, Strong, TypeOK, Waiting, Waits
    <3>5. CheckConsistent'
      BY <1>1, <2>3, <3>3, <3>4 DEF CheckConsistent, Strong, TypeOK
    <3>6. ~ lost' => Pending'
      BY <1>2, <2>3, <3>1 DEF Cleaned, Waits, TypeOK
    <3> QED BY <3>2, <3>5, <3>6 DEF Strong
  <2> QED BY <2>2, <2>3
<1>4. CASE cleanup[walk] # "DEFERRED"
  <2>1. UNCHANGED <<tableVars, sockVars, threadVars, stale>>
    BY <1>4 DEF CheckThread
  <2> USE DEF tableVars, sockVars, threadVars
  <2>2. TypeOK' BY <1>1, <2>1 DEF TypeOK
  <2>3. SameLists
    BY <2>1 DEF SameLists, Waits, Strong, WaitsTrue
  <2>4. CheckConsistent' BY <1>1, <2>1 DEF CheckConsistent, Strong
  <2>5. ~ lost' => Pending'
    BY <1>2, <1>4, <2>1 DEF Waits
  <2> QED BY <2>2, <2>3, <2>4, <2>5, SameListsKeep DEF Strong
<1> QED BY <1>3, <1>4

(* The IP thread's own steps: the lists stay as they are.                   *)
LEMMA CheckStartKeeps ==
  ASSUME TypeOK, Strong, CheckStart
  PROVE  TypeOK' /\ Strong'
<1> USE BindAssumption DEF CheckStart, tableVars, sockVars, threadVars
<1>1. TypeOK' BY DEF TypeOK
<1>2. SameLists BY DEF SameLists, Waits, Strong, WaitsTrue
<1>3. CheckConsistent' BY DEF CheckConsistent, Strong
<1>4. Rest({})' BY DEF Rest
<1>5. Comes({})'
  BY DEF Comes, Strong, WaitsTrue
<1>6. Pending' BY <1>4, <1>5 DEF Pending
<1> QED BY <1>1, <1>2, <1>3, <1>6, SameListsKeep DEF Strong

LEMMA CheckEndKeeps ==
  ASSUME TypeOK, Strong, CheckEnd
  PROVE  TypeOK' /\ Strong'
<1> USE BindAssumption DEF CheckEnd, tableVars, sockVars
<1>1. TypeOK' BY DEF TypeOK, history
<1>2. SameLists BY DEF SameLists, Waits, Strong, WaitsTrue, TypeOK
<1>3. CheckConsistent' BY DEF CheckConsistent, Strong
<1>4. ASSUME ~ lost' PROVE Pending'
  <2>1. PICK U \in SUBSET Sockets : Rest(U) /\ Comes(U)
    BY <1>4 DEF Strong, Pending, history
  <2>2. U = {} BY <2>1 DEF Rest
  <2>3. Rest({})' BY DEF Rest
  <2>4. Comes({})' BY <2>1, <2>2 DEF Comes, TypeOK
  <2> QED BY <2>3, <2>4 DEF Pending
<1> QED BY <1>1, <1>2, <1>3, <1>4, SameListsKeep DEF Strong

LEMMA CheckSocketKeeps ==
  ASSUME TypeOK, Strong, NEW s \in Sockets, CheckSocket(s)
  PROVE  TypeOK' /\ Strong'
<1> USE BindAssumption DEF CheckSocket, tableVars, sockVars, threadVars
<1>1. ListTrue(s) /\ IsFiniteSet(Waiting(s)) /\ Waiting(s) \in SUBSET Sockets
  BY Finite DEF Strong, Listed
<1>2. count[s] = 0 <=> Waiting(s) = {}
  BY <1>1, FS_EmptySet DEF ListTrue
<1>3. ip' = (IF count[s] = 0 THEN "check" ELSE "walk") /\ (count[s] # 0 => walk' \in Waiting(s))
  BY <1>1, <1>2 DEF ListTrue, TypeOK
<1>4. TypeOK'
  BY <1>3 DEF TypeOK, history
<1>5. SameLists BY DEF SameLists, Waits, Strong, WaitsTrue
<1>6. CheckConsistent' BY <1>1, <1>3 DEF CheckConsistent, Strong
<1>7. ASSUME ~ lost' PROVE Pending'
  <2>1. PICK U \in SUBSET Sockets : Rest(U) /\ Comes(U)
    BY <1>7 DEF Strong, Pending, history
  <2>2. U = {} BY <2>1 DEF Rest
  <2>3. ASSUME NEW V, V = Waiting(s) PROVE Pending'
    <3>1. Comes(V)'
      <4> SUFFICES ASSUME NEW x \in Sockets, cleanup[x] = "DEFERRED", ~ event,
                          bound[port[x]] \notin todo \ {s}
                   PROVE  x \in V
        BY <1>3 DEF Comes
      <4>1. bound[port[x]] \in todo /\ Waits(x) BY <2>1, <2>2 DEF Comes, Strong, WaitsTrue
      <4>2. bound[port[x]] = s BY <4>1
      <4> QED BY <2>3, <4>1, <4>2 DEF Waiting
    <3>2. \A w \in V : Waits(w)' BY <2>3 DEF Waiting, Waits
    <3>3. V # {} => Reaches(V, walk', nxt')
      BY <1>1, <1>2, <1>3, <2>3, CyclicReaches DEF ListTrue
    <3>4. Cardinality(V) = left' BY <1>1, <2>3 DEF ListTrue
    <3>5. V \in SUBSET Sockets /\ (ip' = "walk" <=> V # {}) /\ ip' \in {"check", "walk"}
      BY <1>1, <1>2, <1>3, <2>3
    <3>6. Rest(V)' BY <3>2, <3>3, <3>4, <3>5 DEF Rest
    <3> QED BY <3>1, <3>5, <3>6 DEF Pending
  <2> QED BY <2>3
<1> QED BY <1>4, <1>5, <1>6, <1>7, SameListsKeep DEF Strong

LEMMA CheckNextKeeps ==
  ASSUME TypeOK, Strong, CheckNext
  PROVE  TypeOK' /\ Strong'
<1> USE BindAssumption DEF CheckNext, tableVars, sockVars, threadVars
<1>1. walk \in Sockets /\ left # 0 /\ walk' \in Sockets /\ left' = left - 1 /\ left' \in 0..ULongMax
      /\ (left = 1 <=> left' = 0)
  BY DEF Strong, CheckConsistent, TypeOK
<1>2. TypeOK' BY <1>1 DEF TypeOK
<1>3. SameLists BY DEF SameLists, Waits, Strong, WaitsTrue
<1>4. CheckConsistent' BY <1>1 DEF CheckConsistent, Strong
<1>5. ASSUME ~ lost' PROVE Pending'
  <2>1. PICK U \in SUBSET Sockets : Rest(U) /\ Comes(U)
    BY <1>5 DEF Strong, Pending, TypeOK
  <2>2. IsFiniteSet(U) /\ Cardinality(U) = left' BY <1>1, <2>1, FS_Subset DEF Rest
  <2>3. left = 1 => U = {} BY <1>1, <2>2, FS_EmptySet
  <2>4. left # 1 => Reaches(U, walk', nxt')
    <3> SUFFICES ASSUME left # 1 PROVE Reaches(U, nxt[walk], nxt)
      OBVIOUS
    <3>1. left > 1 BY <1>1 DEF TypeOK
    <3>2. tstate[walk] # "mutex" BY <1>5, <3>1
    <3> QED BY <2>1, <3>2 DEF Rest
  <2>5. Rest(U)' BY <1>1, <2>1, <2>2, <2>3, <2>4 DEF Rest, Waits
  <2>6. Comes(U)' BY <2>1 DEF Comes
  <2> QED BY <2>5, <2>6 DEF Pending
<1> QED BY <1>2, <1>3, <1>4, <1>5, SameListsKeep DEF Strong

LEMMA StepKeeps == IInv /\ [Next]_vars => IInv'
<1> SUFFICES ASSUME IInv, [Next]_vars PROVE IInv'
  OBVIOUS
<1>1. ASSUME NEW s \in Sockets, Thread(s) PROVE IInv'
  <2>1. TypeOK /\ Strong BY <1>1 DEF Thread, IInv
  <2>2. ASSUME NEW p \in Ports, BindFree(s, p) \/ BindWait(s, p) PROVE IInv'
    BY <2>1, <2>2, BindFreeKeeps, BindWaitKeeps DEF IInv
  <2>3. ASSUME UnbindFree(s) \/ UnbindHandOver(s) \/ UnbindWaiting(s) PROVE IInv'
    BY <2>1, <2>3, UnbindFreeKeeps, UnbindHandOverKeeps, UnbindWaitingKeeps DEF IInv
  <2>4. ASSUME TimerExpire(s) \/ MutexWait(s) PROVE IInv'
    BY <2>1, <2>4, TimerExpireKeeps, MutexWaitKeeps DEF IInv
  <2> QED BY <1>1, <2>2, <2>3, <2>4 DEF Thread
<1>2. CASE IpThread
  <2>1. TypeOK /\ Strong BY <1>2 DEF IpThread, IInv
  <2> QED BY <1>2, <2>1, CheckStartKeeps, CheckThreadKeeps, CheckNextKeeps, CheckEndKeeps,
             CheckSocketKeeps DEF IpThread, IInv
<1>3. CASE UNCHANGED vars
  <2> USE <1>3 DEF vars, tableVars, sockVars, threadVars, ipVars, history
  <2>1. TypeOK' BY DEF IInv, TypeOK
  <2>2. ASSUME Strong PROVE Strong'
    <3>1. SameLists BY <2>2 DEF SameLists, Waits, Strong, WaitsTrue
    <3>2. CheckConsistent' BY <2>2 DEF CheckConsistent, Strong
    <3>3. \A U : (Rest(U)' <=> Rest(U)) /\ (Comes(U)' <=> Comes(U))
      BY DEF Rest, Comes, Waits
    <3>4. ~ lost' => Pending' BY <2>2, <3>3 DEF Strong, Pending
    <3> QED BY <2>2, <3>1, <3>2, <3>4, SameListsKeep DEF Strong, IInv
  <2> QED BY <2>1, <2>2 DEF IInv
<1> QED BY <1>1, <1>2, <1>3 DEF Next, Ended

(* The invariant holds in every state.                                      *)
THEOREM BindInvariant == Spec => []IInv
<1>1. Init => IInv
  BY InitIInv
<1>2. IInv /\ [Next]_vars => IInv'
  BY StepKeeps
<1> QED BY <1>1, <1>2, PTL DEF Spec

-----------------------------------------------------------------------------
(* A socket is in the port table exactly when its last bind succeeded.      *)
LEMMA InvTable == IInv => ResultTellsTable
<1> SUFFICES ASSUME IInv, ~ stale, NEW s \in Sockets PROVE Bound(s) <=> result[s] = "SUCCESS"
  BY DEF ResultTellsTable
<1> QED BY BindAssumption DEF IInv, Strong, TableTrue, Bound

(* Lists, rings and counts are those of the threads that wait.              *)
LEMMA InvListed == IInv => WaitersListed
<1> SUFFICES ASSUME IInv, ~ stale, NEW o \in Sockets
             PROVE  /\ inProgress[o] <=> Waits(o)
                    /\ count[o] = Cardinality(Waiting(o))
                    /\ IF Waiting(o) = {} THEN list[o] = None ELSE list[o] \in Waiting(o)
                    /\ \A w \in Waiting(o) : nxt[w] \in Waiting(o) /\ prv[nxt[w]] = w
                    /\ \A S \in SUBSET Waiting(o) :
                         S # {} /\ (\A w \in S : nxt[w] \in S) => S = Waiting(o)
  BY DEF WaitersListed
<1>1. inProgress[o] <=> Waits(o)
  BY DEF IInv, Strong, WaitsTrue
<1>2. ListTrue(o)
  BY DEF IInv, Strong, Listed
<1> QED BY <1>1, <1>2 DEF ListTrue, Cyclic

(* After a check that kept to its lists no time-out is left without an      *)
(* event.                                                                   *)
LEMMA InvTimeouts == IInv => NoTimeoutMissed
<1> SUFFICES ASSUME IInv, NEW s \in Sockets, ip = "idle", ~ event, ~ stale, ~ lost
             PROVE  cleanup[s] # "DEFERRED"
  BY DEF NoTimeoutMissed
<1>1. PICK U \in SUBSET Sockets : Rest(U) /\ Comes(U)
  BY DEF IInv, Strong, Pending
<1>2. U = {} BY <1>1 DEF Rest
<1> QED BY <1>1, <1>2 DEF Comes

(* TypeOK, ResultTellsTable, WaitersListed and NoTimeoutMissed hold for any *)
(* number of sockets, ports and waiters.                                    *)
THEOREM BindTypeCorrect == Spec => []TypeOK
<1>1. IInv => TypeOK
  BY DEF IInv
<1> QED BY <1>1, BindInvariant, PTL

(* A socket is in the port table exactly when its last bind succeeded,      *)
(* until the first stale cleanup, with any number of waiters.               *)
THEOREM BindResultTrue == Spec => []ResultTellsTable
BY BindInvariant, InvTable, PTL

(* The list of a socket is the ring of exactly the threads that wait for    *)
(* its port, whoever held the port when they came, and its count is theirs, *)
(* until the first stale cleanup.                                           *)
THEOREM ListsTrue == Spec => []WaitersListed
BY BindInvariant, InvListed, PTL

(* However many wait on however many lists, a check that never follows a    *)
(* thread that waits for the mutex leaves no expired wait unnoticed.        *)
THEOREM TimeoutsSeen == Spec => []NoTimeoutMissed
BY BindInvariant, InvTimeouts, PTL

(* A port somebody waits for is not freed: the step that takes it from its  *)
(* socket gives it to the one at the head of the list.                      *)
LEMMA StepHandsOver ==
  ASSUME IInv, [Next]_vars, ~ stale, NEW p \in Ports, bound[p] # None,
         NEW s \in Sockets, Waits(s), port[s] = p
  PROVE  bound'[p] # None
<1> USE BindAssumption
<1>1. bound[p] \in Sockets /\ s \in Waiting(bound[p]) /\ ListTrue(bound[p])
  BY DEF IInv, TypeOK, Strong, Listed, Waiting
<1>2. list[bound[p]] # None
  <2>1. list[bound[p]] \in Waiting(bound[p]) BY <1>1 DEF ListTrue
  <2> QED BY <2>1, Finite
<1>3. ASSUME NEW x \in Sockets, UnbindFree(x) PROVE bound'[p] # None
  <2>1. PICK q \in Ports : bound[q] = x /\ bound' = [bound EXCEPT ![q] = None] /\ list[x] = None
    BY <1>3 DEF UnbindFree
  <2>2. q # p
    BY <1>2, <2>1
  <2> QED BY <2>1, <2>2 DEF IInv, TypeOK
<1>4. ASSUME NEW x \in Sockets, UnbindHandOver(x) PROVE bound'[p] # None
  BY <1>4 DEF UnbindHandOver, IInv, TypeOK
<1>5. ASSUME NEW x \in Sockets, NEW q \in Ports, BindFree(x, q) PROVE bound'[p] # None
  BY <1>5 DEF BindFree, IInv, TypeOK
<1>6. ASSUME UNCHANGED bound PROVE bound'[p] # None
  BY <1>6
<1>7. ASSUME NEW x \in Sockets, UnbindWaiting(x) PROVE UNCHANGED bound
  BY <1>7 DEF UnbindWaiting, BindCleanup, tableVars
<1>8. CASE IpThread
  BY <1>6, <1>8 DEF IpThread, CheckStart, CheckThread, CheckNext, CheckEnd, CheckSocket,
                    BindCleanup, tableVars
<1>9. ASSUME NEW x \in Sockets, NEW q \in Ports, BindWait(x, q) \/ TimerExpire(x) \/ MutexWait(x)
      PROVE  UNCHANGED bound
  BY <1>9 DEF BindWait, TimerExpire, MutexWait, tableVars
<1>10. CASE UNCHANGED vars
  BY <1>6, <1>10 DEF vars, tableVars
<1> QED BY <1>3, <1>4, <1>5, <1>6, <1>7, <1>8, <1>9, <1>10 DEF Next, Thread, Ended

(* A port that threads wait for is never freed under them: at unbind it     *)
(* goes to the first, with all who are left, until the first stale cleanup. *)
THEOREM PortsHandedOver == Spec => PortHandedOver
<1> DEFINE A == \A p \in Ports :
       ~ stale /\ bound[p] # None /\ (\E s \in Sockets : Waits(s) /\ port[s] = p /\ Waits(s)')
         => bound'[p] # None
<1>1. IInv /\ [Next]_vars => [A]_vars
  BY StepHandsOver
<1> HIDE DEF A
<1>2. Spec => [][A]_vars
  BY <1>1, BindInvariant, PTL DEF Spec
<1> QED BY <1>2 DEF PortHandedOver, A
=============================================================================
