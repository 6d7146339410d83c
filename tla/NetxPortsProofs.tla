--------------------------- MODULE NetxPortsProofs --------------------------
(***************************************************************************)
(* Proofs about who waits at a port.                                       *)
(*                                                                         *)
(* First about NetxUdpReceive, for any sockets, ports, threads and packets *)
(* and any length of a queue: every datagram is at one place, in a queue,  *)
(* with a thread, with unbind or in the pool; the count that unbind goes   *)
(* by is true; nobody waits beside a queued datagram; and a thread gets    *)
(* datagrams for its socket's port.  Then about NetxTcpListen, in a        *)
(* section of its own, where that module is the instance Listen; and last  *)
(* about NetxPoolDelete, the instance Pool, whose waiters are on such a    *)
(* list too.                                                               *)
(*                                                                         *)
(* All are about links that are walked: the ring of the sockets in the     *)
(* port table and that of the waiters of a socket or a pool, which are     *)
(* known by what can be reached (Cyclic, Reaches), and the queue of a      *)
(* listen request, whose packets have places.                              *)
(***************************************************************************)
EXTENDS NetxUdpReceive, FiniteSetTheorems, SequenceTheorems, WellFoundedInduction, TLAPS

-----------------------------------------------------------------------------
(* W is one ring: n leads from each member to another, p back, and who      *)
(* follows n from any member comes by all.                                  *)
Cyclic(W, n, p) ==
  /\ \A x \in W : n[x] \in W /\ p[x] \in W /\ p[n[x]] = x /\ n[p[x]] = x
  /\ \A S \in SUBSET W : S # {} /\ (\A x \in S : n[x] \in S) => S = W

(* The links n2 and p2 are n and p, but for those that led to t.            *)
Unlinked(W, t, n, p, n2, p2) ==
  /\ \A x \in W \ {t, p[t]} : n2[x] = n[x]
  /\ \A x \in W \ {t, n[t]} : p2[x] = p[x]
  /\ n2[p[t]] = n[t] /\ p2[n[t]] = p[t]

(* Who follows n from h comes by all of W before it leaves W.               *)
Reaches(W, h, n) ==
  W # {} =>
    /\ h \in W
    /\ \A S \in SUBSET W : h \in S /\ (\A x \in S : n[x] \in W => n[x] \in S) => S = W

(* The packets in lines q, one for each socket and one for unbind; and what *)
(* the first of x leaving, m coming to its end, or x becoming y makes of q. *)
LineSet(q) == q \in [Sockets \cup {None} -> Seq(Packets)]
Taken(q, x) == [q EXCEPT ![x] = Tail(q[x])]
Put(q, x, m) == [q EXCEPT ![x] = Append(q[x], m)]
Moved(q, x, y) == [q EXCEPT ![x] = <<>>, ![y] = q[x]]

(* The packets in the lines q, each there once.                             *)
Within(q, k) == \E x \in DOMAIN q : \E i \in 1..Len(q[x]) : q[x][i] = k
Once(q) ==
  \A x, y \in DOMAIN q : \A i \in 1..Len(q[x]) : \A j \in 1..Len(q[y]) :
    q[x][i] = q[y][j] => x = y /\ i = j

-----------------------------------------------------------------------------
Lines ==
  [x \in Sockets \cup {None} |-> IF x = None THEN unbinder.packets ELSE queue[x]]
Waiters(s) == {t \in Threads : tstate[t] = "suspended" /\ on[t] = s}
BoundSockets == {s \in Sockets : Bound(s)}
Walks == unbinder.step \in {"walk", "count"}

(* No packet is in two hands.                                               *)
Apart ==
  /\ Once(Lines)
  /\ \A k \in free : ~ Within(Lines, k)
  /\ \A t \in Threads :
       got[t] # None =>
         /\ got[t] \notin free /\ ~ Within(Lines, got[t])
         /\ \A u \in Threads : got[u] = got[t] => u = t
  /\ driver # None =>
       /\ driver.packet \notin free /\ ~ Within(Lines, driver.packet)
       /\ \A t \in Threads : got[t] # driver.packet

(* What that needs to be known of the variables.                            *)
HandsShaped ==
  /\ queue \in [Sockets -> Seq(Packets)] /\ got \in [Threads -> Packets \cup {None}]
  /\ list \in [Sockets -> Threads \cup {None}] /\ nxt \in [Threads -> Threads]
  /\ free \subseteq Packets
  /\ driver # None => driver.packet \in Packets /\ driver.sock \in Sockets
UnbinderShaped ==
  /\ unbinder \in [sock : Sockets \cup {None},
                   step : {"none", "table", "flush", "walk", "count", "fault"},
                   packets : Seq(Packets), thread : {unbinder.thread}]
  /\ unbinder.step # "none" => unbinder.sock \in Sockets
Shaped == HandsShaped /\ UnbinderShaped

Typed ==
  /\ TypeOK /\ queue \in [Sockets -> Seq(Packets)] /\ driver = None
  /\ unbinder \in [sock : Sockets \cup {None},
                   step : {"none", "table", "flush", "walk", "count"},
                   packets : Seq(Packets), thread : Threads \cup {None}]

Accounted ==
  \A k \in Packets : k \in free \/ Within(Lines, k) \/ \E t \in Threads : got[t] = k

TableLinked ==
  /\ Cyclic(BoundSockets, bnext, bprev)
  /\ IF BoundSockets = {} THEN table = None ELSE table \in BoundSockets
  /\ BoundSockets \subseteq created
  /\ \A s \in BoundSockets : port[s] \in Ports

(* The waiters of a socket are linked, headed and counted, unless unbind is *)
(* walking along them.                                                      *)
Listed(s) ==
  /\ Cyclic(Waiters(s), nxt, prv)
  /\ IF Waiters(s) = {} THEN list[s] = None ELSE list[s] \in Waiters(s)
  /\ waiting[s] = Cardinality(Waiters(s))
WaitersLinked ==
  /\ \A t \in Threads :
       /\ cleanup[t] = (tstate[t] = "suspended")
       /\ tstate[t] = "suspended" => on[t] \in Sockets /\ got[t] = None
  /\ \A s \in Sockets : (Walks /\ unbinder.sock = s) \/ Listed(s)
  /\ \A s \in Sockets : Waiters(s) # {} => queue[s] = <<>>

(* What unbind has still to do, in each of its steps.                       *)
UnbindGoesOn ==
  /\ unbinder.step = "none" => unbinder.sock = None
  /\ unbinder.step # "none" => unbinder.sock \in created /\ ~ Bound(unbinder.sock)
  /\ unbinder.step # "flush" => unbinder.packets = <<>>
  /\ unbinder.step = "flush" =>
       queue[unbinder.sock] = <<>> /\ Waiters(unbinder.sock) = {}
  /\ Walks =>
       LET s == unbinder.sock
       IN /\ unbinder.thread \in Threads /\ list[s] = None /\ queue[s] = <<>>
          /\ \A t \in Waiters(s) : prv[nxt[t]] = t
          /\ Reaches(Waiters(s), unbinder.thread, nxt)
          /\ waiting[s] = Cardinality(Waiters(s)) + (IF unbinder.step = "count" THEN 1 ELSE 0)

ForPort == \A s \in Sockets : \A i \in 1..Len(queue[s]) : for[queue[s][i]] = port[s]

IInv ==
  /\ Typed /\ Apart /\ Accounted /\ TableLinked /\ WaitersLinked /\ UnbindGoesOn
  /\ CountTrue /\ UnboundIsEmpty /\ ForPort

-----------------------------------------------------------------------------
(* A ring of none, and of one.                                              *)
LEMMA EmptyCyclic == ASSUME NEW n, NEW p PROVE Cyclic({}, n, p)
  BY DEF Cyclic

(* Only the links of the members matter.                                    *)
LEMMA SameCyclic ==
  ASSUME NEW W, NEW n, NEW p, NEW n2, NEW p2, Cyclic(W, n, p),
         \A x \in W : n2[x] = n[x] /\ p2[x] = p[x]
  PROVE  Cyclic(W, n2, p2)
<1>1. \A S \in SUBSET W : (\A x \in S : n2[x] \in S) => (\A x \in S : n[x] \in S)
  OBVIOUS
<1> QED BY <1>1 DEF Cyclic

(* A member that is linked to itself is alone.                              *)
LEMMA AloneCyclic ==
  ASSUME NEW W, NEW n, NEW p, Cyclic(W, n, p), NEW t \in W, n[t] = t
  PROVE  W = {t}
<1>1. {t} \in SUBSET W /\ \A x \in {t} : n[x] \in {t}
  OBVIOUS
<1> QED BY <1>1 DEF Cyclic

LEMMA OneCyclic ==
  ASSUME NEW t, NEW n, NEW p, n[t] = t, p[t] = t
  PROVE  Cyclic({t}, n, p)
BY DEF Cyclic

(* A new member goes between h and the one before it.                       *)
LEMMA InsertCyclic ==
  ASSUME NEW D, NEW W \in SUBSET D, NEW n \in [D -> D], NEW p, DOMAIN p = D,
         Cyclic(W, n, p), NEW h \in W, NEW t \in D, t \notin W,
         NEW n2, n2 = [n EXCEPT ![t] = h, ![p[h]] = t],
         NEW p2, p2 = [p EXCEPT ![t] = p[h], ![h] = t]
  PROVE  Cyclic(W \cup {t}, n2, p2)
<1> DEFINE l == p[h]
           V == W \cup {t}
<1>1. /\ l \in W /\ n[l] = h /\ l \in D /\ h \in D /\ l # t /\ h # t
      /\ \A x \in W : n[x] \in W /\ p[x] \in W /\ p[n[x]] = x /\ n[p[x]] = x /\ x \in D
  BY DEF Cyclic
<1>2. /\ n2[t] = h /\ n2[l] = t /\ \A x \in W : x # l => n2[x] = n[x]
      /\ p2[t] = l /\ p2[h] = t /\ \A x \in W : x # h => p2[x] = p[x]
  BY <1>1
<1> HIDE DEF l
<1>3. \A x \in V : n2[x] \in V /\ p2[x] \in V /\ p2[n2[x]] = x /\ n2[p2[x]] = x
  BY <1>1, <1>2
<1>4. ASSUME NEW S \in SUBSET V, S # {}, \A x \in S : n2[x] \in S PROVE S = V
  <2> DEFINE R == S \ {t}
  <2>1. R \in SUBSET W OBVIOUS
  <2>2. R # {}
    <3>1. CASE t \in S BY <3>1, <1>2, <1>1, <1>4
    <3>2. CASE t \notin S BY <3>2, <1>4
    <3> QED BY <3>1, <3>2
  <2>3. ASSUME NEW x \in R PROVE n[x] \in R
    <3>1. CASE x = l
      <4>1. t \in S BY <3>1, <1>2, <1>4
      <4>2. h \in S BY <4>1, <1>2, <1>4
      <4> QED BY <3>1, <4>2, <1>1
    <3>2. CASE x # l
      BY <3>2, <2>3, <2>1, <1>2, <1>1, <1>4
    <3> QED BY <3>1, <3>2
  <2>4. R = W
    <3> HIDE DEF R
    <3> QED BY <2>1, <2>2, <2>3 DEF Cyclic
  <2>5. t \in S
    BY <2>4, <1>1, <1>2, <1>4
  <2> QED BY <2>4, <2>5
<1> QED BY <1>3, <1>4 DEF Cyclic

(* A member that is not alone leaves.                                       *)
LEMMA RemoveCyclic ==
  ASSUME NEW W, NEW n, NEW p, Cyclic(W, n, p), NEW t, t \in W, n[t] # t,
         NEW n2, NEW p2, Unlinked(W, t, n, p, n2, p2)
  PROVE  Cyclic(W \ {t}, n2, p2) /\ n[t] \in W \ {t}
<1> DEFINE l == p[t]
           r == n[t]
           V == W \ {t}
<1>1. /\ l \in W /\ r \in W /\ l # t /\ r # t /\ n[l] = t /\ p[r] = t
      /\ \A x \in W : n[x] \in W /\ p[x] \in W /\ p[n[x]] = x /\ n[p[x]] = x
  BY DEF Cyclic
<1>2. /\ n2[l] = r /\ \A x \in V : x # l => n2[x] = n[x]
      /\ p2[r] = l /\ \A x \in V : x # r => p2[x] = p[x]
  BY DEF Unlinked
<1>9. n[t] = r OBVIOUS
<1> HIDE DEF l, r
<1>3. \A x \in V : n2[x] \in V /\ p2[x] \in V /\ p2[n2[x]] = x /\ n2[p2[x]] = x
  BY <1>1, <1>2, <1>9
<1>4. ASSUME NEW S \in SUBSET V, S # {}, \A x \in S : n2[x] \in S PROVE S = V
  <2>1. CASE l \in S
    <3> DEFINE R == S \cup {t}
    <3>1. R \in SUBSET W /\ R # {} OBVIOUS
    <3>2. ASSUME NEW x \in R PROVE n[x] \in R
      <4>1. CASE x = l BY <4>1, <1>1
      <4>2. CASE x = t BY <4>2, <1>2, <2>1, <1>4, <1>9
      <4>3. CASE x # l /\ x # t BY <4>3, <3>2, <1>2, <1>4
      <4> QED BY <4>1, <4>2, <4>3
    <3>3. R = W
      <4> HIDE DEF R
      <4> QED BY <3>1, <3>2 DEF Cyclic
    <3> QED BY <3>3
  <2>2. CASE l \notin S
    <3>1. \A x \in S : n[x] \in S BY <2>2, <1>2, <1>4
    <3>2. S = W BY <3>1, <1>4 DEF Cyclic
    <3> QED BY <3>2, <1>1, <2>2
  <2> QED BY <2>1, <2>2
<1>5. Cyclic(V, n2, p2)
  BY <1>3, <1>4 DEF Cyclic
<1> QED BY <1>5, <1>1, <1>9

(* From any member the ring is reached, and what was walked over does not   *)
(* matter for the rest.                                                     *)
LEMMA CyclicReaches ==
  ASSUME NEW W, NEW n, NEW p, Cyclic(W, n, p), NEW h, W # {} => h \in W
  PROVE  Reaches(W, h, n)
BY DEF Cyclic, Reaches

(* Behind the first, the second comes by the rest.                          *)
LEMMA ReachesOn ==
  ASSUME NEW W, NEW h, NEW n, Reaches(W, h, n), W # {}
  PROVE  h \in W /\ Reaches(W \ {h}, n[h], n)
<1> DEFINE V == W \ {h}
<1>1. h \in W BY DEF Reaches
<1>2. ASSUME V # {} PROVE n[h] \in V
  <2>1. SUFFICES ASSUME n[h] \notin V PROVE FALSE OBVIOUS
  <2>2. {h} \in SUBSET W /\ \A x \in {h} : n[x] \in W => n[x] \in {h} BY <1>1, <2>1
  <2>3. {h} = W BY <2>2, <1>1 DEF Reaches
  <2> QED BY <2>3, <1>2
<1>3. ASSUME NEW S \in SUBSET V, n[h] \in S, \A x \in S : n[x] \in V => n[x] \in S
      PROVE  S = V
  <2> DEFINE R == S \cup {h}
  <2>1. R \in SUBSET W /\ h \in R BY <1>1
  <2>2. \A x \in R : n[x] \in W => n[x] \in R BY <1>3
  <2>3. R = W
    <3> HIDE DEF R
    <3> QED BY <1>1, <2>1, <2>2 DEF Reaches
  <2> QED BY <2>3
<1> QED BY <1>1, <1>2, <1>3 DEF Reaches
(* A packet is found at one place of one line.                              *)
LEMMA Found1 ==
  ASSUME NEW q, Once(q), NEW x \in DOMAIN q, NEW y \in DOMAIN q,
         NEW i \in 1..Len(q[x]), NEW j \in 1..Len(q[y]), q[x][i] = q[y][j]
  PROVE  x = y /\ i = j
BY DEF Once

(* A packet leaves the front of a line.                                     *)
LEMMA TailOnce ==
  ASSUME NEW q, LineSet(q), Once(q), NEW x \in Sockets \cup {None}, q[x] # <<>>
  PROVE  /\ Once(Taken(q, x)) /\ Head(q[x]) \in Packets /\ Within(q, Head(q[x]))
         /\ \A k : Within(Taken(q, x), k) <=> Within(q, k) /\ k # Head(q[x])
<1> DEFINE P == Packets
           D == Sockets \cup {None}
           q2 == Taken(q, x)
<1>0. q \in [D -> Seq(P)] /\ q2 = [q EXCEPT ![x] = Tail(q[x])] /\ x \in D
  BY DEF LineSet, Taken
<1> HIDE DEF q2, P, D
<1>1. /\ Len(q[x]) \in Nat /\ Len(q[x]) >= 1 /\ q[x][1] = Head(q[x])
      /\ Len(q2[x]) = Len(q[x]) - 1 /\ \A i \in 1..Len(q2[x]) : q2[x][i] = q[x][i + 1]
      /\ DOMAIN q = D /\ DOMAIN q2 = D /\ \A y \in D : y # x => q2[y] = q[y]
      /\ \A y \in D : Len(q[y]) \in Nat
      /\ Head(q[x]) \in P /\ x \in D
  BY <1>0
<1>2. Once(q2)
  <2> SUFFICES ASSUME NEW y \in D, NEW z \in D, NEW i \in 1..Len(q2[y]), NEW j \in 1..Len(q2[z]),
                      q2[y][i] = q2[z][j]
               PROVE  y = z /\ i = j
    BY <1>1 DEF Once
  <2> DEFINE m == IF y = x THEN i + 1 ELSE i
             n == IF z = x THEN j + 1 ELSE j
  <2>1. m \in 1..Len(q[y]) /\ q[y][m] = q2[y][i] BY <1>1
  <2>2. n \in 1..Len(q[z]) /\ q[z][n] = q2[z][j] BY <1>1
  <2>3. y = z /\ m = n
    <3>1. q[y][m] = q[z][n] BY <2>1, <2>2
    <3>2. y \in DOMAIN q /\ z \in DOMAIN q BY <1>1
    <3> HIDE DEF m, n
    <3> QED BY <2>1, <2>2, <3>1, <3>2, Found1
  <2> QED BY <2>3
<1>3. Within(q, Head(q[x]))
  BY <1>1 DEF Within
<1>4. ASSUME NEW k, Within(q2, k) PROVE Within(q, k) /\ k # Head(q[x])
  <2>0. PICK y \in D : \E i \in 1..Len(q2[y]) : q2[y][i] = k BY <1>1, <1>4 DEF Within
  <2>1. PICK i \in 1..Len(q2[y]) : q2[y][i] = k BY <2>0
  <2> DEFINE m == IF y = x THEN i + 1 ELSE i
  <2>2. m \in 1..Len(q[y]) /\ q[y][m] = k /\ (y = x => m # 1) BY <1>1, <2>1
  <2> HIDE DEF m
  <2> QED BY <2>2, <1>1 DEF Once, Within
<1>5. ASSUME NEW k, Within(q, k), k # Head(q[x]) PROVE Within(q2, k)
  <2>0. PICK y \in D : \E i \in 1..Len(q[y]) : q[y][i] = k BY <1>1, <1>5 DEF Within
  <2>1. PICK i \in 1..Len(q[y]) : q[y][i] = k BY <2>0
  <2> DEFINE m == IF y = x THEN i - 1 ELSE i
  <2>2. m \in 1..Len(q2[y]) /\ q2[y][m] = k BY <1>1, <2>1, <1>5
  <2> HIDE DEF m
  <2> QED BY <2>2, <1>1 DEF Within
<1> QED BY <1>1, <1>2, <1>3, <1>4, <1>5 DEF q2, P

(* A packet that is in no line goes to the end of one.                      *)
LEMMA AppendOnce ==
  ASSUME NEW q, LineSet(q), Once(q), NEW x \in Sockets \cup {None},
         NEW m \in Packets, ~ Within(q, m)
  PROVE  Once(Put(q, x, m)) /\ \A k : Within(Put(q, x, m), k) <=> Within(q, k) \/ k = m
<1> DEFINE P == Packets
           D == Sockets \cup {None}
           q2 == Put(q, x, m)
<1>0. q \in [D -> Seq(P)] /\ q2 = [q EXCEPT ![x] = Append(q[x], m)] /\ x \in D /\ m \in P
  BY DEF LineSet, Put
<1> HIDE DEF q2, P, D
<1>1. /\ Len(q[x]) \in Nat /\ Len(q2[x]) = Len(q[x]) + 1 /\ q2[x][Len(q[x]) + 1] = m
      /\ \A i \in 1..Len(q[x]) : q2[x][i] = q[x][i]
      /\ DOMAIN q = D /\ DOMAIN q2 = D /\ \A y \in D : y # x => q2[y] = q[y]
      /\ (\A y \in D : Len(q[y]) \in Nat) /\ x \in D
  BY <1>0
<1>2. \A y \in D : \A i \in 1..Len(q[y]) : q[y][i] # m
  BY <1>1 DEF Within
<1>3. \A y \in D : \A i \in 1..Len(q2[y]) :
        \/ i \in 1..Len(q[y]) /\ q2[y][i] = q[y][i]
        \/ y = x /\ i = Len(q[x]) + 1 /\ q2[y][i] = m
  BY <1>1
<1>4. Once(q2)
  <2> SUFFICES ASSUME NEW y \in D, NEW z \in D, NEW i \in 1..Len(q2[y]),
                      NEW j \in 1..Len(q2[z]), q2[y][i] = q2[z][j]
               PROVE  y = z /\ i = j
    BY <1>1 DEF Once
  <2>1. y \in DOMAIN q /\ z \in DOMAIN q BY <1>1
  <2>2. CASE i \in 1..Len(q[y]) /\ q2[y][i] = q[y][i]
    <3>1. q[y][i] # m BY <2>2, <1>2
    <3>2. j \in 1..Len(q[z]) /\ q2[z][j] = q[z][j] BY <3>1, <2>2, <1>3
    <3>3. q[y][i] = q[z][j] BY <2>2, <3>2
    <3> QED BY <2>1, <2>2, <3>2, <3>3, Found1
  <2>3. CASE y = x /\ i = Len(q[x]) + 1 /\ q2[y][i] = m
    <3>1. ~ (j \in 1..Len(q[z]) /\ q2[z][j] = q[z][j]) BY <2>3, <1>2
    <3>2. z = x /\ j = Len(q[x]) + 1 BY <3>1, <1>3
    <3> QED BY <2>3, <3>2
  <2> QED BY <2>2, <2>3, <1>3
<1>5. \A k : Within(q2, k) => Within(q, k) \/ k = m
  BY <1>1, <1>3 DEF Within
<1>6. ASSUME NEW k, Within(q, k) PROVE Within(q2, k)
  BY <1>1, <1>6 DEF Within
<1>7. Within(q2, m)
  <2>1. Len(q[x]) + 1 \in 1..Len(q2[x]) BY <1>1
  <2> QED BY <2>1, <1>1 DEF Within
<1> QED BY <1>4, <1>5, <1>6, <1>7 DEF q2

(* A line is cleared, and what was in it becomes the line y.                *)
LEMMA MoveOnce ==
  ASSUME NEW q, LineSet(q), Once(q), NEW x \in Sockets \cup {None},
         NEW y \in Sockets \cup {None}, x # y
  PROVE  /\ Once(Moved(q, x, y)) /\ \A k : Within(Moved(q, x, y), k) => Within(q, k)
         /\ q[y] = <<>> => \A k : Within(q, k) => Within(Moved(q, x, y), k)
<1> DEFINE P == Packets
           D == Sockets \cup {None}
           q2 == Moved(q, x, y)
<1>0. q \in [D -> Seq(P)] /\ q2 = [q EXCEPT ![x] = <<>>, ![y] = q[x]] /\ x \in D /\ y \in D
  BY DEF LineSet, Moved
<1> HIDE DEF q2, P, D
<1>1. /\ DOMAIN q = D /\ DOMAIN q2 = D /\ \A z \in D : z \notin {x, y} => q2[z] = q[z]
      /\ q2[x] = <<>> /\ q2[y] = q[x] /\ Len(q2[x]) = 0 /\ x \in D /\ y \in D
  BY <1>0
<1> DEFINE from(z) == IF z = y THEN x ELSE z
<1>2. \A z \in D : \A i \in 1..Len(q2[z]) :
        from(z) \in D /\ i \in 1..Len(q[from(z)]) /\ q[from(z)][i] = q2[z][i] /\ z # x
  BY <1>1
<1>3. Once(q2)
  <2> SUFFICES ASSUME NEW u \in D, NEW z \in D, NEW i \in 1..Len(q2[u]),
                      NEW j \in 1..Len(q2[z]), q2[u][i] = q2[z][j]
               PROVE  u = z /\ i = j
    BY <1>1 DEF Once
  <2>1. /\ from(u) \in DOMAIN q /\ from(z) \in DOMAIN q
        /\ i \in 1..Len(q[from(u)]) /\ j \in 1..Len(q[from(z)])
        /\ q[from(u)][i] = q[from(z)][j] /\ u # x /\ z # x
    BY <1>1, <1>2
  <2>2. from(u) = from(z) /\ i = j
    <3> HIDE DEF from
    <3> QED BY <2>1, Found1
  <2> QED BY <2>1, <2>2
<1>4. \A k : Within(q2, k) => Within(q, k)
  <2> TAKE k
  <2> HAVE Within(q2, k)
  <2>0. PICK z \in D : \E i \in 1..Len(q2[z]) : q2[z][i] = k BY <1>1 DEF Within
  <2>1. PICK i \in 1..Len(q2[z]) : q2[z][i] = k BY <2>0
  <2>2. from(z) \in D /\ i \in 1..Len(q[from(z)]) /\ q[from(z)][i] = k BY <1>2, <2>1
  <2> HIDE DEF from
  <2> QED BY <2>2, <1>1 DEF Within
<1>5. ASSUME q[y] = <<>>, NEW k, Within(q, k) PROVE Within(q2, k)
  <2>0. PICK z \in D : \E i \in 1..Len(q[z]) : q[z][i] = k BY <1>1, <1>5 DEF Within
  <2>1. PICK i \in 1..Len(q[z]) : q[z][i] = k BY <2>0
  <2>2. z # y /\ Len(q[y]) = 0 BY <2>1, <1>5
  <2>3. CASE z = x BY <2>3, <2>1, <1>1 DEF Within
  <2>4. CASE z # x BY <2>4, <2>2, <2>1, <1>1 DEF Within
  <2> QED BY <2>3, <2>4
<1> QED BY <1>3, <1>4, <1>5 DEF q2

(* Lines are cleared.                                                       *)
LEMMA ClearOnce ==
  ASSUME NEW P, NEW D, NEW q \in [D -> Seq(P)], Once(q),
         NEW q2, DOMAIN q2 = D, \A z \in D : q2[z] \in {q[z], <<>>}
  PROVE  Once(q2) /\ \A k : Within(q2, k) => Within(q, k)
<1>1. \A z \in D : \A i \in 1..Len(q2[z]) : i \in 1..Len(q[z]) /\ q2[z][i] = q[z][i]
  <2> TAKE z \in D
  <2>1. Len(<<>>) = 0 OBVIOUS
  <2> QED BY <2>1
<1>2. DOMAIN q = D OBVIOUS
<1>3. Once(q2)
  BY <1>1, <1>2 DEF Once
<1>4. \A k : Within(q2, k) => Within(q, k)
  BY <1>1, <1>2 DEF Within
<1> QED BY <1>3, <1>4
-----------------------------------------------------------------------------
(* The lines have a type, and they are the queues and unbind's packets.     *)
LEMMA LinesAre ==
  ASSUME ReceiveAssumption, Shaped
  PROVE  /\ Lines \in [Sockets \cup {None} -> Seq(Packets)] /\ LineSet(Lines) /\ Lines[None] = unbinder.packets
         /\ \A s \in Sockets : Lines[s] = queue[s] /\ s # None
  BY DEF Lines, LineSet, Shaped, HandsShaped, UnbinderShaped, ReceiveAssumption

(* Nothing moved.                                                           *)
LEMMA SameHands ==
  ASSUME Apart, Lines' = Lines, UNCHANGED <<got, free, driver>>
  PROVE  Apart' /\ (Accounted => Accounted')
<1>1. \A k : Within(Lines, k)' <=> Within(Lines, k)
  BY DEF Within
<1>2. Once(Lines)' <=> Once(Lines)
  BY DEF Once
<1> QED BY <1>1, <1>2 DEF Apart, Accounted

(* Lines were cleared.                                                      *)
LEMMA FewerHands ==
  ASSUME Apart, Once(Lines'), \A k : Within(Lines', k) => Within(Lines, k),
         UNCHANGED <<got, free, driver>>
  PROVE  Apart'
BY DEF Apart

(* Packets that lines had stay accounted.                                   *)
LEMMA SameAccounted ==
  ASSUME Accounted, \A k : Within(Lines, k) => Within(Lines', k), UNCHANGED <<got, free>>
  PROVE  Accounted'
BY DEF Accounted
-----------------------------------------------------------------------------
(* What Deliver, and then every step, makes of the variables that Apart     *)
(* needs the shape of.                                                      *)
LEMMA DeliverShaped ==
  ASSUME HandsShaped, NEW k \in Packets, NEW s \in Sockets, Deliver(k, s)
  PROVE  /\ queue' \in [Sockets -> Seq(Packets)] /\ got' \in [Threads -> Packets \cup {None}]
         /\ list' \in [Sockets -> Threads \cup {None}] /\ nxt' \in [Threads -> Threads]
         /\ free' \subseteq Packets
<1>1. CASE list[s] = None
  <2>1. Append(queue[s], k) \in Seq(Packets) /\ Append(queue[s], k) # <<>>
    BY AppendProperties DEF HandsShaped
  <2>2. Tail(Append(queue[s], k)) \in Seq(Packets) /\ Head(Append(queue[s], k)) \in Packets
    BY <2>1, HeadTailProperties
  <2>3. Queued(s, k) /\ UNCHANGED <<list, nxt, got>>
    BY <1>1 DEF Deliver, waitVars
  <2>4. PICK new \in Seq(Packets) : queue' = [queue EXCEPT ![s] = new]
    BY <2>1, <2>2, <2>3 DEF Queued
  <2>5. queue' \in [Sockets -> Seq(Packets)]
    BY <2>4 DEF HandsShaped
  <2>6. free' \subseteq Packets
    BY <2>2, <2>3 DEF Queued, HandsShaped
  <2> QED BY <2>3, <2>5, <2>6 DEF HandsShaped
<1>2. CASE list[s] # None
  <2> DEFINE t == list[s]
  <2>1. t \in Threads /\ nxt[t] \in Threads BY <1>2 DEF HandsShaped
  <2>2. Leave(t, IF nxt[t] = t THEN None ELSE nxt[t]) BY <1>2 DEF Deliver
  <2>3. got' = [got EXCEPT ![t] = k] /\ free' = free \ {k} /\ UNCHANGED queue
    BY <1>2 DEF Deliver, queueVars
  <2> HIDE DEF t
  <2>4. list' \in [Threads -> Threads] \/ list' \in [Sockets -> Threads \cup {None}]
    BY <2>1, <2>2 DEF Leave, HandsShaped
  <2>5. nxt' \in [Threads -> Threads]
    BY <2>1, <2>2 DEF Leave, HandsShaped
  <2> QED BY <2>1, <2>2, <2>3, <2>4, <2>5 DEF HandsShaped, Leave
<1> QED BY <1>1, <1>2

(* What the steps of unbind make of its record.                             *)
LEMMA RecordOf ==
  ASSUME NEW r, NEW S, NEW T, NEW P, NEW H,
         r \in [sock : S, step : T, packets : P, thread : H], NEW a, NEW b
  PROVE  /\ [r EXCEPT !.step = a] =
              [sock |-> r.sock, step |-> a, packets |-> r.packets, thread |-> r.thread]
         /\ [r EXCEPT !.packets = a] =
              [sock |-> r.sock, step |-> r.step, packets |-> a, thread |-> r.thread]
         /\ [r EXCEPT !.step = a, !.packets = b] =
              [sock |-> r.sock, step |-> a, packets |-> b, thread |-> r.thread]
         /\ [r EXCEPT !.step = a, !.thread = b] =
              [sock |-> r.sock, step |-> a, packets |-> r.packets, thread |-> b]
<1>1. [r EXCEPT !.step = a] =
        [sock |-> r.sock, step |-> a, packets |-> r.packets, thread |-> r.thread]
  OBVIOUS
<1>2. [r EXCEPT !.packets = a] =
        [sock |-> r.sock, step |-> r.step, packets |-> a, thread |-> r.thread]
  OBVIOUS
<1>3. [r EXCEPT !.step = a, !.packets = b] =
        [sock |-> r.sock, step |-> a, packets |-> b, thread |-> r.thread]
  <2>1. [r EXCEPT !.step = a, !.packets = b] = [[r EXCEPT !.step = a] EXCEPT !.packets = b]
    OBVIOUS
  <2>2. ASSUME NEW x, x = [sock |-> r.sock, step |-> a, packets |-> r.packets, thread |-> r.thread]
        PROVE  [x EXCEPT !.packets = b] =
                 [sock |-> r.sock, step |-> a, packets |-> b, thread |-> r.thread]
    BY <2>2
  <2> QED BY <1>1, <2>1, <2>2, Zenon
<1>4. [r EXCEPT !.step = a, !.thread = b] =
        [sock |-> r.sock, step |-> a, packets |-> r.packets, thread |-> b]
  <2>1. [r EXCEPT !.step = a, !.thread = b] = [[r EXCEPT !.step = a] EXCEPT !.thread = b]
    OBVIOUS
  <2>2. ASSUME NEW x, x = [sock |-> r.sock, step |-> a, packets |-> r.packets, thread |-> r.thread]
        PROVE  [x EXCEPT !.thread = b] =
                 [sock |-> r.sock, step |-> a, packets |-> r.packets, thread |-> b]
    BY <2>2
  <2> QED BY <1>1, <2>1, <2>2, Zenon
<1> QED BY <1>1, <1>2, <1>3, <1>4

(* unbind's record keeps its type, whatever replaces it.                    *)
LEMMA UnbinderTo ==
  ASSUME NEW s \in Sockets \cup {None},
         NEW x \in {"none", "table", "flush", "walk", "count", "fault"},
         x # "none" => s \in Sockets, NEW q \in Seq(Packets), NEW h,
         unbinder' = [sock |-> s, step |-> x, packets |-> q, thread |-> h]
  PROVE  UnbinderShaped'
BY DEF UnbinderShaped

LEMMA UnbinderKeeps ==
  ASSUME UnbinderShaped, HandsShaped, [Next]_vars
  PROVE  UnbinderShaped'
<1> DEFINE u == unbinder
<1>0. /\ <<>> \in Seq(Packets) /\ u.packets \in Seq(Packets) /\ u.sock \in Sockets \cup {None}
      /\ u.step # "none" => u.sock \in Sockets
      /\ u.step \in {"none", "table", "flush", "walk", "count", "fault"}
      /\ NoUnbind = [sock |-> None, step |-> "none", packets |-> <<>>, thread |-> None]
  BY DEF UnbinderShaped, NoUnbind
<1>1. CASE unbinder' = NoUnbind
  BY <1>0, <1>1, UnbinderTo
<1>2. ASSUME NEW s \in Sockets, UnbindTable(s) PROVE UnbinderShaped'
  <2>1. unbinder' = [sock |-> s, step |-> "table", packets |-> <<>>, thread |-> None]
    BY <1>2 DEF UnbindTable, NoUnbind
  <2> QED BY <1>0, <2>1, UnbinderTo
<1>3. ASSUME UnbindClear PROVE UnbinderShaped'
  <2>1. \/ unbinder' = [u EXCEPT !.step = "flush", !.packets = queue[u.sock]]
        \/ unbinder' = [u EXCEPT !.step = "walk", !.thread = list[u.sock]]
        \/ unbinder' = NoUnbind
    BY <1>3 DEF UnbindClear
  <2>2. u.sock \in Sockets /\ queue[u.sock] \in Seq(Packets)
    BY <1>0, <1>3 DEF UnbindClear, HandsShaped
  <2>3. CASE unbinder' = [u EXCEPT !.step = "flush", !.packets = queue[u.sock]]
    <3>1. unbinder' = [sock |-> u.sock, step |-> "flush", packets |-> queue[u.sock],
                       thread |-> u.thread]
      BY <2>3, RecordOf DEF UnbinderShaped
    <3> QED BY <1>0, <2>2, <3>1, UnbinderTo
  <2>4. CASE unbinder' = [u EXCEPT !.step = "walk", !.thread = list[u.sock]]
    <3>1. unbinder' = [sock |-> u.sock, step |-> "walk", packets |-> u.packets,
                       thread |-> list[u.sock]]
      BY <2>4, RecordOf DEF UnbinderShaped
    <3> QED BY <1>0, <2>2, <3>1, UnbinderTo
  <2> QED BY <2>1, <2>3, <2>4, <1>1
<1>4. ASSUME UnbindFlush PROVE UnbinderShaped'
  <2>1. \/ unbinder' = NoUnbind
        \/ unbinder' = [u EXCEPT !.step = "fault"]
        \/ u.packets # <<>> /\ unbinder' = [u EXCEPT !.packets = Tail(u.packets)]
    BY <1>4 DEF UnbindFlush
  <2>2. u.sock \in Sockets BY <1>0, <1>4 DEF UnbindFlush
  <2>3. CASE unbinder' = [u EXCEPT !.step = "fault"]
    <3>1. unbinder' = [sock |-> u.sock, step |-> "fault", packets |-> u.packets,
                       thread |-> u.thread]
      BY <2>3, RecordOf DEF UnbinderShaped
    <3> QED BY <1>0, <2>2, <3>1, UnbinderTo
  <2>4. CASE u.packets # <<>> /\ unbinder' = [u EXCEPT !.packets = Tail(u.packets)]
    <3>1. unbinder' = [sock |-> u.sock, step |-> u.step, packets |-> Tail(u.packets),
                       thread |-> u.thread]
      BY <2>4, RecordOf DEF UnbinderShaped
    <3>2. Tail(u.packets) \in Seq(Packets) BY <1>0, <2>4, HeadTailProperties
    <3> QED BY <1>0, <2>2, <3>1, <3>2, UnbinderTo
  <2> QED BY <2>1, <2>3, <2>4, <1>1
<1>5. ASSUME UnbindWalk PROVE UnbinderShaped'
  <2>1. \/ unbinder' = [u EXCEPT !.step = "count", !.thread = nxt[u.thread]]
        \/ unbinder' = NoUnbind
    BY <1>5 DEF UnbindWalk
  <2>2. u.sock \in Sockets BY <1>0, <1>5 DEF UnbindWalk
  <2>3. CASE unbinder' = [u EXCEPT !.step = "count", !.thread = nxt[u.thread]]
    <3>1. unbinder' = [sock |-> u.sock, step |-> "count", packets |-> u.packets,
                       thread |-> nxt[u.thread]]
      BY <2>3, RecordOf DEF UnbinderShaped
    <3> QED BY <1>0, <2>2, <3>1, UnbinderTo
  <2> QED BY <2>1, <2>3, <1>1
<1>6. ASSUME UnbindCount PROVE UnbinderShaped'
  <2>1. unbinder' = [u EXCEPT !.step = "walk"] /\ u.sock \in Sockets
    BY <1>0, <1>6 DEF UnbindCount
  <2>2. unbinder' = [sock |-> u.sock, step |-> "walk", packets |-> u.packets,
                     thread |-> u.thread]
    BY <2>1, RecordOf DEF UnbinderShaped
  <2> QED BY <1>0, <2>1, <2>2, UnbinderTo
<1>7. CASE UNCHANGED unbinder
  BY <1>7 DEF UnbinderShaped
<1>8. \/ UNCHANGED unbinder \/ \E s \in Sockets : UnbindTable(s)
      \/ UnbindClear \/ UnbindFlush \/ UnbindWalk \/ UnbindCount
  BY DEF Next, vars, Create, Delete, Bind, ReceiveQueued, ReceiveWait, ReceiveExpires, Release,
     IsrReceive, IpReceive, DriverFind, DriverDrop, DriverDeliver
<1> QED BY <1>2, <1>3, <1>4, <1>5, <1>6, <1>7, <1>8

(* The queues, and what threads and drivers hold, keep their type.          *)
LEMMA HandsKeep ==
  ASSUME ReceiveAssumption, UnbinderShaped, HandsShaped, [Next]_vars
  PROVE  HandsShaped'
<1> USE DEF tableVars, queueVars, waitVars, packetVars
<1>1. ASSUME NEW s \in Sockets, Create(s) PROVE HandsShaped'
  BY <1>1 DEF Create, HandsShaped
<1>2. ASSUME NEW s \in Sockets, Delete(s) PROVE HandsShaped'
  BY <1>2 DEF Delete, HandsShaped
<1>3. ASSUME NEW s \in Sockets, NEW p \in Ports, Bind(s, p) PROVE HandsShaped'
  BY <1>3 DEF Bind, HandsShaped
<1>4. ASSUME NEW s \in Sockets, UnbindTable(s) PROVE HandsShaped'
  BY <1>4 DEF UnbindTable, HandsShaped
<1>5. ASSUME UnbindClear PROVE HandsShaped'
  <2>1. unbinder.sock \in Sockets BY <1>5 DEF UnbindClear, UnbinderShaped
  <2>2. queue' = queue \/ queue' = [queue EXCEPT ![unbinder.sock] = <<>>]
    BY <1>5 DEF UnbindClear
  <2>3. list' = list \/ list' = [list EXCEPT ![unbinder.sock] = None]
    BY <1>5 DEF UnbindClear
  <2>4. <<>> \in Seq(Packets) /\ UNCHANGED <<got, nxt, free, driver>>
    BY <1>5 DEF UnbindClear
  <2> QED BY <2>1, <2>2, <2>3, <2>4 DEF HandsShaped
<1>6. ASSUME UnbindFlush PROVE HandsShaped'
  <2>1. UNCHANGED <<queue, list, got, nxt, driver>>
    BY <1>6 DEF UnbindFlush
  <2>2. free' = free \/ (unbinder.packets # <<>> /\ free' = free \cup {Head(unbinder.packets)})
    BY <1>6 DEF UnbindFlush
  <2>3. unbinder.packets # <<>> => Head(unbinder.packets) \in Packets
    BY HeadTailProperties DEF UnbinderShaped
  <2> QED BY <2>1, <2>2, <2>3 DEF HandsShaped
<1>7. ASSUME UnbindWalk PROVE HandsShaped'
  BY <1>7 DEF UnbindWalk, HandsShaped
<1>8. ASSUME UnbindCount PROVE HandsShaped'
  BY <1>8 DEF UnbindCount, HandsShaped
<1>9. ASSUME NEW s \in Sockets, NEW t \in Threads, ReceiveQueued(t, s) PROVE HandsShaped'
  <2>1. Tail(queue[s]) \in Seq(Packets) /\ Head(queue[s]) \in Packets
    BY <1>9, HeadTailProperties DEF HandsShaped, ReceiveQueued
  <2> QED BY <1>9, <2>1 DEF ReceiveQueued, HandsShaped
<1>10. ASSUME NEW s \in Sockets, NEW t \in Threads, ReceiveWait(t, s) PROVE HandsShaped'
  BY <1>10 DEF ReceiveWait, Suspend, HandsShaped
<1>11. ASSUME NEW t \in Threads, ReceiveExpires(t) PROVE HandsShaped'
  BY <1>11 DEF ReceiveExpires, Leave, HandsShaped
<1>12. ASSUME NEW t \in Threads, Release(t) PROVE HandsShaped'
  BY <1>12 DEF Release, HandsShaped
<1>13. ASSUME NEW k \in Packets, NEW p \in Ports, IsrReceive(k, p) PROVE HandsShaped'
  <2>1. PICK s \in Sockets : Deliver(k, s) BY <1>13 DEF IsrReceive, Found, Ring
  <2> QED BY <1>13, <2>1, DeliverShaped DEF IsrReceive, HandsShaped
<1>14. ASSUME NEW k \in Packets, NEW p \in Ports, IpReceive(k, p) PROVE HandsShaped'
  <2>1. PICK s \in Sockets : Deliver(k, s) BY <1>14 DEF IpReceive, Found, Ring
  <2> QED BY <1>14, <2>1, DeliverShaped DEF IpReceive, HandsShaped
<1>15. ASSUME NEW k \in Packets, NEW p \in Ports, DriverFind(k, p) PROVE HandsShaped'
  BY <1>15 DEF DriverFind, HandsShaped, Found, Ring
<1>16. ASSUME DriverDrop PROVE HandsShaped'
  BY <1>16 DEF DriverDrop, HandsShaped
<1>17. ASSUME DriverDeliver PROVE HandsShaped'
  <2>1. driver.packet \in Packets /\ driver.sock \in Sockets BY <1>17 DEF DriverDeliver, HandsShaped
  <2>2. Deliver(driver.packet, driver.sock) BY <1>17 DEF DriverDeliver
  <2> QED BY <1>17, <2>1, <2>2, DeliverShaped DEF DriverDeliver, HandsShaped
<1>18. ASSUME UNCHANGED vars PROVE HandsShaped'
  BY <1>18 DEF vars, HandsShaped
<1> QED BY <1>1, <1>2, <1>3, <1>4, <1>5, <1>6, <1>7, <1>8, <1>9, <1>10, <1>11, <1>12,
           <1>13, <1>14, <1>15, <1>16, <1>17, <1>18 DEF Next

(* Both together.                                                           *)
LEMMA ShapedKeeps ==
  ASSUME ReceiveAssumption, Shaped, [Next]_vars
  PROVE  Shaped'
BY UnbinderKeeps, HandsKeep DEF Shaped
-----------------------------------------------------------------------------
(* A step that leaves the lines alone, and one that clears some.            *)
LEMMA LinesSame ==
  ASSUME UNCHANGED queue, unbinder'.packets = unbinder.packets
  PROVE  Lines' = Lines
BY DEF Lines

LEMMA LinesCleared ==
  ASSUME ReceiveAssumption, Shaped, Once(Lines), unbinder'.packets \in {<<>>, unbinder.packets},
         \A s \in Sockets : queue'[s] \in {<<>>, queue[s]}
  PROVE  Once(Lines') /\ \A k : Within(Lines', k) => Within(Lines, k)
<1> DEFINE D == Sockets \cup {None}
<1>1. Lines \in [D -> Seq(Packets)]
  BY LinesAre
<1>2. DOMAIN Lines' = D /\ \A z \in D : Lines'[z] \in {Lines[z], <<>>}
  BY DEF Lines
<1> QED BY <1>1, <1>2, ClearOnce

(* A packet leaves a line for the hands of a thread, or for the pool.       *)
LEMMA ReceiveQueuedApart ==
  ASSUME ReceiveAssumption, Shaped, Apart, NEW t \in Threads, NEW s \in Sockets, ReceiveQueued(t, s)
  PROVE  Apart' /\ (Accounted => Accounted')
<1> DEFINE D == Sockets \cup {None}
           k == Head(queue[s])
<1>1. Lines \in [D -> Seq(Packets)] /\ Lines[s] = queue[s] /\ s \in D /\ s # None
      /\ Lines[s] # <<>>
  BY LinesAre DEF ReceiveQueued
<1>2. Lines' = Taken(Lines, s)
  <2>1. queue' = [queue EXCEPT ![s] = Tail(queue[s])] /\ UNCHANGED unbinder
    BY DEF ReceiveQueued
  <2>2. Lines' = [Lines EXCEPT ![s] = Tail(Lines[s])]
    BY <2>1, <1>1 DEF Lines, Shaped, HandsShaped
  <2> QED BY <2>2 DEF Taken
<1>3. /\ Once(Lines') /\ k \in Packets /\ Within(Lines, k)
      /\ \A m : Within(Lines', m) <=> Within(Lines, m) /\ m # k
  BY <1>1, <1>2, LinesAre, TailOnce DEF Apart
<1>4. /\ got \in [Threads -> Packets \cup {None}] /\ got' = [got EXCEPT ![t] = k]
      /\ got[t] = None /\ UNCHANGED <<free, driver>> /\ None \notin Packets
  BY DEF ReceiveQueued, packetVars, Shaped, HandsShaped, ReceiveAssumption
<1> HIDE DEF k
<1>5. Apart'
  BY <1>3, <1>4 DEF Apart
<1>6. Accounted => Accounted'
  BY <1>3, <1>4 DEF Accounted
<1> QED BY <1>5, <1>6

(* No step puts a packet into two hands: first those of unbind, which takes *)
(* a queue.                                                                 *)
LEMMA UnbindFlushApart ==
  ASSUME ReceiveAssumption, Shaped, Apart, UnbindFlush
  PROVE  /\ Apart'
         /\ Accounted /\ (count[unbinder.sock] = 0 => unbinder.packets = <<>>) => Accounted'
<1> DEFINE D == Sockets \cup {None}
           k == Head(unbinder.packets)
           q == unbinder.packets
<1>1. Lines \in [D -> Seq(Packets)] /\ Lines[None] = q /\ None \in D
  BY LinesAre
<1>2. UNCHANGED <<queue, got, driver>>
  BY DEF UnbindFlush, queueVars
<1>3. CASE count[unbinder.sock] = 0
  <2>1. unbinder' = NoUnbind /\ UNCHANGED free
    BY <1>3 DEF UnbindFlush
  <2>2. unbinder'.packets = <<>> BY <2>1 DEF NoUnbind
  <2>3. Once(Lines') /\ \A m : Within(Lines', m) => Within(Lines, m)
    BY <1>2, <2>2, LinesCleared DEF Apart
  <2>4. q = <<>> => Lines' = Lines BY <1>2, <2>2, LinesSame
  <2>5. q = <<>> => (Accounted => Accounted')
    BY <1>2, <2>1, <2>4, SameHands
  <2> QED BY <1>2, <1>3, <2>1, <2>3, <2>5, FewerHands
<1>4. CASE count[unbinder.sock] # 0 /\ q = <<>>
  <2>1. UNCHANGED free /\ unbinder' = [unbinder EXCEPT !.step = "fault"]
    BY <1>4 DEF UnbindFlush
  <2>2. unbinder'.packets = unbinder.packets BY <2>1 DEF Shaped, UnbinderShaped
  <2>3. Lines' = Lines BY <1>2, <2>2, LinesSame
  <2> QED BY <1>2, <2>1, <2>3, SameHands
<1>5. CASE count[unbinder.sock] # 0 /\ q # <<>>
  <2>1. free' = free \cup {k} /\ unbinder' = [unbinder EXCEPT !.packets = Tail(q)]
    BY <1>5 DEF UnbindFlush
  <2>2. unbinder'.packets = Tail(q) BY <2>1 DEF Shaped, UnbinderShaped
  <2>3. Lines' = Taken(Lines, None)
    <3>1. Lines' = [Lines EXCEPT ![None] = Tail(Lines[None])]
      BY <1>1, <1>2, <2>2 DEF Lines, ReceiveAssumption
    <3> QED BY <3>1 DEF Taken
  <2>4. /\ Once(Lines') /\ k \in Packets /\ Within(Lines, k)
        /\ \A m : Within(Lines', m) <=> Within(Lines, m) /\ m # k
    BY <1>1, <1>5, <2>3, LinesAre, TailOnce DEF Apart
  <2> HIDE DEF k
  <2>5. Apart'
    BY <2>1, <2>4, <1>2 DEF Apart
  <2>6. Accounted => Accounted'
    BY <2>1, <2>4, <1>2 DEF Accounted
  <2> QED BY <2>5, <2>6
<1> QED BY <1>3, <1>4, <1>5

LEMMA UnbindClearApart ==
  ASSUME ReceiveAssumption, Shaped, Apart, UnbindClear
  PROVE  Apart' /\ (Accounted /\ unbinder.packets = <<>> => Accounted')
<1> DEFINE D == Sockets \cup {None}
           s == unbinder.sock
<1>1. /\ Lines \in [D -> Seq(Packets)] /\ Lines[None] = unbinder.packets /\ None \in D
      /\ s \in Sockets /\ s \in D /\ s # None /\ Lines[s] = queue[s]
  BY LinesAre DEF UnbindClear, Shaped, UnbinderShaped
<1>2. UNCHANGED <<got, free, driver>>
  BY DEF UnbindClear, packetVars
<1>3. CASE count[s] > 0
  <2>1. /\ unbinder' = [unbinder EXCEPT !.step = "flush", !.packets = queue[s]]
        /\ queue' = [queue EXCEPT ![s] = <<>>]
    BY <1>3 DEF UnbindClear
  <2>2. unbinder'.packets = queue[s] BY <2>1, RecordOf DEF Shaped, UnbinderShaped
  <2>3. Lines' = Moved(Lines, s, None)
    <3>1. Lines' = [Lines EXCEPT ![s] = <<>>, ![None] = Lines[s]]
      BY <1>1, <2>1, <2>2 DEF Lines, Shaped, HandsShaped
    <3> QED BY <3>1 DEF Moved
  <2>4. /\ Once(Lines') /\ \A m : Within(Lines', m) => Within(Lines, m)
        /\ Lines[None] = <<>> => \A m : Within(Lines, m) => Within(Lines', m)
    BY <1>1, <2>3, LinesAre, MoveOnce DEF Apart
  <2> QED BY <1>1, <1>2, <2>4, FewerHands, SameAccounted
<1>4. CASE ~ (count[s] > 0)
  <2>1. UNCHANGED queue BY <1>4 DEF UnbindClear
  <2>2. \/ unbinder' = [unbinder EXCEPT !.step = "walk", !.thread = list[s]]
        \/ unbinder' = NoUnbind
    BY <1>4 DEF UnbindClear
  <2>3. unbinder'.packets \in {<<>>, unbinder.packets}
    <3>1. CASE unbinder' = NoUnbind
      BY <3>1 DEF NoUnbind
    <3>2. CASE unbinder' = [unbinder EXCEPT !.step = "walk", !.thread = list[s]]
      <4>1. unbinder' = [sock |-> s, step |-> "walk", packets |-> unbinder.packets,
                         thread |-> list[s]]
        BY <3>2, RecordOf DEF Shaped, UnbinderShaped
      <4> QED BY <4>1
    <3> QED BY <2>2, <3>1, <3>2
  <2>4. Once(Lines') /\ \A m : Within(Lines', m) => Within(Lines, m)
    BY <2>1, <2>3, LinesCleared DEF Apart
  <2>5. unbinder.packets = <<>> => Lines' = Lines
    BY <2>1, <2>3, LinesSame
  <2> QED BY <1>2, <2>4, <2>5, FewerHands, SameHands
<1> QED BY <1>3, <1>4

(* No line changed, but some may have been cleared.                         *)
LEMMA ClearedApart ==
  ASSUME ReceiveAssumption, Shaped, Apart, UNCHANGED <<got, free, driver>>,
         unbinder'.packets \in {<<>>, unbinder.packets},
         \A s \in Sockets : queue'[s] \in {<<>>, queue[s]}
  PROVE  /\ Apart'
         /\ /\ Accounted /\ unbinder'.packets = unbinder.packets
            /\ \A s \in Sockets : queue'[s] = queue[s]
            => Accounted'
<1>1. Once(Lines') /\ \A k : Within(Lines', k) => Within(Lines, k)
  BY LinesCleared DEF Apart
<1>2. ASSUME unbinder'.packets = unbinder.packets, \A s \in Sockets : queue'[s] = queue[s]
      PROVE  Accounted => Accounted'
  <2>1. Lines' = Lines BY <1>2 DEF Lines
  <2> QED BY <2>1, SameHands
<1> QED BY <1>1, <1>2, FewerHands

(* A thread gives a packet back; a driver's thread takes one, or drops it.  *)
LEMMA ReleaseApart ==
  ASSUME ReceiveAssumption, Shaped, Apart, NEW t \in Threads, Release(t)
  PROVE  Apart' /\ (Accounted => Accounted')
<1> DEFINE k == got[t]
<1>1. /\ got \in [Threads -> Packets \cup {None}] /\ None \notin Packets
      /\ k # None /\ free' = free \cup {k} /\ got' = [got EXCEPT ![t] = None]
      /\ UNCHANGED <<queue, unbinder, driver>>
  BY DEF Release, queueVars, Shaped, HandsShaped, ReceiveAssumption
<1>2. Lines' = Lines /\ \A m : Within(Lines, m)' <=> Within(Lines, m)
  BY <1>1 DEF Lines, Within
<1>3. Once(Lines') /\ k \notin free /\ ~ Within(Lines, k)
      /\ \A u \in Threads : got[u] = k => u = t
  BY <1>1, <1>2 DEF Apart
<1>4. \A u \in Threads : got'[u] # None => got'[u] = got[u] /\ got[u] # k
  BY <1>1, <1>3
<1>5. driver' # None => driver'.packet # k
  BY <1>1 DEF Apart
<1>6. \A m \in free' : ~ Within(Lines', m)
  BY <1>1, <1>2, <1>3 DEF Apart
<1>7. \A u \in Threads :
        got'[u] # None =>
          /\ got'[u] \notin free' /\ ~ Within(Lines', got'[u])
          /\ \A v \in Threads : got'[v] = got'[u] => v = u
  BY <1>1, <1>2, <1>4 DEF Apart
<1>8. driver' # None =>
        /\ driver'.packet \notin free' /\ ~ Within(Lines', driver'.packet)
        /\ \A u \in Threads : got'[u] # driver'.packet
  <2> SUFFICES ASSUME driver' # None
               PROVE  /\ driver'.packet \notin free' /\ ~ Within(Lines', driver'.packet)
                      /\ \A u \in Threads : got'[u] # driver'.packet
    OBVIOUS
  <2>1. driver'.packet \in Packets /\ driver' = driver
    BY <1>1 DEF Shaped, HandsShaped
  <2> QED BY <1>1, <1>2, <1>4, <1>5, <2>1 DEF Apart
<1>9. Apart'
  BY <1>3, <1>6, <1>7, <1>8 DEF Apart
<1>10. Accounted => Accounted'
  BY <1>1, <1>2, <1>3 DEF Accounted
<1> QED BY <1>9, <1>10

LEMMA DriverFindApart ==
  ASSUME ReceiveAssumption, Shaped, Apart, NEW k \in Packets, NEW p \in Ports, DriverFind(k, p)
  PROVE  Apart'
<1>1. /\ k \in free /\ driver'.packet = k /\ free' = free \ {k}
      /\ UNCHANGED <<queue, unbinder, got>> /\ None \notin Packets
  BY DEF DriverFind, queueVars, Shaped, HandsShaped, ReceiveAssumption
<1>2. Lines' = Lines /\ \A m : Within(Lines, m)' <=> Within(Lines, m)
  BY <1>1 DEF Lines, Within
<1>3. Once(Lines') /\ ~ Within(Lines, k) /\ \A t \in Threads : got[t] # k
  BY <1>1, <1>2 DEF Apart
<1> QED BY <1>1, <1>2, <1>3 DEF Apart

LEMMA DriverDropApart ==
  ASSUME ReceiveAssumption, Shaped, Apart, DriverDrop
  PROVE  Apart'
<1> DEFINE k == driver.packet
<1>1. /\ driver # None /\ driver' = None /\ free' = free \cup {k}
      /\ UNCHANGED <<queue, unbinder, got>>
  BY DEF DriverDrop, queueVars
<1>2. Lines' = Lines /\ \A m : Within(Lines, m)' <=> Within(Lines, m)
  BY <1>1 DEF Lines, Within
<1>3. Once(Lines') /\ ~ Within(Lines, k) /\ k \notin free /\ \A t \in Threads : got[t] # k
  BY <1>1, <1>2 DEF Apart
<1> QED BY <1>1, <1>2, <1>3 DEF Apart

(* A delivery of a packet that was in the driver's hands, or in the pool.   *)
LEMMA DeliverApart ==
  ASSUME ReceiveAssumption, Shaped, Apart, NEW k \in Packets, NEW s \in Sockets, Deliver(k, s),
         UNCHANGED unbinder,
         \/ k \in free /\ UNCHANGED driver
         \/ driver # None /\ k = driver.packet /\ driver' = None
  PROVE  Apart' /\ (Accounted /\ (list[s] # None => got[list[s]] = None) => Accounted')
<1> DEFINE D == Sockets \cup {None}
<1>1. Lines \in [D -> Seq(Packets)] /\ Lines[s] = queue[s] /\ s \in D /\ s # None
  BY LinesAre
<1>2. /\ Once(Lines) /\ ~ Within(Lines, k) /\ \A t \in Threads : got[t] # k
      /\ driver' # None => driver' = driver /\ driver.packet # k
      /\ got \in [Threads -> Packets \cup {None}] /\ None \notin Packets
      /\ queue \in [Sockets -> Seq(Packets)]
  BY DEF Apart, Shaped, HandsShaped, ReceiveAssumption
<1>3. CASE list[s] = None
  <2> DEFINE full == queue[s] # <<>> /\ count[s] + 1 > QueueMaximum
             all == Append(queue[s], k)
             L1 == Put(Lines, s, k)
  <2>1. /\ queue' = [queue EXCEPT ![s] = IF full THEN Tail(all) ELSE all]
        /\ free' = (free \ {k}) \cup (IF full THEN {Head(all)} ELSE {})
        /\ UNCHANGED got
    BY <1>3 DEF Deliver, Queued
  <2>2. Once(L1) /\ \A m : Within(L1, m) <=> Within(Lines, m) \/ m = k
    BY <1>1, <1>2, LinesAre, AppendOnce
  <2>3. CASE ~ full
    <3>1. queue' = [queue EXCEPT ![s] = all] /\ free' = free \ {k}
      BY <2>1, <2>3
    <3>2. Lines' = L1
      <4> HIDE DEF full, all
      <4>1. Lines' = [Lines EXCEPT ![s] = all]
        BY <1>1, <1>2, <3>1 DEF Lines
      <4> QED BY <4>1, <1>1 DEF all, Put
    <3> HIDE DEF L1, all, full
    <3>3. Apart'
      BY <1>2, <2>1, <2>2, <3>1, <3>2 DEF Apart
    <3>4. Accounted => Accounted'
      BY <1>2, <2>1, <2>2, <3>1, <3>2 DEF Accounted
    <3> QED BY <3>3, <3>4
  <2>4. CASE full
    <3> DEFINE h == Head(all)
               L2 == Taken(L1, s)
    <3>1. queue' = [queue EXCEPT ![s] = Tail(all)] /\ free' = (free \ {k}) \cup {h}
      BY <2>1, <2>4
    <3>2. /\ L1 \in [D -> Seq(Packets)] /\ LineSet(L1) /\ L1[s] = all /\ L1[s] # <<>>
          /\ h = Head(queue[s])
      <4>1. all \in Seq(Packets) /\ Len(all) = Len(queue[s]) + 1 /\ all # <<>>
        BY <1>2
      <4>2. Len(queue[s]) \in Nat /\ Len(queue[s]) # 0 BY <1>2, <2>4
      <4>3. all[1] = queue[s][1] BY <1>2, <4>2
      <4> QED BY <1>1, <1>2, <4>1, <4>2, <4>3 DEF Put, LineSet
    <3>3. Lines' = L2
      <4> HIDE DEF full, all, L1
      <4>1. Lines' = [Lines EXCEPT ![s] = Tail(all)]
        BY <1>1, <1>2, <3>1 DEF Lines
      <4>2. L2 = [Lines EXCEPT ![s] = Tail(all)]
        BY <1>1, <3>2 DEF L1, Put, Taken
      <4> QED BY <4>1, <4>2
    <3>4. /\ Once(L2) /\ Within(L1, h)
          /\ \A m : Within(L2, m) <=> Within(L1, m) /\ m # h
      <4> HIDE DEF L1, all, full
      <4> QED BY <1>1, <2>2, <3>2, TailOnce
    <3>5. h # k /\ Within(Lines, h)
      <4>1. /\ Len(queue[s]) \in Nat /\ Len(queue[s]) # 0 /\ Lines[s][1] = h
            /\ DOMAIN Lines = D
        BY <1>1, <1>2, <2>4, <3>2
      <4>2. 1 \in 1..Len(Lines[s]) BY <1>1, <4>1
      <4> HIDE DEF h, D
      <4>3. Within(Lines, h) BY <1>1, <4>1, <4>2 DEF Within
      <4> QED BY <1>2, <4>3
    <3> HIDE DEF L1, L2, all, full, h
    <3>6. \A m : Within(Lines', m) <=> (Within(Lines, m) \/ m = k) /\ m # h
      BY <2>2, <3>3, <3>4
    <3>7. Apart'
      BY <1>2, <2>1, <3>1, <3>3, <3>4, <3>5, <3>6 DEF Apart
    <3>8. Accounted => Accounted'
      BY <1>2, <2>1, <3>1, <3>5, <3>6 DEF Accounted
    <3> QED BY <3>7, <3>8
  <2> QED BY <2>3, <2>4
<1>4. CASE list[s] # None
  <2> DEFINE t == list[s]
  <2>1. /\ t \in Threads /\ got' = [got EXCEPT ![t] = k] /\ free' = free \ {k}
        /\ UNCHANGED queue
    BY <1>4 DEF Deliver, queueVars, Shaped, HandsShaped
  <2> HIDE DEF t
  <2>2. Lines' = Lines /\ \A m : Within(Lines, m)' <=> Within(Lines, m)
    BY <2>1 DEF Lines, Within
  <2>3. Once(Lines') BY <1>2, <2>2
  <2>4. Apart'
    BY <1>2, <2>1, <2>2, <2>3 DEF Apart
  <2>5. Accounted /\ got[t] = None => Accounted'
    BY <1>2, <2>1, <2>2 DEF Accounted
  <2> QED BY <2>4, <2>5, <1>4 DEF t
<1> QED BY <1>3, <1>4

(* So no step does.                                                         *)
LEMMA ApartKeeps ==
  ASSUME ReceiveAssumption, Shaped, Apart, [Next]_vars
  PROVE  Apart'
<1> USE DEF queueVars, packetVars
<1>1. ASSUME UNCHANGED <<queue, got, free, driver, unbinder>> PROVE Apart'
  BY <1>1, ClearedApart
<1>2. ASSUME NEW s \in Sockets, Create(s) PROVE Apart'
  <2>1. queue' = [queue EXCEPT ![s] = <<>>] /\ UNCHANGED <<got, free, driver, unbinder>>
    BY <1>2 DEF Create
  <2>2. \A z \in Sockets : queue'[z] \in {<<>>, queue[z]}
    BY <2>1 DEF Shaped, HandsShaped
  <2> QED BY <2>1, <2>2, ClearedApart
<1>3. ASSUME NEW s \in Sockets, Delete(s) PROVE Apart'
  BY <1>1, <1>3 DEF Delete
<1>4. ASSUME NEW s \in Sockets, NEW p \in Ports, Bind(s, p) PROVE Apart'
  BY <1>1, <1>4 DEF Bind
<1>5. ASSUME NEW s \in Sockets, UnbindTable(s) PROVE Apart'
  <2>1. unbinder'.packets = <<>> /\ UNCHANGED <<queue, got, free, driver>>
    BY <1>5 DEF UnbindTable, NoUnbind
  <2> QED BY <2>1, ClearedApart
<1>6. ASSUME UnbindWalk \/ UnbindCount PROVE Apart'
  <2>1. UNCHANGED <<queue, got, free, driver>>
    BY <1>6 DEF UnbindWalk, UnbindCount
  <2>2. \/ unbinder' = [unbinder EXCEPT !.step = "count", !.thread = nxt[unbinder.thread]]
        \/ unbinder' = NoUnbind \/ unbinder' = [unbinder EXCEPT !.step = "walk"]
    BY <1>6 DEF UnbindWalk, UnbindCount
  <2>3. CASE unbinder' = NoUnbind
    <3>1. unbinder'.packets = <<>> BY <2>3 DEF NoUnbind
    <3> QED BY <2>1, <3>1, ClearedApart
  <2>4. CASE unbinder' = [unbinder EXCEPT !.step = "walk"]
    <3>1. unbinder'.packets = unbinder.packets
      BY <2>4 DEF Shaped, UnbinderShaped
    <3> QED BY <2>1, <3>1, ClearedApart
  <2>5. CASE unbinder' = [unbinder EXCEPT !.step = "count", !.thread = nxt[unbinder.thread]]
    <3>1. unbinder' = [sock |-> unbinder.sock, step |-> "count", packets |-> unbinder.packets,
                       thread |-> nxt[unbinder.thread]]
      BY <2>5, RecordOf DEF Shaped, UnbinderShaped
    <3>2. unbinder'.packets = unbinder.packets
      BY <3>1
    <3> QED BY <2>1, <3>2, ClearedApart
  <2> QED BY <2>2, <2>3, <2>4, <2>5
<1>7. ASSUME NEW t \in Threads, NEW s \in Sockets, ReceiveWait(t, s) PROVE Apart'
  BY <1>1, <1>7 DEF ReceiveWait
<1>8. ASSUME NEW t \in Threads, ReceiveExpires(t) PROVE Apart'
  BY <1>1, <1>8 DEF ReceiveExpires
<1>9. ASSUME NEW k \in Packets, NEW p \in Ports, IsrReceive(k, p) \/ IpReceive(k, p) PROVE Apart'
  <2>1. PICK s \in Sockets : Deliver(k, s) /\ k \in free /\ UNCHANGED <<unbinder, driver>>
    BY <1>9 DEF IsrReceive, IpReceive, Found, Ring
  <2> QED BY <2>1, DeliverApart
<1>10. ASSUME DriverDeliver PROVE Apart'
  <2>1. driver.packet \in Packets /\ driver.sock \in Sockets
    BY <1>10 DEF DriverDeliver, Shaped, HandsShaped
  <2>2. Deliver(driver.packet, driver.sock) /\ UNCHANGED unbinder /\ driver # None /\ driver' = None
    BY <1>10 DEF DriverDeliver
  <2> QED BY <2>1, <2>2, DeliverApart
<1>11. ASSUME UNCHANGED vars PROVE Apart'
  BY <1>1, <1>11 DEF vars
<1> QED BY <1>2, <1>3, <1>4, <1>5, <1>6, <1>7, <1>8, <1>9, <1>10, <1>11, UnbindClearApart,
           UnbindFlushApart, ReceiveQueuedApart, ReleaseApart, DriverFindApart, DriverDropApart
       DEF Next

-----------------------------------------------------------------------------
(* A packet that is in no two hands has at most one place.                  *)
LEMMA OnePlace ==
  ASSUME ReceiveAssumption, Shaped, Apart, NEW k \in Packets
  PROVE  Cardinality(Places(k)) <= 1 /\ (Accounted => Cardinality(Places(k)) = 1)
<1> DEFINE InQueues == UNION {{<<"queue", s, n>> : n \in At(queue[s], k)} : s \in Sockets}
           InUnbind == {<<"unbind", n>> : n \in At(unbinder.packets, k)}
           InThreads == {<<"thread", t>> : t \in {u \in Threads : got[u] = k}}
           InPool == {<<"pool", m>> : m \in free \cap {k}}
           InDriver ==
             IF driver = None THEN {} ELSE {<<"driver", m>> : m \in {driver.packet} \cap {k}}
<1>1. Places(k) = InQueues \cup InUnbind \cup InThreads \cup InPool \cup InDriver
  BY DEF Places
<1>2. k # None BY DEF ReceiveAssumption
<1>5. Cardinality({}) = 0 /\ \A x : Cardinality({x}) = 1
  BY FS_EmptySet, FS_Singleton
<1>3. CASE Within(Lines, k)
  <2>1. PICK x \in Sockets \cup {None} : \E i \in 1..Len(Lines[x]) : Lines[x][i] = k
    BY <1>3 DEF Within, Lines
  <2>2. PICK i \in 1..Len(Lines[x]) : Lines[x][i] = k
    BY <2>1
  <2>3. \A y \in Sockets \cup {None} : \A j \in 1..Len(Lines[y]) : Lines[y][j] = k => y = x /\ j = i
    <3>1. Once(Lines) /\ DOMAIN Lines = Sockets \cup {None} BY DEF Apart, Lines
    <3> QED BY <2>1, <2>2, <3>1 DEF Once
  <2>4. InThreads = {} /\ InPool = {} /\ InDriver = {}
    BY <1>2, <1>3 DEF Apart
  <2>5. CASE x = None
    <3>1. At(unbinder.packets, k) = {i}
      BY <2>2, <2>3, <2>5, LinesAre DEF At
    <3>2. \A s \in Sockets : At(queue[s], k) = {}
      BY <2>3, <2>5, LinesAre DEF At
    <3>3. InUnbind = {<<"unbind", i>>} BY <3>1
    <3>4. InQueues = {} BY <3>2
    <3>5. Places(k) = {<<"unbind", i>>} BY <1>1, <2>4, <3>3, <3>4
    <3>9. Cardinality(Places(k)) = 1 BY <3>5, <1>5, Zenon
    <3> QED BY <3>9
  <2>6. CASE x # None
    <3>1. At(unbinder.packets, k) = {}
      BY <2>3, <2>6, LinesAre DEF At
    <3>2. x \in Sockets /\ At(queue[x], k) = {i} /\ \A s \in Sockets : s # x => At(queue[s], k) = {}
      BY <2>1, <2>2, <2>3, <2>6, LinesAre DEF At
    <3>3. InUnbind = {} BY <3>1
    <3>6. \A e : e \in InQueues => e = <<"queue", x, i>> BY <3>2
    <3>7. <<"queue", x, i>> \in InQueues BY <3>2
    <3>4. InQueues = {<<"queue", x, i>>} BY <3>6, <3>7
    <3>5. Places(k) = {<<"queue", x, i>>} BY <1>1, <2>4, <3>3, <3>4
    <3>9. Cardinality(Places(k)) = 1 BY <3>5, <1>5, Zenon
    <3> QED BY <3>9
  <2> QED BY <2>5, <2>6
<1>4. CASE ~ Within(Lines, k)
  <2>1. InQueues = {} /\ InUnbind = {}
    <3>1. \A y \in Sockets \cup {None} : \A j \in 1..Len(Lines[y]) : Lines[y][j] # k
      BY <1>4 DEF Within, Lines
    <3>2. At(unbinder.packets, k) = {} /\ \A s \in Sockets : At(queue[s], k) = {}
      BY <3>1, LinesAre DEF At
    <3> QED BY <3>2
  <2>2. CASE \E t \in Threads : got[t] = k
    <3>1. PICK t \in Threads : got[t] = k BY <2>2
    <3>2. {u \in Threads : got[u] = k} = {t} /\ k \notin free /\ (driver # None => driver.packet # k)
      BY <1>2, <3>1 DEF Apart
    <3>3. InThreads = {<<"thread", t>>} /\ InPool = {} /\ InDriver = {} BY <3>2
    <3>4. Places(k) = {<<"thread", t>>} BY <1>1, <2>1, <3>3
    <3>9. Cardinality(Places(k)) = 1 BY <3>4, <1>5, Zenon
    <3> QED BY <3>9
  <2>3. CASE ~ (\E t \in Threads : got[t] = k)
    <3>1. {u \in Threads : got[u] = k} = {} BY <2>3
    <3>2. InThreads = {} BY <3>1
    <3>3. CASE k \in free
      <4>1. driver # None => driver.packet # k BY <3>3 DEF Apart
      <4>2. InPool = {<<"pool", k>>} /\ InDriver = {} BY <3>3, <4>1
      <4>3. Places(k) = {<<"pool", k>>} BY <1>1, <2>1, <3>2, <4>2
      <4>4. Cardinality(Places(k)) = 1 BY <4>3, <1>5, Zenon
      <4> QED BY <4>4
    <3>4. CASE k \notin free
      <4>1. InPool = {} BY <3>4
      <4>2. ~ Accounted BY <1>4, <2>3, <3>4 DEF Accounted
      <4>3. InDriver = {} \/ InDriver = {<<"driver", k>>} OBVIOUS
      <4>4. Places(k) = {} \/ Places(k) = {<<"driver", k>>}
        BY <1>1, <2>1, <3>2, <4>1, <4>3
      <4>5. Cardinality(Places(k)) = 0 \/ Cardinality(Places(k)) = 1
        BY <4>4, <1>5, Zenon
      <4> QED BY <4>2, <4>5
    <3> QED BY <3>3, <3>4
  <2> QED BY <2>2, <2>3
<1> QED BY <1>3, <1>4

(* At first all packets are in the pool.                                    *)
LEMMA InitShaped == ASSUME ReceiveAssumption, Init PROVE Shaped /\ Apart
<1>1. Shaped
  BY DEF Init, Shaped, HandsShaped, UnbinderShaped, NoUnbind
<1>2. Lines = [x \in Sockets \cup {None} |-> <<>>]
  BY DEF Init, Lines, NoUnbind, ReceiveAssumption
<1>3. Once(Lines) /\ \A k : ~ Within(Lines, k)
  BY <1>2 DEF Once, Within
<1> QED BY <1>1, <1>3 DEF Apart, Init

(* Whatever a driver's thread delivers to, no packet is handed out twice.   *)
THEOREM DatagramsOnce == ASSUME ReceiveAssumption PROVE Spec => []NeverTwice
<1>1. Init => Shaped /\ Apart
  BY InitShaped
<1>2. Shaped /\ Apart /\ [Next]_vars => (Shaped /\ Apart)'
  BY ShapedKeeps, ApartKeeps
<1>3. Shaped /\ Apart => NeverTwice
  BY OnePlace DEF NeverTwice
<1> QED BY <1>1, <1>2, <1>3, PTL DEF Spec

-----------------------------------------------------------------------------
(* From here on packets come from the IP thread, which holds the mutex, or  *)
(* from an interrupt, and a waiter that unbind resumes, or a time-out, runs *)
(* when unbind is over.  A driver's thread may deliver to a socket that was *)
(* unbound since it was found (nx_udp_packet_receive.c:352), and a resumed  *)
(* waiter may wait again before unbind's count is used up                   *)
(* (nx_udp_socket_unbind.c:336-339): then the invariant does not hold.      *)
Calm == ReceiveAssumption /\ DriverThread = FALSE /\ PreemptUnbind = FALSE

(* The types of the invariant give the shape that Apart needs.              *)
LEMMA TypedShaped ==
  ASSUME Typed, UnbindGoesOn
  PROVE  Shaped
<1>1. HandsShaped
  BY DEF Typed, TypeOK, HandsShaped
<1>2. unbinder.step # "none" => unbinder.sock \in Sockets
  BY DEF Typed, TypeOK, UnbindGoesOn
<1>3. unbinder \in [sock : Sockets \cup {None},
                    step : {"none", "table", "flush", "walk", "count"},
                    packets : Seq(Packets), thread : Threads \cup {None}]
  BY DEF Typed
<1>4. /\ unbinder = [sock |-> unbinder.sock, step |-> unbinder.step,
                     packets |-> unbinder.packets, thread |-> unbinder.thread]
      /\ unbinder.sock \in Sockets \cup {None} /\ unbinder.packets \in Seq(Packets)
      /\ unbinder.step \in {"none", "table", "flush", "walk", "count"}
  BY <1>3
<1>5. unbinder \in [sock : Sockets \cup {None},
                    step : {"none", "table", "flush", "walk", "count", "fault"},
                    packets : Seq(Packets), thread : {unbinder.thread}]
  BY <1>4
<1> QED BY <1>1, <1>2, <1>5 DEF Shaped, UnbinderShaped

(* Who searches the table finds bound sockets, and every one of them.       *)
LEMMA RingIsBound ==
  ASSUME ReceiveAssumption, TypeOK, TableLinked
  PROVE  Ring = BoundSockets /\ TableTrue
<1>1. /\ BoundSockets \subseteq Sockets /\ None \notin Sockets
      /\ \A s \in BoundSockets : bnext[s] \in BoundSockets
      /\ \A s \in Sockets : bnext[s] # None <=> s \in BoundSockets
  BY DEF TableLinked, Cyclic, BoundSockets, Bound, ReceiveAssumption
<1>2. Passes(BoundSockets)
  BY <1>1 DEF Passes, TableLinked
<1>3. Ring \subseteq BoundSockets
  BY <1>1, <1>2 DEF Ring
<1>4. ASSUME NEW s \in BoundSockets, NEW S \in SUBSET Sockets, Passes(S)
      PROVE  s \in S
  <2> DEFINE X == S \cap BoundSockets
  <2>1. table \in X
    BY <1>1, <1>4 DEF Passes, TableLinked
  <2>2. \A x \in X : bnext[x] \in X
    BY <1>1, <1>4 DEF Passes
  <2>3. X = BoundSockets
    <3> HIDE DEF X
    <3>1. X \in SUBSET BoundSockets BY DEF X
    <3> QED BY <2>1, <2>2, <3>1 DEF TableLinked, Cyclic
  <2> QED BY <2>3
<1>5. Ring = BoundSockets
  BY <1>1, <1>3, <1>4 DEF Ring
<1>6. \A s \in BoundSockets : bprev[bnext[s]] = s /\ bnext[bprev[s]] = s
  BY DEF TableLinked, Cyclic
<1> QED BY <1>5, <1>6 DEF TableTrue, BoundSockets

(* Nothing moved but, perhaps, the entry to another bound socket.           *)
LEMMA TableSame ==
  ASSUME TableLinked, UNCHANGED <<bnext, bprev, port>>, BoundSockets \subseteq created',
         table' \in BoundSockets \cup {table}
  PROVE  TableLinked' /\ BoundSockets' = BoundSockets
<1>1. BoundSockets' = BoundSockets
  BY DEF BoundSockets, Bound
<1> QED BY <1>1 DEF TableLinked, Cyclic

(* A socket that binds joins the ring of the port table, at its end.        *)
LEMMA BindLinked ==
  ASSUME ReceiveAssumption, TypeOK, TableLinked, NEW s \in Sockets, NEW p \in Ports, Bind(s, p)
  PROVE  TableLinked' /\ BoundSockets' = BoundSockets \cup {s}
<1> DEFINE W == BoundSockets
           D == Sockets \cup {None}
<1>1. /\ W \subseteq Sockets /\ None \notin Sockets /\ s \notin W /\ s \in created
      /\ bnext \in [Sockets -> D] /\ bprev \in [Sockets -> D] /\ created' = created
      /\ \A x \in Sockets : bnext[x] # None <=> x \in W
      /\ \A x \in W : bnext[x] \in W /\ bprev[x] \in W
  BY DEF TypeOK, TableLinked, Cyclic, BoundSockets, Bound, Bind, ReceiveAssumption
<1>2. \A x \in W \cup {s} : port'[x] \in Ports
  BY <1>1 DEF Bind, TableLinked, TypeOK
<1>3. CASE table = None
  <2>1. W = {} BY <1>3, <1>1 DEF TableLinked
  <2>2. /\ table' = s /\ bnext' = [bnext EXCEPT ![s] = s]
        /\ bprev' = [bprev EXCEPT ![s] = s]
    BY <1>3 DEF Bind
  <2>3. bnext'[s] = s /\ bprev'[s] = s /\ \A x \in Sockets : x # s => bnext'[x] = None
    BY <1>1, <2>1, <2>2
  <2>4. BoundSockets' = {s}
    BY <1>1, <2>3 DEF BoundSockets, Bound
  <2>5. Cyclic({s}, bnext', bprev')
    BY <2>3, OneCyclic
  <2> QED BY <1>1, <1>2, <2>1, <2>2, <2>4, <2>5 DEF TableLinked
<1>4. CASE table # None
  <2>1. table \in W /\ Cyclic(W, bnext, bprev) BY <1>4 DEF TableLinked
  <2>2. /\ table' = table
        /\ bnext' = [bnext EXCEPT ![s] = table, ![bprev[table]] = s]
        /\ bprev' = [bprev EXCEPT ![s] = bprev[table], ![table] = s]
    BY <1>4 DEF Bind
  <2>3. \A x \in Sockets : x # s /\ x # bprev[table] => bnext'[x] = bnext[x]
    BY <1>1, <2>2
  <2>4. bnext'[s] = (IF bprev[table] = s THEN s ELSE table) /\ bnext'[bprev[table]] = s
    BY <1>1, <2>1, <2>2
  <2>5. BoundSockets' = W \cup {s}
    BY <1>1, <2>1, <2>3, <2>4 DEF BoundSockets, Bound
  <2>6. Cyclic(W \cup {s}, bnext', bprev')
    <3>1. ASSUME NEW x \in Sockets \ W PROVE bnext[x] = None
      BY <1>1, <3>1
    <3> DEFINE n == [x \in D |-> IF x \in Sockets THEN bnext[x] ELSE None]
               q == [x \in D |-> IF x \in Sockets THEN bprev[x] ELSE None]
               n2 == [n EXCEPT ![s] = table, ![q[table]] = s]
               q2 == [q EXCEPT ![s] = q[table], ![table] = s]
    <3>2. /\ n \in [D -> D] /\ DOMAIN q = D /\ W \in SUBSET D /\ s \in D /\ table \in W
          /\ \A x \in Sockets : n[x] = bnext[x] /\ q[x] = bprev[x]
      BY <1>1, <2>1
    <3>3. Cyclic(W, n, q)
      <4> HIDE DEF n, q
      <4> QED BY <1>1, <2>1, <3>2, SameCyclic
    <3>4. Cyclic(W \cup {s}, n2, q2)
      <4> HIDE DEF n, q, W, D
      <4>1. n2 = [n EXCEPT ![s] = table, ![q[table]] = s]
            /\ q2 = [q EXCEPT ![s] = q[table], ![table] = s]
        OBVIOUS
      <4> HIDE DEF n2, q2
      <4>2. s \notin W BY <1>1
      <4> QED BY <3>2, <3>3, <4>1, <4>2, InsertCyclic, Zenon
    <3>5. \A x \in W \cup {s} : bnext'[x] = n2[x] /\ bprev'[x] = q2[x]
      BY <1>1, <2>1, <2>2
    <3> HIDE DEF n2, q2
    <3> QED BY <3>4, <3>5, SameCyclic
  <2> QED BY <1>1, <1>2, <2>1, <2>2, <2>5, <2>6 DEF TableLinked
<1> QED BY <1>3, <1>4

(* A socket that unbinds leaves it.                                         *)
LEMMA UnbindLinked ==
  ASSUME ReceiveAssumption, TypeOK, TableLinked, NEW s \in Sockets, UnbindTable(s)
  PROVE  TableLinked' /\ BoundSockets' = BoundSockets \ {s} /\ s \in BoundSockets
<1> DEFINE W == BoundSockets
           D == Sockets \cup {None}
<1>1. /\ W \subseteq Sockets /\ None \notin Sockets /\ s \in W
      /\ bnext \in [Sockets -> D] /\ bprev \in [Sockets -> D]
      /\ UNCHANGED <<created, port>> /\ table \in W /\ Cyclic(W, bnext, bprev)
      /\ \A x \in Sockets : bnext[x] # None <=> x \in W
      /\ \A x \in W : bnext[x] \in W /\ bprev[x] \in W /\ bprev[bnext[x]] = x /\ bnext[bprev[x]] = x
  BY DEF TypeOK, TableLinked, Cyclic, BoundSockets, Bound, UnbindTable, ReceiveAssumption
<1>2. CASE bnext[s] = s
  <2>1. W = {s}
    <3> HIDE DEF W
    <3> QED BY <1>1, <1>2, AloneCyclic
  <2>2. table' = None /\ bnext' = [bnext EXCEPT ![s] = None]
    BY <1>2 DEF UnbindTable
  <2>3. BoundSockets' = {}
    BY <1>1, <2>1, <2>2 DEF BoundSockets, Bound
  <2> QED BY <1>1, <2>1, <2>2, <2>3, EmptyCyclic DEF TableLinked
<1>3. CASE bnext[s] # s
  <2>1. /\ table' = IF table = s THEN bnext[s] ELSE table
        /\ bnext' = [bnext EXCEPT ![bprev[s]] = bnext[s], ![s] = None]
        /\ bprev' = [bprev EXCEPT ![bnext[s]] = bprev[s]]
    BY <1>3 DEF UnbindTable
  <2>2. /\ bprev[s] # s /\ bnext'[s] = None /\ bnext'[bprev[s]] = bnext[s]
        /\ \A x \in Sockets : x # s /\ x # bprev[s] => bnext'[x] = bnext[x]
        /\ bprev'[bnext[s]] = bprev[s] /\ \A x \in Sockets : x # bnext[s] => bprev'[x] = bprev[x]
    BY <1>1, <1>3, <2>1
  <2>3. BoundSockets' = W \ {s}
    BY <1>1, <2>2 DEF BoundSockets, Bound
  <2>4. Cyclic(W \ {s}, bnext', bprev') /\ bnext[s] \in W \ {s}
    <3> DEFINE n == [x \in D |-> IF x \in Sockets THEN bnext[x] ELSE None]
               q == [x \in D |-> IF x \in Sockets THEN bprev[x] ELSE None]
    <3>1. /\ n \in [D -> D] /\ DOMAIN q = D /\ W \in SUBSET D /\ s \in W
          /\ \A x \in Sockets : n[x] = bnext[x] /\ q[x] = bprev[x]
      BY <1>1
    <3>2. Cyclic(W, n, q)
      <4> HIDE DEF n, q
      <4> QED BY <1>1, <3>1, SameCyclic
    <3>3. n[s] # s /\ Unlinked(W, s, n, q, bnext', bprev')
      <4> HIDE DEF n, q
      <4> QED BY <1>1, <1>3, <2>2, <3>1 DEF Unlinked
    <3>4. Cyclic(W \ {s}, bnext', bprev') /\ n[s] \in W \ {s}
      <4> HIDE DEF n, q, W, D
      <4> QED BY <3>1, <3>2, <3>3, RemoveCyclic
    <3> QED BY <1>1, <3>1, <3>4
  <2> QED BY <1>1, <2>1, <2>3, <2>4 DEF TableLinked
<1> QED BY <1>2, <1>3

-----------------------------------------------------------------------------
(* The waiters of one socket are not those of another.                      *)
LEMMA WaitersApart ==
  ASSUME NEW s, NEW z, z # s
  PROVE  Waiters(s) \cap Waiters(z) = {} /\ Waiters(s) \subseteq Threads
BY DEF Waiters

(* Threads that wait can be counted: one more, one less, none.              *)
LEMMA WaitersFinite ==
  ASSUME ReceiveAssumption, NEW W \in SUBSET Threads
  PROVE  /\ IsFiniteSet(W) /\ Cardinality(W) \in 0..Cardinality(Threads)
         /\ Cardinality(W) = 0 <=> W = {}
         /\ \A t \in W : Cardinality(W \ {t}) = Cardinality(W) - 1
         /\ \A t \in Threads \ W : Cardinality(W \cup {t}) = Cardinality(W) + 1
<1>1. IsFiniteSet(Threads) BY DEF ReceiveAssumption
<1>2. IsFiniteSet(W) /\ Cardinality(W) <= Cardinality(Threads)
  BY <1>1, FS_Subset
<1>3. Cardinality(W) \in Nat /\ Cardinality(Threads) \in Nat
  BY <1>1, <1>2, FS_CardinalityType
<1>4. Cardinality(W) = 0 <=> W = {}
  BY <1>2, FS_EmptySet
<1>5. \A t \in W : Cardinality(W \ {t}) = Cardinality(W) - 1
  BY <1>2, FS_RemoveElement
<1>6. \A t \in Threads \ W : Cardinality(W \cup {t}) = Cardinality(W) + 1
  BY <1>2, FS_AddElement
<1> QED BY <1>2, <1>3, <1>4, <1>5, <1>6

(* Waiters whose own links and list did not change are listed as before.    *)
LEMMA ListedSame ==
  ASSUME NEW s, Listed(s), Waiters(s)' = Waiters(s),
         list'[s] = list[s], waiting'[s] = waiting[s],
         \A t \in Waiters(s) : nxt'[t] = nxt[t] /\ prv'[t] = prv[t]
  PROVE  Listed(s)'
<1>1. Cyclic(Waiters(s)', nxt', prv')
  BY SameCyclic DEF Listed
<1> QED BY <1>1 DEF Listed

(* No thread began or ended a wait.                                         *)
LEMMA WaitsSame ==
  ASSUME WaitersLinked, UNCHANGED <<list, waiting, nxt, prv, on, cleanup, tstate>>,
         \A t \in Threads : tstate[t] = "suspended" => got'[t] = None,
         \A s \in Sockets : Waiters(s) # {} => queue'[s] = <<>>,
         \A s \in Sockets : (Walks' /\ unbinder'.sock = s) \/ Listed(s)
  PROVE  WaitersLinked' /\ \A s \in Sockets : Waiters(s)' = Waiters(s)
<1>1. \A s \in Sockets : Waiters(s)' = Waiters(s)
  BY DEF Waiters
<1>2. \A s \in Sockets : Listed(s) => Listed(s)'
  BY <1>1, ListedSame
<1> QED BY <1>1, <1>2 DEF WaitersLinked

(* A thread that suspends joins its socket's ring of waiters, at its end.   *)
LEMMA SuspendLinked ==
  ASSUME ReceiveAssumption, TypeOK, WaitersLinked, NEW t \in Threads, NEW s \in Sockets,
         Listed(s), tstate[t] = "running", Suspend(t, s)
  PROVE  /\ Waiters(s)' = Waiters(s) \cup {t} /\ Listed(s)'
         /\ \A z \in Sockets : z # s =>
              Waiters(z)' = Waiters(z) /\ (Listed(z) => Listed(z)')
<1> DEFINE W == Waiters(s)
<1>1. /\ nxt \in [Threads -> Threads] /\ prv \in [Threads -> Threads] /\ t \notin W
      /\ list \in [Sockets -> Threads \cup {None}] /\ waiting \in [Sockets -> 0..Cardinality(Threads)]
      /\ tstate' = [tstate EXCEPT ![t] = "suspended"] /\ on' = [on EXCEPT ![t] = s]
      /\ waiting' = [waiting EXCEPT ![s] = @ + 1] /\ None \notin Threads /\ W \subseteq Threads
      /\ tstate \in [Threads -> {"running", "suspended"}]
      /\ on \in [Threads -> Sockets \cup {None}]
  BY DEF TypeOK, Suspend, Waiters, ReceiveAssumption
<1>2. Waiters(s)' = W \cup {t}
  BY <1>1 DEF Waiters
<1>3. \A z \in Sockets : z # s => Waiters(z)' = Waiters(z) /\ t \notin Waiters(z)
  BY <1>1 DEF Waiters
<1>4. waiting'[s] = Cardinality(Waiters(s)')
  <2>1. Cardinality(W \cup {t}) = Cardinality(W) + 1 BY <1>1, WaitersFinite
  <2> QED BY <1>1, <1>2, <2>1 DEF Listed
<1>5. CASE list[s] = None
  <2>1. /\ list' = [list EXCEPT ![s] = t]
        /\ nxt' = [nxt EXCEPT ![t] = t] /\ prv' = [prv EXCEPT ![t] = t]
    BY <1>5 DEF Suspend
  <2>2. W = {} BY <1>1, <1>5 DEF Listed
  <2>3. Cyclic({t}, nxt', prv') BY <1>1, <2>1, OneCyclic
  <2>4. Listed(s)' BY <1>1, <1>2, <1>4, <2>1, <2>2, <2>3 DEF Listed
  <2>5. ASSUME NEW z \in Sockets, z # s, Listed(z) PROVE Listed(z)'
    <3>1. /\ list'[z] = list[z] /\ waiting'[z] = waiting[z]
          /\ \A u \in Waiters(z) : nxt'[u] = nxt[u] /\ prv'[u] = prv[u]
      BY <1>1, <1>3, <2>1, <2>5 DEF Waiters
    <3> QED BY <1>3, <2>5, <3>1, ListedSame
  <2> QED BY <1>2, <1>3, <2>4, <2>5
<1>6. CASE list[s] # None
  <2>1. /\ list' = list
        /\ nxt' = [nxt EXCEPT ![t] = list[s], ![prv[list[s]]] = t]
        /\ prv' = [prv EXCEPT ![t] = prv[list[s]], ![list[s]] = t]
    BY <1>6 DEF Suspend
  <2>2. list[s] \in W /\ Cyclic(W, nxt, prv) /\ prv[list[s]] \in W
    BY <1>6 DEF Listed, Cyclic
  <2>3. Cyclic(W \cup {t}, nxt', prv')
    <3>1. DOMAIN prv = Threads BY <1>1
    <3> HIDE DEF W
    <3> QED BY <1>1, <2>1, <2>2, <3>1, InsertCyclic, Zenon
  <2>4. Listed(s)' BY <1>2, <1>4, <2>1, <2>2, <2>3 DEF Listed
  <2>5. ASSUME NEW z \in Sockets, z # s, Listed(z) PROVE Listed(z)'
    <3>1. /\ list'[z] = list[z] /\ waiting'[z] = waiting[z]
          /\ \A u \in Waiters(z) : nxt'[u] = nxt[u] /\ prv'[u] = prv[u]
      <4>1. \A u \in Waiters(z) : u \in Threads /\ u # t /\ u \notin W
        BY <1>3, <2>5, WaitersApart
      <4> HIDE DEF W
      <4> QED BY <1>1, <2>1, <2>2, <2>5, <4>1
    <3> QED BY <1>3, <2>5, <3>1, ListedSame
  <2> QED BY <1>2, <1>3, <2>4, <2>5
<1> QED BY <1>5, <1>6

(* A thread leaves its list; the waiters that unbind walks along, of        *)
(* another socket, keep their links.                                        *)
LEMMA LeaveLinked ==
  ASSUME ReceiveAssumption, TypeOK, WaitersLinked, NEW s \in Sockets, NEW t \in Waiters(s),
         Listed(s), UNCHANGED on, Leave(t, IF nxt[t] = t THEN None ELSE nxt[t])
  PROVE  /\ Waiters(s)' = Waiters(s) \ {t} /\ Listed(s)' /\ waiting[s] > 0
         /\ \A u \in Threads \ Waiters(s) : nxt'[u] = nxt[u] /\ prv'[u] = prv[u]
         /\ \A z \in Sockets : z # s =>
              /\ Waiters(z)' = Waiters(z) /\ (Listed(z) => Listed(z)')
              /\ list'[z] = list[z] /\ waiting'[z] = waiting[z]
              /\ \A u \in Waiters(z) : nxt'[u] = nxt[u] /\ prv'[u] = prv[u]
<1> DEFINE W == Waiters(s)
<1>1. /\ nxt \in [Threads -> Threads] /\ prv \in [Threads -> Threads]
      /\ list \in [Sockets -> Threads \cup {None}] /\ waiting \in [Sockets -> 0..Cardinality(Threads)]
      /\ tstate \in [Threads -> {"running", "suspended"}]
      /\ on \in [Threads -> Sockets \cup {None}] /\ on[t] = s /\ t \in Threads
      /\ None \notin Threads /\ W \subseteq Threads /\ Cyclic(W, nxt, prv)
  BY DEF TypeOK, Waiters, ReceiveAssumption, Listed
<1>2. /\ tstate' = [tstate EXCEPT ![t] = "running"] /\ waiting' = [waiting EXCEPT ![s] = @ - 1]
      /\ list' = [list EXCEPT ![s] = IF nxt[t] = t THEN None ELSE nxt[t]]
  BY <1>1 DEF Leave
<1>3. Waiters(s)' = W \ {t}
  BY <1>1, <1>2 DEF Waiters
<1>4. \A z \in Sockets : z # s =>
         Waiters(z)' = Waiters(z) /\ list'[z] = list[z] /\ waiting'[z] = waiting[z]
  BY <1>1, <1>2 DEF Waiters
<1>5. waiting'[s] = Cardinality(Waiters(s)') /\ waiting[s] > 0
  <2>1. /\ Cardinality(W \ {t}) = Cardinality(W) - 1 /\ Cardinality(W) # 0
        /\ waiting[s] = Cardinality(W) /\ Cardinality(W) \in 0..Cardinality(Threads)
    BY <1>1, WaitersFinite DEF Listed
  <2> QED BY <1>1, <1>2, <1>3, <2>1
<1>6. /\ Cyclic(Waiters(s)', nxt', prv')
      /\ IF Waiters(s)' = {} THEN list'[s] = None ELSE list'[s] \in Waiters(s)'
      /\ \A u \in Threads : u \notin W => nxt'[u] = nxt[u] /\ prv'[u] = prv[u]
  <2>1. CASE nxt[t] = t
    <3>1. W = {t}
      <4> HIDE DEF W
      <4>1. t \in W BY DEF W
      <4> QED BY <1>1, <2>1, <4>1, AloneCyclic
    <3>2. UNCHANGED <<nxt, prv>> BY <2>1 DEF Leave
    <3> QED BY <1>1, <1>2, <1>3, <2>1, <3>1, <3>2, EmptyCyclic
  <2>2. CASE nxt[t] # t
    <3>1. /\ nxt' = [nxt EXCEPT ![prv[t]] = nxt[t]]
          /\ prv' = [prv EXCEPT ![nxt[t]] = prv[t]]
      BY <2>2 DEF Leave
    <3>2. nxt[t] \in W /\ prv[t] \in W
      BY <1>1 DEF Cyclic
    <3>3. /\ nxt'[prv[t]] = nxt[t] /\ \A x \in Threads \ {prv[t]} : nxt'[x] = nxt[x]
          /\ prv'[nxt[t]] = prv[t] /\ \A x \in Threads \ {nxt[t]} : prv'[x] = prv[x]
      BY <1>1, <3>1, <3>2
    <3>4. Cyclic(W \ {t}, nxt', prv') /\ nxt[t] \in W \ {t}
      <4>1. t \in W
        BY <1>1
      <4>2. Unlinked(W, t, nxt, prv, nxt', prv')
        BY <1>1, <3>3 DEF Unlinked
      <4> HIDE DEF W
      <4> QED BY <1>1, <2>2, <4>1, <4>2, RemoveCyclic
    <3>5. list'[s] = nxt[t] BY <1>1, <1>2, <2>2
    <3> QED BY <1>3, <3>2, <3>3, <3>4, <3>5
  <2> QED BY <2>1, <2>2
<1>7. Listed(s)' BY <1>5, <1>6 DEF Listed
<1>8. ASSUME NEW z \in Sockets, z # s
      PROVE  /\ \A u \in Waiters(z) : nxt'[u] = nxt[u] /\ prv'[u] = prv[u]
             /\ Listed(z) => Listed(z)'
  <2>1. \A u \in Waiters(z) : nxt'[u] = nxt[u] /\ prv'[u] = prv[u]
    BY <1>6, <1>8, WaitersApart
  <2> QED BY <1>4, <1>8, <2>1, ListedSame
<1> QED BY <1>3, <1>4, <1>5, <1>6, <1>7, <1>8

-----------------------------------------------------------------------------
(* What each step needs of the invariant.                                   *)
LEMMA InvFacts ==
  ASSUME Calm, IInv
  PROVE  /\ ReceiveAssumption /\ TypeOK /\ Shaped /\ driver = None
         /\ BoundSockets \subseteq Sockets /\ Ring = BoundSockets
         /\ \A s \in Sockets : Bound(s) <=> s \in BoundSockets
         /\ \A s \in BoundSockets : s # unbinder.sock /\ port[s] \in Ports
         /\ queue \in [Sockets -> Seq(Packets)] /\ unbinder.packets \in Seq(Packets)
         /\ unbinder.sock \in Sockets \cup {None} /\ None \notin Sockets
         /\ unbinder.step \in {"none", "table", "flush", "walk", "count"}
         /\ unbinder.step # "none" => unbinder.sock \in Sockets
         /\ unbinder = [sock |-> unbinder.sock, step |-> unbinder.step,
                        packets |-> unbinder.packets, thread |-> unbinder.thread]
<1>1. ReceiveAssumption /\ TypeOK /\ driver = None /\ queue \in [Sockets -> Seq(Packets)]
      /\ TableLinked /\ None \notin Sockets
  BY DEF Calm, IInv, Typed, ReceiveAssumption
<1>2. Shaped BY TypedShaped DEF IInv
<1>3. Ring = BoundSockets BY <1>1, RingIsBound
<1>4. \A s \in BoundSockets : Bound(s) /\ s \in Sockets /\ port[s] \in Ports
  BY <1>1 DEF TableLinked, BoundSockets
<1>5. \A s \in BoundSockets : s # unbinder.sock
  BY <1>1, <1>4 DEF IInv, UnbindGoesOn
<1>6. /\ unbinder \in [sock : Sockets \cup {None},
                       step : {"none", "table", "flush", "walk", "count"},
                       packets : Seq(Packets), thread : Threads \cup {None}]
  BY DEF IInv, Typed
<1>7. unbinder.step # "none" => unbinder.sock \in Sockets
  BY <1>2 DEF Shaped, UnbinderShaped
<1> HIDE DEF IInv, Shaped
<1> QED BY <1>1, <1>2, <1>3, <1>4, <1>5, <1>6, <1>7 DEF BoundSockets

(* A socket that is neither bound nor unbind's has nothing.                 *)
LEMMA NothingThere ==
  ASSUME Calm, IInv, NEW s \in Sockets, ~ Bound(s), unbinder.sock # s
  PROVE  /\ queue[s] = <<>> /\ count[s] = 0 /\ Waiters(s) = {}
         /\ list[s] = None /\ waiting[s] = 0
<1>1. queue[s] = <<>> /\ Waiters(s) = {}
  BY DEF IInv, UnboundIsEmpty, Waiters
<1>2. count[s] = 0
  <2>1. count[s] = Len(queue[s]) + 0 BY DEF IInv, CountTrue
  <2>2. Len(queue[s]) = 0 BY <1>1
  <2> QED BY <2>1, <2>2
<1>3. Listed(s) BY DEF IInv, WaitersLinked
<1>4. Cardinality({}) = 0 BY FS_EmptySet
<1> QED BY <1>1, <1>2, <1>3, <1>4 DEF Listed

(* Only the set of sockets that were created changes.                       *)
LEMMA OnlyCreated ==
  ASSUME Calm, IInv, created' \subseteq Sockets, BoundSockets \subseteq created',
         unbinder.step # "none" => unbinder.sock \in created',
         UNCHANGED <<table, bnext, bprev, port, queueVars, waitVars, got, packetVars,
                     unbinder, driver>>
  PROVE  IInv'
<1> USE DEF queueVars, waitVars, packetVars
<1>1. Typed' BY DEF Typed, TypeOK, IInv
<1>2. Apart' /\ Accounted'
  <2>1. Lines' = Lines BY DEF Lines
  <2> QED BY <2>1, SameHands DEF IInv
<1>3. TableLinked' BY TableSame DEF IInv
<1>4. WaitersLinked' /\ \A s \in Sockets : Waiters(s)' = Waiters(s)
  <2>1. \A t \in Threads : tstate[t] = "suspended" => got'[t] = None
    BY DEF IInv, WaitersLinked
  <2>2. \A s \in Sockets : Waiters(s) # {} => queue'[s] = <<>>
    BY DEF IInv, WaitersLinked
  <2>3. \A s \in Sockets : (Walks' /\ unbinder'.sock = s) \/ Listed(s)
    BY DEF IInv, WaitersLinked, Walks
  <2>4. WaitersLinked BY DEF IInv
  <2> QED BY <2>1, <2>2, <2>3, <2>4, WaitsSame
<1>5. UnbindGoesOn'
  <2>1. unbinder.step # "none" => unbinder.sock \in Sockets BY InvFacts
  <2>2. Walks => Waiters(unbinder.sock)' = Waiters(unbinder.sock)
    BY <1>4, <2>1 DEF Walks
  <2>3. unbinder.step = "flush" => Waiters(unbinder.sock)' = Waiters(unbinder.sock)
    BY <1>4, <2>1
  <2> QED BY <2>2, <2>3 DEF IInv, UnbindGoesOn, Walks, Bound, Reaches
<1>6. CountTrue' BY DEF IInv, CountTrue
<1>7. UnboundIsEmpty' BY DEF IInv, UnboundIsEmpty, Bound
<1>8. ForPort' BY DEF IInv, ForPort
<1> QED BY <1>1, <1>2, <1>3, <1>4, <1>5, <1>6, <1>7, <1>8 DEF IInv

(* The invariant survives each action: create and delete.                   *)
LEMMA CreateKeeps ==
  ASSUME Calm, IInv, NEW s \in Sockets, Create(s)
  PROVE  IInv'
<1>1. s \notin created /\ created' = created \cup {s} BY DEF Create
<1>2. created \subseteq Sockets /\ BoundSockets \subseteq created
  BY DEF IInv, TableLinked, Typed, TypeOK
<1>3. ~ Bound(s) /\ unbinder.sock # s
  <2>1. s # None BY InvFacts
  <2> QED BY <1>1, <1>2, <2>1, InvFacts DEF IInv, UnbindGoesOn
<1>4. queue[s] = <<>> /\ count[s] = 0 /\ list[s] = None /\ waiting[s] = 0
  BY <1>3, NothingThere
<1>5. UNCHANGED <<queue, count, list, waiting>>
  BY <1>4 DEF Create, IInv, Typed, TypeOK
<1>6. UNCHANGED <<table, bnext, bprev, port, queueVars, waitVars, got, packetVars,
                  unbinder, driver>>
  BY <1>5 DEF Create, queueVars, waitVars
<1>7. unbinder.step # "none" => unbinder.sock \in created'
  BY <1>1 DEF IInv, UnbindGoesOn
<1> QED BY <1>1, <1>2, <1>6, <1>7, OnlyCreated

LEMMA DeleteKeeps ==
  ASSUME Calm, IInv, NEW s \in Sockets, Delete(s)
  PROVE  IInv'
<1>1. created' = created \ {s} /\ unbinder.step = "none" /\ ~ Bound(s)
  BY DEF Delete, MutexFree
<1>2. created \subseteq Sockets /\ BoundSockets \subseteq created'
  BY <1>1, InvFacts DEF IInv, TableLinked, Typed, TypeOK
<1>3. UNCHANGED <<table, bnext, bprev, port, queueVars, waitVars, got, packetVars,
                  unbinder, driver>>
  BY DEF Delete
<1> QED BY <1>1, <1>2, <1>3, OnlyCreated

(* The socket of an unbind is as the unbind left it.                        *)
LEMMA GoesOnSame ==
  ASSUME Calm, IInv, UNCHANGED unbinder,
         unbinder.step # "none" =>
           LET z == unbinder.sock
           IN /\ z \in created' /\ ~ Bound(z)' /\ Waiters(z)' = Waiters(z)
              /\ queue'[z] = queue[z] /\ list'[z] = list[z] /\ waiting'[z] = waiting[z]
              /\ Walks => \A u \in Waiters(z) : nxt'[u] = nxt[u] /\ prv'[nxt[u]] = prv[nxt[u]]
  PROVE  UnbindGoesOn'
<1> DEFINE z == unbinder.sock
<1>1. UnbindGoesOn /\ Walks' = Walks BY DEF IInv, Walks
<1>2. CASE Walks
  <2>1. /\ z \in created' /\ ~ Bound(z)' /\ Waiters(z)' = Waiters(z)
        /\ queue'[z] = queue[z] /\ list'[z] = list[z] /\ waiting'[z] = waiting[z]
        /\ \A u \in Waiters(z) : nxt'[u] = nxt[u] /\ prv'[nxt[u]] = prv[nxt[u]]
    BY <1>2 DEF Walks
  <2>2. Reaches(Waiters(z), unbinder.thread, nxt) BY <1>1, <1>2 DEF UnbindGoesOn
  <2>3. Reaches(Waiters(z)', unbinder.thread, nxt')
    BY <2>1, <2>2 DEF Reaches
  <2> QED BY <1>1, <1>2, <2>1, <2>3 DEF UnbindGoesOn, Walks
<1>3. CASE ~ Walks
  BY <1>1, <1>3 DEF UnbindGoesOn
<1> QED BY <1>2, <1>3

(* Only the port table changes: no wait and no queue.                       *)
LEMMA OnlyTable ==
  ASSUME Calm, IInv, UNCHANGED <<created, queueVars, waitVars, got, packetVars, driver>>,
         TableLinked', Typed', Walks' = Walks,
         unbinder'.packets = unbinder.packets,
         Walks => unbinder'.sock = unbinder.sock,
         \A s \in Sockets : queue[s] # <<>> => port'[s] = port[s],
         unbinder.packets # <<>> => unbinder'.sock = unbinder.sock,
         \A s \in Sockets : ~ Bound(s)' /\ unbinder'.sock # s => ~ Bound(s) /\ unbinder.sock # s,
         UnbindGoesOn'
  PROVE  IInv'
<1> USE DEF queueVars, waitVars, packetVars
<1>1. Apart' /\ Accounted'
  <2>1. Lines' = Lines BY DEF Lines
  <2> QED BY <2>1, SameHands DEF IInv
<1>2. WaitersLinked'
  <2>1. \A t \in Threads : tstate[t] = "suspended" => got'[t] = None
    BY DEF IInv, WaitersLinked
  <2>2. \A s \in Sockets : Waiters(s) # {} => queue'[s] = <<>>
    BY DEF IInv, WaitersLinked
  <2>3. \A s \in Sockets : (Walks' /\ unbinder'.sock = s) \/ Listed(s)
    BY DEF IInv, WaitersLinked
  <2>4. WaitersLinked BY DEF IInv
  <2> QED BY <2>1, <2>2, <2>3, <2>4, WaitsSame
<1>3. CountTrue'
  <2>1. ASSUME NEW s \in Sockets
        PROVE  count[s] = Len(queue[s])
                 + (IF unbinder'.sock = s THEN Len(unbinder.packets) ELSE 0)
    <3>1. count[s] = Len(queue[s]) + (IF unbinder.sock = s THEN Len(unbinder.packets) ELSE 0)
      BY DEF IInv, CountTrue
    <3>2. unbinder.packets = <<>> => Len(unbinder.packets) = 0 OBVIOUS
    <3> QED BY <3>1, <3>2
  <2> QED BY <2>1 DEF CountTrue
<1>4. UnboundIsEmpty' BY DEF IInv, UnboundIsEmpty
<1>5. ForPort'
  <2>1. ASSUME NEW s \in Sockets, NEW i \in 1..Len(queue[s]) PROVE for[queue[s][i]] = port'[s]
    <3>1. queue[s] # <<>> BY <2>1
    <3> QED BY <3>1, <2>1 DEF IInv, ForPort
  <2> QED BY <2>1 DEF ForPort
<1> QED BY <1>1, <1>2, <1>3, <1>4, <1>5 DEF IInv

(* Bind.                                                                    *)
LEMMA BindKeeps ==
  ASSUME Calm, IInv, NEW s \in Sockets, NEW p \in Ports, Bind(s, p)
  PROVE  IInv'
<1>1. /\ unbinder.step = "none" /\ ~ Bound(s) /\ port' = [port EXCEPT ![s] = p]
      /\ UNCHANGED <<created, queueVars, waitVars, got, packetVars, unbinder, driver>>
  BY DEF Bind, MutexFree
<1>2. ReceiveAssumption /\ TypeOK /\ TableLinked /\ unbinder.sock = None /\ s # None
  BY <1>1, InvFacts DEF IInv, UnbindGoesOn
<1>3. TableLinked' /\ BoundSockets' = BoundSockets \cup {s}
  BY <1>2, BindLinked
<1>4. Typed'
  <2>1. /\ table' \in Sockets \cup {None} /\ bnext' \in [Sockets -> Sockets \cup {None}]
        /\ bprev' \in [Sockets -> Sockets \cup {None}]
    <3>1. CASE table = None
      BY <1>2, <3>1 DEF Bind, TypeOK
    <3>2. CASE table # None
      <4>1. /\ table \in Sockets /\ bprev[table] \in Sockets \cup {None}
            /\ bnext' = [bnext EXCEPT ![s] = table, ![bprev[table]] = s]
            /\ bprev' = [bprev EXCEPT ![s] = bprev[table], ![table] = s]
            /\ table' = table
        BY <1>2, <3>2 DEF Bind, TypeOK
      <4>2. bnext' \in [Sockets -> Sockets \cup {None}] BY <1>2, <4>1 DEF TypeOK
      <4>3. bprev' \in [Sockets -> Sockets \cup {None}] BY <1>2, <4>1 DEF TypeOK
      <4> QED BY <4>1, <4>2, <4>3
    <3> QED BY <3>1, <3>2
  <2>2. port' \in [Sockets -> Ports \cup {None}]
    BY <1>1, <1>2 DEF TypeOK
  <2> QED BY <1>1, <2>1, <2>2 DEF IInv, Typed, TypeOK, queueVars, waitVars, packetVars
<1>5. \A z \in Sockets : queue[z] # <<>> => port'[z] = port[z]
  BY <1>1, <1>2, NothingThere DEF TypeOK
<1>6. \A z \in Sockets : ~ Bound(z)' => ~ Bound(z)
  BY <1>3 DEF BoundSockets
<1>7. UnbindGoesOn'
  BY <1>1, GoesOnSame
<1>8. Walks' = Walks /\ unbinder'.packets = unbinder.packets /\ unbinder'.sock = unbinder.sock
  BY <1>1 DEF Walks
<1> QED BY <1>1, <1>3, <1>4, <1>5, <1>6, <1>7, <1>8, OnlyTable

(* The first part of unbind: out of the port table.                         *)
LEMMA UnbindTableKeeps ==
  ASSUME Calm, IInv, NEW s \in Sockets, UnbindTable(s)
  PROVE  IInv'
<1>1. /\ unbinder.step = "none" /\ Bound(s)
      /\ unbinder' = [sock |-> s, step |-> "table", packets |-> <<>>, thread |-> None]
      /\ UNCHANGED <<created, port, queueVars, waitVars, got, packetVars, driver>>
  BY DEF UnbindTable, MutexFree, NoUnbind
<1>2. ReceiveAssumption /\ TypeOK /\ TableLinked /\ unbinder.sock = None /\ s # None
      /\ unbinder.packets = <<>> /\ s \in created /\ None \notin Sockets
  BY <1>1, InvFacts DEF IInv, UnbindGoesOn, TableLinked
<1>3. TableLinked' /\ BoundSockets' = BoundSockets \ {s} /\ s \in BoundSockets
  BY <1>2, UnbindLinked
<1>4. Typed'
  <2>1. /\ table' \in Sockets \cup {None} /\ bnext' \in [Sockets -> Sockets \cup {None}]
        /\ bprev' \in [Sockets -> Sockets \cup {None}]
    <3>1. CASE bnext[s] = s
      BY <1>2, <3>1 DEF UnbindTable, TypeOK
    <3>2. CASE bnext[s] # s
      <4>1. /\ bnext[s] \in Sockets \cup {None} /\ bprev[s] \in Sockets \cup {None}
            /\ bnext' = [bnext EXCEPT ![bprev[s]] = bnext[s], ![s] = None]
            /\ bprev' = [bprev EXCEPT ![bnext[s]] = bprev[s]]
            /\ table' \in {bnext[s], table}
        BY <1>2, <3>2 DEF UnbindTable, TypeOK
      <4>2. bnext' \in [Sockets -> Sockets \cup {None}] BY <1>2, <4>1 DEF TypeOK
      <4>3. bprev' \in [Sockets -> Sockets \cup {None}] BY <1>2, <4>1 DEF TypeOK
      <4>4. table' \in Sockets \cup {None} BY <1>2, <4>1 DEF TypeOK
      <4> QED BY <4>2, <4>3, <4>4
    <3> QED BY <3>1, <3>2
  <2> QED BY <1>1, <1>2, <2>1 DEF IInv, Typed, TypeOK, queueVars, waitVars, packetVars
<1>5. ~ Bound(s)' /\ \A z \in Sockets : ~ Bound(z)' /\ s # z => ~ Bound(z)
  BY <1>3 DEF BoundSockets
<1>6. UnbindGoesOn'
  BY <1>1, <1>2, <1>5 DEF UnbindGoesOn, Walks
<1>7. ~ Walks /\ Walks' = Walks /\ unbinder'.packets = unbinder.packets /\ unbinder'.sock = s
  BY <1>1, <1>2 DEF Walks
<1>8. \A z \in Sockets : ~ Bound(z)' /\ unbinder'.sock # z => ~ Bound(z) /\ unbinder.sock # z
  BY <1>2, <1>5, <1>7
<1> QED BY <1>1, <1>2, <1>3, <1>4, <1>6, <1>7, <1>8, OnlyTable

(* The steps of unbind after the first are about a socket that is created   *)
(* and not bound.                                                           *)
LEMMA UnbindFacts ==
  ASSUME Calm, IInv, unbinder.step # "none"
  PROVE  LET s == unbinder.sock
         IN /\ s \in Sockets /\ s \in created /\ ~ Bound(s) /\ s # None
            /\ count[s] = Len(queue[s]) + Len(unbinder.packets)
            /\ Len(queue[s]) \in Nat /\ Len(unbinder.packets) \in Nat
            /\ Len(queue[s]) = 0 <=> queue[s] = <<>>
            /\ Len(unbinder.packets) = 0 <=> unbinder.packets = <<>>
<1>1. unbinder.sock \in Sockets /\ queue \in [Sockets -> Seq(Packets)]
      /\ unbinder.packets \in Seq(Packets) /\ None \notin Sockets
  BY InvFacts
<1>2. unbinder.sock \in created /\ ~ Bound(unbinder.sock)
  BY DEF IInv, UnbindGoesOn
<1>3. count[unbinder.sock] = Len(queue[unbinder.sock]) + Len(unbinder.packets)
  BY <1>1 DEF IInv, CountTrue
<1>4. queue[unbinder.sock] \in Seq(Packets) BY <1>1
<1> QED BY <1>1, <1>2, <1>3, <1>4, EmptySeq

(* unbind when nothing is queued and nobody waits.                          *)
LEMMA UnbindClearKeeps ==
  ASSUME Calm, IInv, UnbindClear
  PROVE  IInv'
<1>0. PICK s : s = unbinder.sock OBVIOUS
<1> USE <1>0
<1>1. /\ unbinder.step = "table" /\ unbinder.packets = <<>> /\ ~ Walks
      /\ UNCHANGED <<tableVars, count, waiting, nxt, prv, on, cleanup, tstate, got,
                     packetVars, driver>>
  BY DEF UnbindClear, IInv, UnbindGoesOn, Walks
<1>2. /\ s \in Sockets /\ s \in created /\ ~ Bound(s) /\ s # None /\ count[s] = Len(queue[s])
      /\ Len(queue[s]) = 0 <=> queue[s] = <<>>
  BY <1>1, UnbindFacts
<1>3. /\ ReceiveAssumption /\ TypeOK /\ Shaped /\ queue \in [Sockets -> Seq(Packets)]
      /\ Apart /\ Accounted /\ TableLinked /\ WaitersLinked /\ TypeOK /\ driver = None
  BY InvFacts DEF IInv
<1>4. Apart' /\ Accounted' BY <1>1, <1>3, UnbindClearApart
<1>5. TableLinked' /\ BoundSockets' = BoundSockets
  <2>1. BoundSockets \subseteq created' BY <1>1, <1>3 DEF TableLinked, tableVars
  <2> QED BY <1>1, <1>3, <2>1, TableSame DEF tableVars
<1>6. \A z \in Sockets : Waiters(z)' = Waiters(z) BY <1>1 DEF Waiters
<1>7. Listed(s) /\ \A z \in Sockets : Listed(z) BY <1>1, <1>2, <1>3 DEF WaitersLinked
<1>8. \A z \in Sockets : Bound(z)' <=> Bound(z) BY <1>1 DEF Bound, tableVars
<1>9. waiting[s] \in Nat /\ count[s] \in Nat
  BY <1>2, <1>3, FS_CardinalityType DEF TypeOK, ReceiveAssumption
<1>10. CASE count[s] > 0
  <2>1. /\ unbinder' = [unbinder EXCEPT !.step = "flush", !.packets = queue[s]]
        /\ queue' = [queue EXCEPT ![s] = <<>>] /\ UNCHANGED list
    BY <1>10 DEF UnbindClear
  <2>2. unbinder' = [sock |-> s, step |-> "flush", packets |-> queue[s], thread |-> unbinder.thread]
    BY <1>3, <2>1, RecordOf DEF Shaped, UnbinderShaped
  <2>3. unbinder'.sock = s /\ unbinder'.step = "flush" /\ unbinder'.packets = queue[s] /\ ~ Walks'
    BY <2>2 DEF Walks
  <2>4. queue'[s] = <<>> /\ \A z \in Sockets : z # s => queue'[z] = queue[z]
    BY <1>2, <1>3, <2>1
  <2>5. Typed'
    BY <1>1, <1>2, <1>3, <2>1, <2>2, <2>4 DEF IInv, Typed, TypeOK, tableVars, packetVars
  <2>6. WaitersLinked'
    <3>1. \A t \in Threads : tstate[t] = "suspended" => got'[t] = None
      BY <1>1, <1>3 DEF WaitersLinked
    <3>2. \A z \in Sockets : Waiters(z) # {} => queue'[z] = <<>>
      BY <1>3, <2>4 DEF WaitersLinked
    <3> QED BY <1>1, <1>3, <1>7, <2>1, <3>1, <3>2, WaitsSame
  <2>7. UnbindGoesOn'
    <3>1. Waiters(s)' = {}
      BY <1>2, <1>3, <1>6, <1>10 DEF WaitersLinked
    <3> QED BY <1>1, <1>2, <1>8, <2>3, <2>4, <3>1 DEF UnbindGoesOn, tableVars
  <2>8. CountTrue'
    <3>1. ASSUME NEW z \in Sockets
          PROVE  count[z] = Len(queue'[z]) + (IF s = z THEN Len(queue[s]) ELSE 0)
      <4>1. CASE z = s
        <5>1. Len(queue'[s]) = 0 BY <2>4
        <5>2. Len(queue[s]) = 0 + Len(queue[s]) BY <1>2, <1>9
        <5> QED BY <1>2, <4>1, <5>1, <5>2
      <4>2. CASE z # s BY <2>4, <4>2 DEF IInv, CountTrue
      <4> QED BY <4>1, <4>2
    <3> QED BY <1>1, <2>3, <3>1 DEF CountTrue
  <2>9. UnboundIsEmpty'
    BY <1>1, <1>8, <2>3, <2>4 DEF IInv, UnboundIsEmpty
  <2>10. ForPort'
    <3>1. ASSUME NEW z \in Sockets, NEW i \in 1..Len(queue'[z]) PROVE for[queue'[z][i]] = port[z]
      <4>1. CASE z = s BY <2>4, <3>1, <4>1
      <4>2. CASE z # s BY <2>4, <3>1, <4>2 DEF IInv, ForPort
      <4> QED BY <4>1, <4>2
    <3> QED BY <1>1, <3>1 DEF ForPort, tableVars, packetVars
  <2> QED BY <1>4, <1>5, <2>5, <2>6, <2>7, <2>8, <2>9, <2>10 DEF IInv
<1>11. CASE ~ (count[s] > 0) /\ waiting[s] > 0
  <2>1. /\ unbinder' = [unbinder EXCEPT !.step = "walk", !.thread = list[s]]
        /\ list' = [list EXCEPT ![s] = None] /\ UNCHANGED queue
    BY <1>11 DEF UnbindClear
  <2>2. unbinder' = [sock |-> s, step |-> "walk", packets |-> <<>>, thread |-> list[s]]
    BY <1>1, <1>3, <2>1, RecordOf DEF Shaped, UnbinderShaped
  <2>3. unbinder'.sock = s /\ unbinder'.step = "walk" /\ unbinder'.packets = <<>> /\ Walks'
        /\ unbinder'.thread = list[s]
    BY <2>2 DEF Walks
  <2>4. Waiters(s) # {} /\ list[s] \in Waiters(s) /\ list[s] \in Threads
        /\ Cyclic(Waiters(s), nxt, prv) /\ waiting[s] = Cardinality(Waiters(s))
    BY <1>7, <1>11, FS_EmptySet DEF Listed, Waiters
  <2>5. queue[s] = <<>> BY <1>2, <1>3, <2>4 DEF WaitersLinked
  <2>6. list'[s] = None /\ \A z \in Sockets : z # s => list'[z] = list[z]
    BY <1>2, <1>3, <2>1 DEF TypeOK
  <2>7. Typed'
    BY <1>1, <1>2, <1>3, <2>1, <2>2, <2>4 DEF IInv, Typed, TypeOK, tableVars, packetVars
  <2>8. WaitersLinked'
    <3>1. \A t \in Threads :
            /\ cleanup'[t] = (tstate'[t] = "suspended")
            /\ tstate'[t] = "suspended" => on'[t] \in Sockets /\ got'[t] = None
      BY <1>1, <1>3 DEF WaitersLinked
    <3>2. ASSUME NEW z \in Sockets, z # s PROVE Listed(z)'
      BY <1>1, <1>6, <1>7, <2>6, <3>2, ListedSame
    <3>3. \A z \in Sockets : Waiters(z)' # {} => queue'[z] = <<>>
      BY <1>3, <1>6, <2>1 DEF WaitersLinked
    <3> QED BY <2>3, <3>1, <3>2, <3>3 DEF WaitersLinked
  <2>9. UnbindGoesOn'
    <3>1. Reaches(Waiters(s), list[s], nxt) BY <2>4, CyclicReaches
    <3>2. \A t \in Waiters(s) : prv[nxt[t]] = t BY <2>4 DEF Cyclic
    <3>3. Reaches(Waiters(s)', unbinder'.thread, nxt')
      BY <1>1, <1>2, <1>6, <2>3, <3>1
    <3>4. unbinder'.step # "count" /\ unbinder'.step # "flush" /\ unbinder'.step # "none"
      BY <2>3
    <3>5. waiting'[s] = Cardinality(Waiters(s)') + 0
      <4>1. waiting[s] + 0 = waiting[s] BY <1>9
      <4> QED BY <1>1, <1>2, <1>6, <2>4, <4>1
    <3> QED BY <1>1, <1>2, <1>6, <1>8, <2>1, <2>3, <2>4, <2>5, <2>6, <3>2, <3>3, <3>4, <3>5
        DEF UnbindGoesOn, tableVars
  <2>10. CountTrue' BY <1>1, <2>1, <2>3 DEF IInv, CountTrue
  <2>11. UnboundIsEmpty' BY <1>1, <1>8, <2>1, <2>3 DEF IInv, UnboundIsEmpty
  <2>12. ForPort' BY <1>1, <2>1 DEF IInv, ForPort, tableVars, packetVars
  <2> QED BY <1>4, <1>5, <2>7, <2>8, <2>9, <2>10, <2>11, <2>12 DEF IInv
<1>12. CASE ~ (count[s] > 0) /\ ~ (waiting[s] > 0)
  <2>1. unbinder' = NoUnbind /\ UNCHANGED <<queue, list>>
    BY <1>12 DEF UnbindClear
  <2>2. unbinder'.sock = None /\ unbinder'.step = "none" /\ unbinder'.packets = <<>> /\ ~ Walks'
    BY <2>1 DEF NoUnbind, Walks
  <2>3. queue[s] = <<>> /\ Waiters(s) = {}
    <3>1. waiting[s] = 0 BY <1>9, <1>12
    <3>2. Cardinality(Waiters(s)) = 0 BY <1>7, <3>1 DEF Listed
    <3>3. Waiters(s) = {} BY <1>3, <3>2, WaitersFinite DEF Waiters
    <3> QED BY <1>2, <1>9, <1>12, <3>3
  <2>4. Typed'
    BY <1>1, <1>3, <2>1 DEF IInv, Typed, TypeOK, tableVars, packetVars, NoUnbind
  <2>5. WaitersLinked'
    <3>1. \A t \in Threads : tstate[t] = "suspended" => got'[t] = None
      BY <1>1, <1>3 DEF WaitersLinked
    <3>2. \A z \in Sockets : Waiters(z) # {} => queue'[z] = <<>>
      BY <1>3, <2>1 DEF WaitersLinked
    <3> QED BY <1>1, <1>3, <1>7, <2>1, <3>1, <3>2, WaitsSame
  <2>6. UnbindGoesOn' BY <2>2 DEF UnbindGoesOn
  <2>7. CountTrue'
    <3>1. \A z \in Sockets : count[z] = Len(queue[z]) + (IF s = z THEN Len(unbinder.packets) ELSE 0)
      BY DEF IInv, CountTrue
    <3>2. Len(unbinder.packets) = 0 BY <1>1
    <3>3. \A z \in Sockets : count[z] = Len(queue[z]) + 0 BY <3>1, <3>2
    <3> QED BY <1>1, <2>1, <2>2, <3>3, InvFacts DEF CountTrue
  <2>8. UnboundIsEmpty'
    <3>1. \A z \in Sockets : ~ Bound(z) => queue[z] = <<>> /\ Waiters(z) = {}
      BY <2>3, NothingThere
    <3> QED BY <1>1, <1>8, <2>1, <3>1 DEF UnboundIsEmpty, Waiters
  <2>9. ForPort' BY <1>1, <2>1 DEF IInv, ForPort, tableVars, packetVars
  <2> QED BY <1>4, <1>5, <2>4, <2>5, <2>6, <2>7, <2>8, <2>9 DEF IInv
<1> QED BY <1>10, <1>11, <1>12

(* unbind releases the queue, by its count.                                 *)
LEMMA UnbindFlushKeeps ==
  ASSUME Calm, IInv, UnbindFlush
  PROVE  IInv'
<1>0. PICK s : s = unbinder.sock OBVIOUS
<1> USE <1>0
<1> DEFINE q == unbinder.packets
<1>1. /\ unbinder.step = "flush" /\ queue[s] = <<>> /\ Waiters(s) = {} /\ ~ Walks
      /\ UNCHANGED <<tableVars, queue, waitVars, got, for, driver>>
  BY DEF UnbindFlush, IInv, UnbindGoesOn, Walks
<1>2. /\ s \in Sockets /\ s \in created /\ ~ Bound(s) /\ s # None /\ count[s] = Len(q)
      /\ Len(q) \in Nat /\ Len(q) = 0 <=> q = <<>>
  BY <1>1, UnbindFacts
<1>3. /\ ReceiveAssumption /\ TypeOK /\ Shaped /\ queue \in [Sockets -> Seq(Packets)]
      /\ Apart /\ Accounted /\ TableLinked /\ WaitersLinked /\ q \in Seq(Packets)
  BY InvFacts DEF IInv
<1>4. Apart' /\ Accounted' BY <1>2, <1>3, UnbindFlushApart
<1>5. TableLinked' /\ BoundSockets' = BoundSockets
  <2>1. BoundSockets \subseteq created' BY <1>1, <1>3 DEF TableLinked, tableVars
  <2> QED BY <1>1, <1>3, <2>1, TableSame DEF tableVars
<1>6. /\ \A z \in Sockets : Bound(z)' <=> Bound(z)
      /\ \A z \in Sockets : Waiters(z)' = Waiters(z)
  BY <1>1 DEF Bound, tableVars, Waiters, waitVars
<1>7. ~ Walks' => WaitersLinked'
  <2>1. \A t \in Threads : tstate[t] = "suspended" => got'[t] = None
    BY <1>1, <1>3 DEF WaitersLinked
  <2>2. \A z \in Sockets : Waiters(z) # {} => queue'[z] = <<>>
    BY <1>1, <1>3 DEF WaitersLinked
  <2>3. \A z \in Sockets : Listed(z) BY <1>1, <1>3 DEF WaitersLinked
  <2> QED BY <1>1, <1>3, <2>1, <2>2, <2>3, WaitsSame DEF waitVars
<1>8. ForPort'
  BY <1>1 DEF IInv, ForPort, tableVars
<1>9. \A z \in Sockets : z # s => count[z] = Len(queue[z]) /\ count[z] \in Int
  BY <1>2, <1>3, InvFacts DEF IInv, CountTrue, TypeOK, ReceiveAssumption
<1>10. CASE count[s] = 0
  <2>1. unbinder' = NoUnbind /\ UNCHANGED <<count, free>>
    BY <1>10 DEF UnbindFlush
  <2>2. unbinder'.sock = None /\ unbinder'.step = "none" /\ unbinder'.packets = <<>> /\ ~ Walks'
    BY <2>1 DEF NoUnbind, Walks
  <2>3. Typed'
    BY <1>1, <1>3, <2>1 DEF IInv, Typed, TypeOK, tableVars, waitVars, NoUnbind
  <2>4. UnbindGoesOn' BY <2>2 DEF UnbindGoesOn
  <2>5. CountTrue'
    <3>1. \A z \in Sockets : count[z] = Len(queue[z]) /\ count[z] + 0 = count[z] /\ z # None
      BY <1>1, <1>2, <1>9, <1>10, InvFacts
    <3> QED BY <1>1, <2>1, <2>2, <3>1 DEF CountTrue
  <2>6. UnboundIsEmpty'
    <3>1. \A z \in Sockets : ~ Bound(z) => queue[z] = <<>> /\ Waiters(z) = {}
      BY <1>1, NothingThere
    <3>2. \A z \in Sockets : ~ Bound(z)' => queue'[z] = <<>> /\ Waiters(z)' = {}
      BY <1>1, <1>6, <3>1
    <3> QED BY <3>2 DEF UnboundIsEmpty, Waiters
  <2> QED BY <1>4, <1>5, <1>7, <1>8, <2>2, <2>3, <2>4, <2>5, <2>6 DEF IInv
<1>11. CASE count[s] # 0
  <2>1. q # <<>> BY <1>2, <1>11
  <2>2. /\ free' = free \cup {Head(q)} /\ unbinder' = [unbinder EXCEPT !.packets = Tail(q)]
        /\ count' = [count EXCEPT ![s] = @ - 1]
    BY <1>11, <2>1 DEF UnbindFlush
  <2>3. unbinder' = [sock |-> s, step |-> "flush", packets |-> Tail(q), thread |-> unbinder.thread]
    BY <1>1, <1>3, <2>2, RecordOf DEF Shaped, UnbinderShaped
  <2>4. /\ Head(q) \in Packets /\ Tail(q) \in Seq(Packets) /\ Len(Tail(q)) = Len(q) - 1
    BY <1>3, <2>1, HeadTailProperties
  <2>5. /\ unbinder'.sock = s /\ unbinder'.step = "flush" /\ unbinder'.packets = Tail(q) /\ ~ Walks'
    BY <2>3 DEF Walks
  <2>6. /\ count'[s] = count[s] - 1 /\ \A z \in Sockets : z # s => count'[z] = count[z]
        /\ count' \in [Sockets -> 0..QueueMaximum]
    BY <1>2, <1>3, <1>11, <2>2 DEF TypeOK, ReceiveAssumption
  <2>7. Typed'
    BY <1>1, <1>2, <1>3, <2>2, <2>3, <2>4, <2>6 DEF IInv, Typed, TypeOK, tableVars, waitVars
  <2>8. UnbindGoesOn'
    BY <1>1, <1>2, <1>6, <2>5 DEF UnbindGoesOn, tableVars
  <2>9. CountTrue'
    <3>1. \A z \in Sockets : z # s => count'[z] = Len(queue'[z]) + 0
      BY <1>1, <1>9, <2>6
    <3>2. count'[s] = Len(queue'[s]) + Len(unbinder'.packets)
      <4>1. Len(queue'[s]) = 0 BY <1>1
      <4>2. Len(unbinder'.packets) = Len(q) - 1 BY <2>4, <2>5
      <4>3. count'[s] = Len(q) - 1 BY <1>2, <2>6
      <4> QED BY <1>2, <4>1, <4>2, <4>3
    <3> QED BY <2>5, <3>1, <3>2 DEF CountTrue
  <2>10. UnboundIsEmpty'
    <3>1. \A z \in Sockets : ~ Bound(z) /\ s # z => queue[z] = <<>> /\ Waiters(z) = {}
      BY NothingThere
    <3>2. \A z \in Sockets : ~ Bound(z)' /\ s # z => queue'[z] = <<>> /\ Waiters(z)' = {}
      BY <1>1, <1>6, <3>1
    <3> QED BY <2>5, <3>2 DEF UnboundIsEmpty, Waiters
  <2> QED BY <1>4, <1>5, <1>7, <1>8, <2>5, <2>7, <2>8, <2>9, <2>10 DEF IInv
<1> QED BY <1>10, <1>11

(* unbind resumes one of the waiters.                                       *)
LEMMA UnbindWalkKeeps ==
  ASSUME Calm, IInv, UnbindWalk
  PROVE  IInv'
<1>0. PICK s, t : s = unbinder.sock /\ t = unbinder.thread OBVIOUS
<1> USE <1>0
<1> DEFINE W == Waiters(s)
<1>1. /\ unbinder.step = "walk" /\ Walks /\ unbinder.packets = <<>>
      /\ UNCHANGED <<tableVars, queueVars, list, waiting, nxt, prv, on, got, packetVars, driver>>
  BY DEF UnbindWalk, IInv, UnbindGoesOn, Walks
<1>2. /\ s \in Sockets /\ s \in created /\ ~ Bound(s) /\ s # None
  BY <1>1, UnbindFacts
<1>3. /\ ReceiveAssumption /\ TypeOK /\ Shaped /\ queue \in [Sockets -> Seq(Packets)]
      /\ Apart /\ Accounted /\ TableLinked /\ WaitersLinked /\ None \notin Sockets
  BY InvFacts DEF IInv
<1>4. /\ t \in Threads /\ list[s] = None /\ queue[s] = <<>> /\ Reaches(W, t, nxt)
      /\ \A u \in W : prv[nxt[u]] = u
      /\ waiting[s] = Cardinality(W)
  <2>1. /\ t \in Threads /\ list[s] = None /\ queue[s] = <<>> /\ Reaches(W, t, nxt)
        /\ \A u \in W : prv[nxt[u]] = u
        /\ waiting[s] = Cardinality(W) + 0
    BY <1>1 DEF IInv, UnbindGoesOn
  <2>2. Cardinality(W) \in 0..Cardinality(Threads) /\ Cardinality(Threads) \in Nat
    BY <1>3, WaitersFinite, FS_CardinalityType DEF Waiters, ReceiveAssumption
  <2> QED BY <2>1, <2>2
<1>5. TableLinked' /\ BoundSockets' = BoundSockets
  <2>1. BoundSockets \subseteq created' BY <1>1, <1>3 DEF TableLinked, tableVars
  <2> QED BY <1>1, <1>3, <2>1, TableSame DEF tableVars
<1>6. \A z \in Sockets : Bound(z)' <=> Bound(z)
  BY <1>1 DEF Bound, tableVars
<1>7. ForPort' BY <1>1 DEF IInv, ForPort, tableVars, queueVars, packetVars
<1>8. unbinder'.packets = <<>> => Apart' /\ Accounted'
  <2> SUFFICES ASSUME unbinder'.packets = <<>> PROVE Apart' /\ Accounted'
    OBVIOUS
  <2>1. Lines' = Lines BY <1>1, LinesSame DEF queueVars
  <2> QED BY <1>1, <1>3, <2>1, SameHands DEF packetVars
<1>9. unbinder'.packets = <<>> => CountTrue'
  <2> SUFFICES ASSUME unbinder'.packets = <<>> PROVE CountTrue'
    OBVIOUS
  <2>1. \A z \in Sockets : count[z] = Len(queue[z]) + 0
    BY <1>1 DEF IInv, CountTrue
  <2> QED BY <1>1, <2>1 DEF CountTrue, queueVars
<1>10. CASE waiting[s] = 0
  <2>1. unbinder' = NoUnbind /\ UNCHANGED <<cleanup, tstate>>
    BY <1>10 DEF UnbindWalk
  <2>2. unbinder'.sock = None /\ unbinder'.step = "none" /\ unbinder'.packets = <<>> /\ ~ Walks'
    BY <2>1 DEF NoUnbind, Walks
  <2>3. W = {} BY <1>3, <1>4, <1>10, WaitersFinite DEF Waiters
  <2>4. Typed'
    BY <1>1, <1>3, <2>1 DEF IInv, Typed, TypeOK, tableVars, queueVars, packetVars, NoUnbind
  <2>5. WaitersLinked'
    <3>1. \A u \in Threads : tstate[u] = "suspended" => got'[u] = None
      BY <1>1, <1>3 DEF WaitersLinked
    <3>2. \A z \in Sockets : Waiters(z) # {} => queue'[z] = <<>>
      BY <1>1, <1>3 DEF WaitersLinked, queueVars
    <3>3. Listed(s) BY <1>4, <1>10, <2>3, EmptyCyclic DEF Listed
    <3>4. \A z \in Sockets : Listed(z) BY <1>3, <3>3 DEF WaitersLinked
    <3> QED BY <1>1, <1>3, <2>1, <3>1, <3>2, <3>4, WaitsSame
  <2>6. UnbindGoesOn' BY <2>2 DEF UnbindGoesOn
  <2>7. UnboundIsEmpty'
    <3>1. \A z \in Sockets : ~ Bound(z) => queue[z] = <<>> /\ Waiters(z) = {}
      BY <1>4, <2>3, NothingThere
    <3> QED BY <1>1, <1>6, <2>1, <3>1 DEF UnboundIsEmpty, Waiters, queueVars
  <2> QED BY <1>5, <1>7, <1>8, <1>9, <2>2, <2>4, <2>5, <2>6, <2>7 DEF IInv
<1>11. CASE waiting[s] # 0
  <2>1. /\ cleanup' = [cleanup EXCEPT ![t] = FALSE]
        /\ tstate' = [tstate EXCEPT ![prv[nxt[t]]] = "running"]
        /\ unbinder' = [unbinder EXCEPT !.step = "count", !.thread = nxt[t]]
    BY <1>11 DEF UnbindWalk
  <2>2. unbinder' = [sock |-> s, step |-> "count", packets |-> <<>>, thread |-> nxt[t]]
    BY <1>1, <1>3, <2>1, RecordOf DEF Shaped, UnbinderShaped
  <2>3. /\ unbinder'.sock = s /\ unbinder'.step = "count" /\ unbinder'.packets = <<>> /\ Walks'
        /\ unbinder'.thread = nxt[t]
    BY <2>2 DEF Walks
  <2>4. W # {} BY <1>3, <1>4, <1>11, WaitersFinite DEF Waiters
  <2>5. t \in W /\ Reaches(W \ {t}, nxt[t], nxt)
    <3> HIDE DEF W
    <3> QED BY <1>4, <2>4, ReachesOn
  <2>6. tstate' = [tstate EXCEPT ![t] = "running"] /\ nxt[t] \in Threads
    BY <1>3, <1>4, <2>1, <2>5 DEF TypeOK
  <2>7. /\ Waiters(s)' = W \ {t}
        /\ \A z \in Sockets : z # s => Waiters(z)' = Waiters(z)
    BY <1>1, <1>3, <2>5, <2>6 DEF Waiters, TypeOK
  <2>8. Typed'
    <3>1. cleanup' \in [Threads -> BOOLEAN] /\ tstate' \in [Threads -> {"running", "suspended"}]
      <4>1. cleanup \in [Threads -> BOOLEAN] /\ FALSE \in BOOLEAN BY <1>3 DEF TypeOK
      <4>2. cleanup' \in [Threads -> BOOLEAN] BY <2>1, <4>1, Zenon
      <4>3. tstate' \in [Threads -> {"running", "suspended"}] BY <1>3, <2>6 DEF TypeOK
      <4> QED BY <4>2, <4>3
    <3>2. unbinder' \in [sock : Sockets \cup {None},
                         step : {"none", "table", "flush", "walk", "count"},
                         packets : Seq(Packets), thread : Threads \cup {None}]
      BY <1>2, <2>2, <2>6
    <3> QED BY <1>1, <1>3, <2>3, <3>1, <3>2
            DEF IInv, Typed, TypeOK, tableVars, queueVars, packetVars
  <2>9. WaitersLinked'
    <3>1. \A u \in Threads :
            /\ cleanup'[u] = (tstate'[u] = "suspended")
            /\ tstate'[u] = "suspended" => on'[u] \in Sockets /\ got'[u] = None
      <4> TAKE u \in Threads
      <4>1. CASE u = t
        <5>1. cleanup'[t] = FALSE /\ tstate'[t] = "running"
          BY <1>3, <1>4, <2>1, <2>6 DEF TypeOK
        <5> QED BY <4>1, <5>1
      <4>2. CASE u # t
        <5>1. cleanup'[u] = cleanup[u] /\ tstate'[u] = tstate[u]
          BY <1>3, <2>1, <2>6, <4>2 DEF TypeOK
        <5> QED BY <1>1, <1>3, <5>1 DEF WaitersLinked
      <4> QED BY <4>1, <4>2
    <3>2. ASSUME NEW z \in Sockets, z # s PROVE Listed(z)'
      <4>1. Listed(z) BY <1>3, <3>2 DEF WaitersLinked
      <4> QED BY <1>1, <2>7, <3>2, <4>1, ListedSame
    <3>3. \A z \in Sockets : Waiters(z)' # {} => queue'[z] = <<>>
      BY <1>1, <1>3, <2>7 DEF WaitersLinked, queueVars
    <3> QED BY <2>3, <3>1, <3>2, <3>3 DEF WaitersLinked
  <2>10. UnbindGoesOn'
    <3>1. Reaches(Waiters(s)', unbinder'.thread, nxt')
      BY <1>1, <2>3, <2>5, <2>7
    <3>2. waiting'[s] = Cardinality(Waiters(s)') + 1
      <4>1. Cardinality(W \ {t}) = Cardinality(W) - 1 /\ Cardinality(W) \in 0..Cardinality(Threads)
        BY <1>3, <2>5, WaitersFinite DEF Waiters
      <4> QED BY <1>1, <1>4, <2>7, <4>1
    <3>3. \A u \in Waiters(s)' : prv'[nxt'[u]] = u BY <1>1, <1>4, <2>7
    <3> QED BY <1>1, <1>2, <1>4, <1>6, <2>3, <2>6, <3>1, <3>2, <3>3
        DEF UnbindGoesOn, tableVars, queueVars
  <2>11. UnboundIsEmpty'
    <3>1. \A z \in Sockets : ~ Bound(z) /\ s # z => queue[z] = <<>> /\ Waiters(z) = {}
      BY NothingThere
    <3>2. \A z \in Sockets : ~ Bound(z)' /\ s # z => queue'[z] = <<>> /\ Waiters(z)' = {}
      BY <1>1, <1>6, <2>7, <3>1 DEF queueVars
    <3> QED BY <2>3, <3>2 DEF UnboundIsEmpty, Waiters
  <2> QED BY <1>5, <1>7, <1>8, <1>9, <2>3, <2>8, <2>9, <2>10, <2>11 DEF IInv
<1> QED BY <1>10, <1>11

(* unbind when the count of waiters is used up.                             *)
LEMMA UnbindCountKeeps ==
  ASSUME Calm, IInv, UnbindCount
  PROVE  IInv'
<1>0. PICK s : s = unbinder.sock OBVIOUS
<1> USE <1>0
<1> DEFINE W == Waiters(s)
<1>1. /\ unbinder.step = "count" /\ Walks /\ unbinder.packets = <<>>
      /\ waiting' = [waiting EXCEPT ![s] = @ - 1]
      /\ unbinder' = [unbinder EXCEPT !.step = "walk"]
      /\ UNCHANGED <<tableVars, queueVars, list, nxt, prv, on, cleanup, tstate, got,
                     packetVars, driver>>
  BY DEF UnbindCount, IInv, UnbindGoesOn, Walks
<1>2. /\ s \in Sockets /\ s \in created /\ ~ Bound(s) /\ s # None
  BY <1>1, UnbindFacts
<1>3. /\ ReceiveAssumption /\ TypeOK /\ Shaped /\ queue \in [Sockets -> Seq(Packets)]
      /\ Apart /\ Accounted /\ TableLinked /\ WaitersLinked /\ None \notin Sockets
  BY InvFacts DEF IInv
<1>4. /\ unbinder.thread \in Threads /\ list[s] = None /\ queue[s] = <<>>
      /\ Reaches(W, unbinder.thread, nxt)
      /\ \A u \in W : prv[nxt[u]] = u
      /\ waiting[s] = Cardinality(W) + 1
  BY <1>1 DEF IInv, UnbindGoesOn
<1>5. unbinder' = [sock |-> s, step |-> "walk", packets |-> <<>>, thread |-> unbinder.thread]
  BY <1>1, <1>3, RecordOf DEF Shaped, UnbinderShaped
<1>6. /\ unbinder'.sock = s /\ unbinder'.step = "walk" /\ unbinder'.packets = <<>> /\ Walks'
      /\ unbinder'.thread = unbinder.thread
  BY <1>5 DEF Walks
<1>7. TableLinked' /\ BoundSockets' = BoundSockets
  <2>1. BoundSockets \subseteq created' BY <1>1, <1>3 DEF TableLinked, tableVars
  <2> QED BY <1>1, <1>3, <2>1, TableSame DEF tableVars
<1>8. /\ \A z \in Sockets : Bound(z)' <=> Bound(z)
      /\ \A z \in Sockets : Waiters(z)' = Waiters(z)
  BY <1>1 DEF Bound, tableVars, Waiters
<1>9. waiting'[s] = Cardinality(W) /\ waiting' \in [Sockets -> 0..Cardinality(Threads)]
  <2>1. Cardinality(W) \in 0..Cardinality(Threads) /\ Cardinality(Threads) \in Nat
    BY <1>3, WaitersFinite, FS_CardinalityType DEF Waiters, ReceiveAssumption
  <2> QED BY <1>1, <1>2, <1>3, <1>4, <2>1 DEF TypeOK
<1>10. Apart' /\ Accounted'
  <2>1. Lines' = Lines BY <1>1, <1>6, LinesSame DEF queueVars
  <2> QED BY <1>1, <1>3, <2>1, SameHands DEF packetVars
<1>11. Typed'
  BY <1>1, <1>2, <1>3, <1>4, <1>5, <1>9
     DEF IInv, Typed, TypeOK, tableVars, queueVars, packetVars
<1>12. WaitersLinked'
  <2>1. \A u \in Threads :
          /\ cleanup'[u] = (tstate'[u] = "suspended")
          /\ tstate'[u] = "suspended" => on'[u] \in Sockets /\ got'[u] = None
    BY <1>1, <1>3 DEF WaitersLinked
  <2>2. ASSUME NEW z \in Sockets, z # s PROVE Listed(z)'
    <3>1. Listed(z) /\ waiting'[z] = waiting[z] BY <1>1, <1>3, <2>2 DEF WaitersLinked, TypeOK
    <3> QED BY <1>1, <1>8, <2>2, <3>1, ListedSame
  <2>3. \A z \in Sockets : Waiters(z)' # {} => queue'[z] = <<>>
    BY <1>1, <1>3, <1>8 DEF WaitersLinked, queueVars
  <2> QED BY <1>6, <2>1, <2>2, <2>3 DEF WaitersLinked
<1>13. UnbindGoesOn'
  <2>1. Reaches(Waiters(s)', unbinder'.thread, nxt')
    BY <1>1, <1>2, <1>4, <1>6, <1>8
  <2>2. waiting'[s] = Cardinality(Waiters(s)') + 0
    <3>1. Cardinality(W) \in 0..Cardinality(Threads)
      BY <1>3, WaitersFinite DEF Waiters
    <3> QED BY <1>2, <1>8, <1>9, <3>1
  <2> QED BY <1>1, <1>2, <1>4, <1>6, <1>8, <2>1, <2>2 DEF UnbindGoesOn, tableVars, queueVars
<1>14. CountTrue'
  <2>1. \A z \in Sockets : count[z] = Len(queue[z]) + 0
    BY <1>1 DEF IInv, CountTrue
  <2> QED BY <1>1, <1>6, <2>1 DEF CountTrue, queueVars
<1>15. UnboundIsEmpty'
  <2>1. \A z \in Sockets : ~ Bound(z) /\ s # z => queue[z] = <<>> /\ Waiters(z) = {}
    BY NothingThere
  <2>2. \A z \in Sockets : ~ Bound(z)' /\ s # z => queue'[z] = <<>> /\ Waiters(z)' = {}
    BY <1>1, <1>8, <2>1 DEF queueVars
  <2> QED BY <1>6, <2>2 DEF UnboundIsEmpty, Waiters
<1>16. ForPort' BY <1>1 DEF IInv, ForPort, tableVars, queueVars, packetVars
<1> QED BY <1>7, <1>10, <1>11, <1>12, <1>13, <1>14, <1>15, <1>16 DEF IInv

(* receive takes the oldest datagram.                                       *)
LEMMA ReceiveQueuedKeeps ==
  ASSUME Calm, IInv, NEW t \in Threads, NEW s \in Sockets, ReceiveQueued(t, s)
  PROVE  IInv'
<1>1. /\ tstate[t] = "running" /\ got[t] = None /\ Bound(s) /\ queue[s] # <<>>
      /\ got' = [got EXCEPT ![t] = Head(queue[s])]
      /\ queue' = [queue EXCEPT ![s] = Tail(queue[s])] /\ count' = [count EXCEPT ![s] = @ - 1]
      /\ UNCHANGED <<tableVars, waitVars, packetVars, unbinder, driver>>
  BY DEF ReceiveQueued
<1>2. /\ ReceiveAssumption /\ TypeOK /\ Shaped /\ queue \in [Sockets -> Seq(Packets)]
      /\ Apart /\ Accounted /\ TableLinked /\ WaitersLinked /\ s # unbinder.sock
      /\ s \in BoundSockets
  BY <1>1, InvFacts DEF IInv
<1>3. Apart' /\ Accounted' BY <1>2, ReceiveQueuedApart
<1>4. TableLinked' /\ BoundSockets' = BoundSockets
  <2>1. BoundSockets \subseteq created' BY <1>1, <1>2 DEF TableLinked, tableVars
  <2> QED BY <1>1, <1>2, <2>1, TableSame DEF tableVars
<1>5. /\ queue[s] \in Seq(Packets) /\ Head(queue[s]) \in Packets /\ Tail(queue[s]) \in Seq(Packets)
      /\ Len(Tail(queue[s])) = Len(queue[s]) - 1 /\ Len(queue[s]) \in Nat /\ Len(queue[s]) # 0
      /\ \A i \in 1..Len(Tail(queue[s])) : Tail(queue[s])[i] = queue[s][i + 1]
  BY <1>1, <1>2, HeadTailProperties, EmptySeq
<1>6. /\ queue' \in [Sockets -> Seq(Packets)] /\ queue'[s] = Tail(queue[s])
      /\ \A z \in Sockets : z # s => queue'[z] = queue[z]
  BY <1>1, <1>2, <1>5
<1>7. count[s] = Len(queue[s]) /\ count[s] \in 0..QueueMaximum
  BY <1>2, <1>5 DEF IInv, CountTrue, TypeOK
<1>8. /\ count' \in [Sockets -> 0..QueueMaximum] /\ count'[s] = count[s] - 1
      /\ \A z \in Sockets : z # s => count'[z] = count[z]
  BY <1>1, <1>2, <1>5, <1>7 DEF TypeOK, ReceiveAssumption
<1>9. Typed'
  BY <1>1, <1>2, <1>5, <1>6, <1>8 DEF IInv, Typed, TypeOK, tableVars, waitVars, packetVars
<1>10. WaitersLinked' /\ \A z \in Sockets : Waiters(z)' = Waiters(z)
  <2>1. \A u \in Threads : tstate[u] = "suspended" => got'[u] = None
    BY <1>1, <1>2 DEF WaitersLinked, TypeOK
  <2>2. \A z \in Sockets : Waiters(z) # {} => queue'[z] = <<>>
    BY <1>1, <1>2, <1>6 DEF WaitersLinked
  <2>3. \A z \in Sockets : (Walks' /\ unbinder'.sock = z) \/ Listed(z)
    BY <1>1, <1>2 DEF WaitersLinked, Walks
  <2> QED BY <1>1, <1>2, <2>1, <2>2, <2>3, WaitsSame DEF waitVars
<1>11. \A z \in Sockets : Bound(z)' <=> Bound(z) BY <1>1 DEF Bound, tableVars
<1>12. UnbindGoesOn'
  <2>1. unbinder.step # "none" =>
          /\ unbinder.sock \in created' /\ ~ Bound(unbinder.sock)'
          /\ Waiters(unbinder.sock)' = Waiters(unbinder.sock)
          /\ queue'[unbinder.sock] = queue[unbinder.sock]
    BY <1>1, <1>2, <1>6, <1>10, <1>11, UnbindFacts DEF tableVars
  <2> QED BY <1>1, <2>1, GoesOnSame DEF waitVars
<1>13. CountTrue'
  <2>1. \A z \in Sockets : z # s =>
          count'[z] = Len(queue'[z]) + (IF unbinder.sock = z THEN Len(unbinder.packets) ELSE 0)
    BY <1>6, <1>8 DEF IInv, CountTrue
  <2>2. count'[s] = Len(queue'[s]) + 0 BY <1>5, <1>6, <1>7, <1>8
  <2> QED BY <1>1, <1>2, <2>1, <2>2 DEF CountTrue
<1>14. UnboundIsEmpty'
  <2>1. \A z \in Sockets : ~ Bound(z) /\ unbinder.sock # z => queue[z] = <<>> /\ Waiters(z) = {}
    BY NothingThere
  <2>2. \A z \in Sockets : ~ Bound(z)' /\ unbinder.sock # z => queue'[z] = <<>> /\ Waiters(z)' = {}
    BY <1>1, <1>6, <1>10, <1>11, <2>1
  <2> QED BY <1>1, <2>2 DEF UnboundIsEmpty, Waiters
<1>15. ForPort'
  <2>1. ASSUME NEW z \in Sockets, NEW i \in 1..Len(queue'[z]) PROVE for[queue'[z][i]] = port[z]
    <3>1. CASE z = s
      <4>1. queue'[z] = Tail(queue[s]) BY <1>6, <3>1
      <4>2. i \in 1..Len(Tail(queue[s])) BY <2>1, <4>1
      <4>3. i + 1 \in 1..Len(queue[s]) BY <1>5, <4>2
      <4>4. queue'[z][i] = queue[s][i + 1] BY <1>5, <4>1, <4>2
      <4> QED BY <3>1, <4>3, <4>4 DEF IInv, ForPort
    <3>2. CASE z # s BY <1>6, <2>1, <3>2 DEF IInv, ForPort
    <3> QED BY <3>1, <3>2
  <2> QED BY <1>1, <2>1 DEF ForPort, tableVars, packetVars
<1> QED BY <1>3, <1>4, <1>9, <1>10, <1>12, <1>13, <1>14, <1>15 DEF IInv

(* The application releases a datagram.                                     *)
LEMMA ReleaseKeeps ==
  ASSUME Calm, IInv, NEW t \in Threads, Release(t)
  PROVE  IInv'
<1>1. /\ tstate[t] = "running" /\ got[t] # None
      /\ got' = [got EXCEPT ![t] = None] /\ free' = free \cup {got[t]}
      /\ UNCHANGED <<tableVars, queueVars, waitVars, for, unbinder, driver>>
  BY DEF Release
<1>2. /\ ReceiveAssumption /\ TypeOK /\ Shaped /\ queue \in [Sockets -> Seq(Packets)]
      /\ Apart /\ Accounted /\ TableLinked /\ WaitersLinked
  BY <1>1, InvFacts DEF IInv
<1>3. Apart' /\ Accounted' BY <1>2, ReleaseApart
<1>4. TableLinked' /\ BoundSockets' = BoundSockets
  <2>1. BoundSockets \subseteq created' BY <1>1, <1>2 DEF TableLinked, tableVars
  <2> QED BY <1>1, <1>2, <2>1, TableSame DEF tableVars
<1>5. Typed'
  <2>1. got[t] \in Packets BY <1>1, <1>2 DEF TypeOK
  <2> QED BY <1>1, <1>2, <2>1 DEF IInv, Typed, TypeOK, tableVars, waitVars, queueVars
<1>6. WaitersLinked' /\ \A z \in Sockets : Waiters(z)' = Waiters(z)
  <2>1. \A u \in Threads : tstate[u] = "suspended" => got'[u] = None
    BY <1>1, <1>2 DEF WaitersLinked, TypeOK
  <2>2. \A z \in Sockets : Waiters(z) # {} => queue'[z] = <<>>
    BY <1>1, <1>2 DEF WaitersLinked, queueVars
  <2>3. \A z \in Sockets : (Walks' /\ unbinder'.sock = z) \/ Listed(z)
    BY <1>1, <1>2 DEF WaitersLinked, Walks
  <2> QED BY <1>1, <1>2, <2>1, <2>2, <2>3, WaitsSame DEF waitVars
<1>7. UnbindGoesOn'
  <2>1. unbinder.step # "none" =>
          /\ unbinder.sock \in created' /\ ~ Bound(unbinder.sock)'
          /\ Waiters(unbinder.sock)' = Waiters(unbinder.sock)
    BY <1>1, <1>6, UnbindFacts DEF tableVars, Bound
  <2> QED BY <1>1, <2>1, GoesOnSame DEF waitVars, queueVars
<1>8. CountTrue' BY <1>1 DEF IInv, CountTrue, queueVars
<1>9. UnboundIsEmpty' BY <1>1 DEF IInv, UnboundIsEmpty, Bound, tableVars, queueVars, waitVars
<1>10. ForPort' BY <1>1 DEF IInv, ForPort, tableVars, queueVars
<1> QED BY <1>3, <1>4, <1>5, <1>6, <1>7, <1>8, <1>9, <1>10 DEF IInv

(* receive finds nothing and waits.                                         *)
LEMMA ReceiveWaitKeeps ==
  ASSUME Calm, IInv, NEW t \in Threads, NEW s \in Sockets, ReceiveWait(t, s)
  PROVE  IInv'
<1>1. /\ tstate[t] = "running" /\ got[t] = None /\ Bound(s) /\ queue[s] = <<>> /\ Suspend(t, s)
      /\ UNCHANGED <<tableVars, queueVars, got, packetVars, unbinder, driver>>
  BY DEF ReceiveWait
<1>2. /\ ReceiveAssumption /\ TypeOK /\ Shaped /\ queue \in [Sockets -> Seq(Packets)]
      /\ Apart /\ Accounted /\ TableLinked /\ WaitersLinked /\ s # unbinder.sock
  BY <1>1, InvFacts DEF IInv
<1>3. ~ Walks BY DEF ReceiveWait, MayPreempt, Walks, Calm
<1>4. \A z \in Sockets : Listed(z) BY <1>2, <1>3 DEF WaitersLinked
<1>5. /\ Waiters(s)' = Waiters(s) \cup {t} /\ Listed(s)'
      /\ \A z \in Sockets : z # s => Waiters(z)' = Waiters(z) /\ Listed(z)'
  BY <1>1, <1>2, <1>4, SuspendLinked
<1>6. Apart' /\ Accounted'
  <2>1. Lines' = Lines BY <1>1 DEF Lines, queueVars
  <2> QED BY <1>1, <1>2, <2>1, SameHands DEF packetVars
<1>7. TableLinked' /\ BoundSockets' = BoundSockets
  <2>1. BoundSockets \subseteq created' BY <1>1, <1>2 DEF TableLinked, tableVars
  <2> QED BY <1>1, <1>2, <2>1, TableSame DEF tableVars
<1>8. \A z \in Sockets : Bound(z)' <=> Bound(z) BY <1>1 DEF Bound, tableVars
<1>9. Typed'
  <2>1. list' \in [Sockets -> Threads \cup {None}] /\ nxt' \in [Threads -> Threads]
        /\ prv' \in [Threads -> Threads]
    <3>1. CASE list[s] = None
      BY <1>1, <1>2, <3>1 DEF Suspend, TypeOK
    <3>2. CASE list[s] # None
      <4>1. /\ list[s] \in Threads /\ prv[list[s]] \in Threads
            /\ nxt' = [nxt EXCEPT ![t] = list[s], ![prv[list[s]]] = t]
            /\ prv' = [prv EXCEPT ![t] = prv[list[s]], ![list[s]] = t]
            /\ list' = list
        BY <1>1, <1>2, <3>2 DEF Suspend, TypeOK
      <4>2. nxt' \in [Threads -> Threads] BY <1>2, <4>1 DEF TypeOK
      <4>3. prv' \in [Threads -> Threads] BY <1>2, <4>1 DEF TypeOK
      <4> QED BY <1>2, <4>1, <4>2, <4>3 DEF TypeOK
    <3> QED BY <3>1, <3>2
  <2>2. on' \in [Threads -> Sockets \cup {None}] /\ cleanup' \in [Threads -> BOOLEAN]
        /\ tstate' \in [Threads -> {"running", "suspended"}]
    BY <1>1, <1>2 DEF Suspend, TypeOK
  <2>3. waiting' \in [Sockets -> 0..Cardinality(Threads)]
    <3>1. waiting' = [waiting EXCEPT ![s] = @ + 1] BY <1>1 DEF Suspend
    <3>2. waiting'[s] = Cardinality(Waiters(s)') BY <1>5 DEF Listed
    <3>3. Waiters(s)' \subseteq Threads BY <1>5 DEF Waiters
    <3>4. Cardinality(Waiters(s)') \in 0..Cardinality(Threads)
      BY <1>2, <3>3, WaitersFinite
    <3> QED BY <1>2, <3>1, <3>2, <3>4 DEF TypeOK
  <2> QED BY <1>1, <1>2, <2>1, <2>2, <2>3
          DEF IInv, Typed, TypeOK, tableVars, queueVars, packetVars
<1>10. WaitersLinked'
  <2>1. \A u \in Threads :
          /\ cleanup'[u] = (tstate'[u] = "suspended")
          /\ tstate'[u] = "suspended" => on'[u] \in Sockets /\ got'[u] = None
    BY <1>1, <1>2 DEF WaitersLinked, Suspend, TypeOK
  <2>2. \A z \in Sockets : Waiters(z)' # {} => queue'[z] = <<>>
    BY <1>1, <1>2, <1>5 DEF WaitersLinked, queueVars
  <2> QED BY <1>5, <2>1, <2>2 DEF WaitersLinked
<1>11. UnbindGoesOn'
  <2>1. unbinder.step # "none" =>
          /\ unbinder.sock \in created' /\ ~ Bound(unbinder.sock)'
          /\ Waiters(unbinder.sock)' = Waiters(unbinder.sock)
          /\ list'[unbinder.sock] = list[unbinder.sock]
          /\ waiting'[unbinder.sock] = waiting[unbinder.sock]
    BY <1>1, <1>2, <1>5, <1>8, UnbindFacts DEF tableVars, Suspend, TypeOK
  <2> QED BY <1>1, <1>3, <2>1, GoesOnSame DEF queueVars
<1>12. CountTrue' BY <1>1 DEF IInv, CountTrue, queueVars
<1>13. UnboundIsEmpty'
  <2>1. \A z \in Sockets : ~ Bound(z) /\ unbinder.sock # z => queue[z] = <<>> /\ Waiters(z) = {}
    BY NothingThere
  <2>2. \A z \in Sockets : ~ Bound(z)' /\ unbinder.sock # z => queue'[z] = <<>> /\ Waiters(z)' = {}
    BY <1>1, <1>5, <1>8, <2>1 DEF queueVars
  <2> QED BY <1>1, <2>2 DEF UnboundIsEmpty, Waiters
<1>14. ForPort' BY <1>1 DEF IInv, ForPort, tableVars, queueVars, packetVars
<1> QED BY <1>6, <1>7, <1>9, <1>10, <1>11, <1>12, <1>13, <1>14 DEF IInv


(* A waiter of a socket whose list is whole leaves it, with or without a    *)
(* packet.                                                                  *)
LEMMA LeaveKeeps ==
  ASSUME Calm, IInv, NEW s \in Sockets, NEW t \in Waiters(s), Listed(s),
         Walks => unbinder.sock # s,
         Leave(t, IF nxt[t] = t THEN None ELSE nxt[t]),
         NEW k \in Packets \cup {None}, got' = [got EXCEPT ![t] = k],
         UNCHANGED <<created, bnext, queueVars, on, unbinder>>
  PROVE  /\ WaitersLinked' /\ UnbindGoesOn' /\ CountTrue' /\ UnboundIsEmpty'
         /\ list' \in [Sockets -> Threads \cup {None}] /\ nxt' \in [Threads -> Threads]
         /\ prv' \in [Threads -> Threads] /\ cleanup' \in [Threads -> BOOLEAN]
         /\ tstate' \in [Threads -> {"running", "suspended"}]
         /\ waiting' \in [Sockets -> 0..Cardinality(Threads)]
         /\ got' \in [Threads -> Packets \cup {None}]
<1>1. /\ ReceiveAssumption /\ TypeOK /\ Shaped /\ queue \in [Sockets -> Seq(Packets)]
      /\ TableLinked /\ WaitersLinked /\ got \in [Threads -> Packets \cup {None}]
      /\ t \in Threads /\ on[t] = s /\ tstate[t] = "suspended"
  BY InvFacts DEF IInv, TypeOK, Waiters
<1>2. /\ Waiters(s)' = Waiters(s) \ {t} /\ Listed(s)' /\ waiting[s] > 0
      /\ \A u \in Threads \ Waiters(s) : nxt'[u] = nxt[u] /\ prv'[u] = prv[u]
      /\ \A z \in Sockets : z # s =>
              /\ Waiters(z)' = Waiters(z) /\ (Listed(z) => Listed(z)')
              /\ list'[z] = list[z] /\ waiting'[z] = waiting[z]
              /\ \A u \in Waiters(z) : nxt'[u] = nxt[u] /\ prv'[u] = prv[u]
  BY <1>1, LeaveLinked
<1>3. /\ tstate' = [tstate EXCEPT ![t] = "running"] /\ cleanup' = [cleanup EXCEPT ![t] = FALSE]
      /\ waiting' = [waiting EXCEPT ![s] = @ - 1]
      /\ list' = [list EXCEPT ![s] = IF nxt[t] = t THEN None ELSE nxt[t]]
      /\ nxt' = nxt \/ nxt' = [nxt EXCEPT ![prv[t]] = nxt[t]]
      /\ prv' = prv \/ prv' = [prv EXCEPT ![nxt[t]] = prv[t]]
  BY <1>1 DEF Leave
<1>4. \A z \in Sockets : Waiters(z)' \subseteq Waiters(z)
  BY <1>2
<1>5. WaitersLinked'
  <2>1. \A u \in Threads :
          /\ cleanup'[u] = (tstate'[u] = "suspended")
          /\ tstate'[u] = "suspended" => on'[u] \in Sockets /\ got'[u] = None
    <3> TAKE u \in Threads
    <3>1. CASE u = t
      <4>1. cleanup'[t] = FALSE /\ tstate'[t] = "running" BY <1>1, <1>3 DEF TypeOK
      <4> QED BY <3>1, <4>1
    <3>2. CASE u # t
      <4>1. cleanup'[u] = cleanup[u] /\ tstate'[u] = tstate[u] /\ got'[u] = got[u]
        BY <1>1, <1>3, <3>2 DEF TypeOK
      <4> QED BY <1>1, <4>1 DEF WaitersLinked
    <3> QED BY <3>1, <3>2
  <2>2. \A z \in Sockets : (Walks' /\ unbinder'.sock = z) \/ Listed(z)'
    BY <1>1, <1>2 DEF WaitersLinked, Walks
  <2>3. \A z \in Sockets : Waiters(z)' # {} => queue'[z] = <<>>
    BY <1>1, <1>4 DEF WaitersLinked, queueVars
  <2> QED BY <2>1, <2>2, <2>3 DEF WaitersLinked
<1>6. UnbindGoesOn'
  <2>1. CASE unbinder.step = "none"
    BY <2>1, GoesOnSame
  <2>2. CASE unbinder.step # "none"
    <3>0. PICK z : z = unbinder.sock OBVIOUS
    <3>1. z \in Sockets /\ z \in created' /\ ~ Bound(z)'
      BY <2>2, <3>0, UnbindFacts DEF Bound
    <3>2. CASE z # s
      <4>1. Walks => \A u \in Waiters(z) : nxt'[u] = nxt[u] /\ prv'[nxt[u]] = prv[nxt[u]]
        <5> SUFFICES ASSUME Walks, NEW u \in Waiters(z)
                     PROVE  nxt'[u] = nxt[u] /\ prv'[nxt[u]] = prv[nxt[u]]
          OBVIOUS
        <5>1. prv[nxt[u]] = u BY <3>0 DEF IInv, UnbindGoesOn
        <5>2. u \in Threads /\ u \notin Waiters(s) BY <3>2, WaitersApart
        <5>3. nxt[u] \notin Waiters(s)
          <6> SUFFICES ASSUME nxt[u] \in Waiters(s) PROVE FALSE OBVIOUS
          <6>1. prv[nxt[u]] \in Waiters(s) BY DEF Listed, Cyclic
          <6> QED BY <5>1, <5>2, <6>1
        <5> QED BY <1>1, <1>2, <5>2, <5>3 DEF TypeOK
      <4>2. /\ Waiters(z)' = Waiters(z) /\ list'[z] = list[z] /\ waiting'[z] = waiting[z]
        BY <1>2, <3>1, <3>2
      <4>3. Waiters(unbinder.sock)' = Waiters(unbinder.sock) /\ ~ Bound(unbinder.sock)'
        BY <3>0, <3>1, <4>2
      <4> QED BY <3>0, <3>1, <4>1, <4>2, <4>3, GoesOnSame DEF queueVars
    <3>3. CASE z = s
      <4>1. ~ Walks /\ unbinder.step # "flush"
        BY <3>0, <3>3 DEF IInv, UnbindGoesOn
      <4>2. /\ unbinder.packets = <<>> /\ unbinder.sock \in created
        BY <2>2, <4>1 DEF IInv, UnbindGoesOn
      <4> QED BY <2>2, <3>0, <3>1, <4>1, <4>2 DEF UnbindGoesOn, Walks
    <3> QED BY <3>2, <3>3
  <2> QED BY <2>1, <2>2
<1>7. CountTrue' BY DEF IInv, CountTrue, queueVars
<1>8. UnboundIsEmpty'
  <2>1. \A z \in Sockets : ~ Bound(z) /\ unbinder.sock # z => queue[z] = <<>> /\ Waiters(z) = {}
    BY NothingThere
  <2>2. \A z \in Sockets : ~ Bound(z)' /\ unbinder'.sock # z => queue'[z] = <<>> /\ Waiters(z)' = {}
    BY <1>4, <2>1 DEF Bound, queueVars
  <2> QED BY <2>2 DEF UnboundIsEmpty, Waiters
<1>9. list' \in [Sockets -> Threads \cup {None}]
  <2>1. (IF nxt[t] = t THEN None ELSE nxt[t]) \in Threads \cup {None} BY <1>1 DEF TypeOK
  <2> QED BY <1>1, <1>3, <2>1 DEF TypeOK
<1>10. nxt' \in [Threads -> Threads] BY <1>1, <1>3 DEF TypeOK
<1>11. prv' \in [Threads -> Threads] BY <1>1, <1>3 DEF TypeOK
<1>12. cleanup' \in [Threads -> BOOLEAN]
  <2>1. cleanup \in [Threads -> BOOLEAN] /\ FALSE \in BOOLEAN BY <1>1 DEF TypeOK
  <2> QED BY <1>3, <2>1, Zenon
<1>13. tstate' \in [Threads -> {"running", "suspended"}] BY <1>1, <1>3 DEF TypeOK
<1>14. waiting' \in [Sockets -> 0..Cardinality(Threads)]
  <2>1. waiting[s] - 1 \in 0..Cardinality(Threads)
    <3>1. Cardinality(Threads) \in Nat BY <1>1, FS_CardinalityType DEF ReceiveAssumption
    <3>2. waiting[s] \in 0..Cardinality(Threads) BY <1>1 DEF TypeOK
    <3> QED BY <1>2, <3>1, <3>2
  <2> QED BY <1>1, <1>3, <2>1 DEF TypeOK
<1>15. got' \in [Threads -> Packets \cup {None}] BY <1>1
<1> QED BY <1>5, <1>6, <1>7, <1>8, <1>9, <1>10, <1>11, <1>12, <1>13, <1>14, <1>15

(* A wait expires: the thread leaves the ring, wherever it is.              *)
LEMMA ReceiveExpiresKeeps ==
  ASSUME Calm, IInv, NEW t \in Threads, ReceiveExpires(t)
  PROVE  IInv'
<1>0. PICK s : s = on[t] OBVIOUS
<1>1. /\ cleanup[t] /\ MayPreempt /\ Leave(t, IF nxt[t] = t THEN None ELSE nxt[t])
      /\ UNCHANGED <<tableVars, queueVars, on, got, packetVars, unbinder, driver>>
  BY DEF ReceiveExpires
<1>2. /\ ReceiveAssumption /\ TypeOK /\ Shaped /\ queue \in [Sockets -> Seq(Packets)]
      /\ Apart /\ Accounted /\ TableLinked /\ WaitersLinked
  BY <1>1, InvFacts DEF IInv
<1>3. ~ Walks BY <1>1 DEF MayPreempt, Walks, Calm
<1>4. tstate[t] = "suspended" /\ s \in Sockets /\ got[t] = None
  BY <1>0, <1>1, <1>2 DEF WaitersLinked
<1>5. t \in Waiters(s) BY <1>0, <1>4 DEF Waiters
<1>6. Listed(s) BY <1>2, <1>3, <1>4 DEF WaitersLinked
<1>7. got' = [got EXCEPT ![t] = None] /\ None \in Packets \cup {None}
  BY <1>1, <1>2, <1>4 DEF TypeOK
<1>8. UNCHANGED <<created, bnext, queueVars, on, unbinder>>
  BY <1>1 DEF tableVars
<1>9. /\ WaitersLinked' /\ UnbindGoesOn' /\ CountTrue' /\ UnboundIsEmpty'
      /\ list' \in [Sockets -> Threads \cup {None}] /\ nxt' \in [Threads -> Threads]
      /\ prv' \in [Threads -> Threads] /\ cleanup' \in [Threads -> BOOLEAN]
      /\ tstate' \in [Threads -> {"running", "suspended"}]
      /\ waiting' \in [Sockets -> 0..Cardinality(Threads)]
  BY <1>1, <1>3, <1>4, <1>5, <1>6, <1>7, <1>8, LeaveKeeps
<1>10. Apart' /\ Accounted'
  <2>1. Lines' = Lines BY <1>1 DEF Lines, queueVars
  <2> QED BY <1>1, <1>2, <2>1, SameHands DEF packetVars
<1>11. TableLinked' /\ BoundSockets' = BoundSockets
  <2>1. BoundSockets \subseteq created' BY <1>1, <1>2 DEF TableLinked, tableVars
  <2> QED BY <1>1, <1>2, <2>1, TableSame DEF tableVars
<1>12. Typed'
  BY <1>1, <1>2, <1>9 DEF IInv, Typed, TypeOK, tableVars, queueVars, packetVars
<1>13. ForPort' BY <1>1 DEF IInv, ForPort, tableVars, queueVars, packetVars
<1> QED BY <1>9, <1>10, <1>11, <1>12, <1>13 DEF IInv

(* Datagram k comes for port p and is given to bound socket s.              *)
LEMMA DeliverKeeps ==
  ASSUME Calm, IInv, NEW k \in Packets, NEW p \in Ports, NEW s \in BoundSockets,
         port[s] = p, k \in free, for' = [for EXCEPT ![k] = p], Deliver(k, s),
         table' \in {s, table}, UNCHANGED <<created, bnext, bprev, port, unbinder, driver>>
  PROVE  IInv'
<1>1. /\ ReceiveAssumption /\ TypeOK /\ Shaped /\ queue \in [Sockets -> Seq(Packets)]
      /\ Apart /\ Accounted /\ TableLinked /\ WaitersLinked /\ driver = None
      /\ s \in Sockets /\ s # unbinder.sock /\ BoundSockets \subseteq Sockets
  BY InvFacts DEF IInv
<1>2. TableLinked' /\ BoundSockets' = BoundSockets
  BY <1>1, TableSame DEF TableLinked
<1>3. Listed(s) BY <1>1 DEF WaitersLinked
<1>4. list[s] # None => list[s] \in Waiters(s) /\ got[list[s]] = None
  BY <1>1, <1>3 DEF Listed, WaitersLinked, Waiters
<1>5. Apart' /\ Accounted'
  BY <1>1, <1>4, DeliverApart
<1>6. for' \in [Packets -> Ports \cup {None}] BY <1>1 DEF TypeOK
<1>7. HandsShaped' BY <1>1, ShapedKeeps, DeliverShaped DEF HandsShaped, Shaped
<1>8. \A z \in Sockets : \A i \in 1..Len(queue[z]) : queue[z][i] # k /\ for'[queue[z][i]] = port[z]
  <2> SUFFICES ASSUME NEW z \in Sockets, NEW i \in 1..Len(queue[z])
               PROVE  queue[z][i] # k /\ for'[queue[z][i]] = port[z]
    OBVIOUS
  <2>1. Within(Lines, queue[z][i])
    <3>1. z \in DOMAIN Lines /\ Lines[z] = queue[z] BY <1>1, LinesAre
    <3> QED BY <3>1 DEF Within
  <2>2. queue[z][i] # k BY <1>1, <2>1 DEF Apart
  <2>3. queue[z][i] \in Packets BY <1>1
  <2>4. for[queue[z][i]] = port[z] BY DEF IInv, ForPort
  <2> QED BY <1>1, <2>2, <2>3, <2>4 DEF TypeOK
<1>9. for'[k] = port[s] BY <1>1 DEF TypeOK
<1>10. \A z \in Sockets : Bound(z)' <=> Bound(z) BY DEF Bound
<1>11. CASE list[s] # None
  <2> DEFINE t == list[s]
  <2>1. t \in Waiters(s) /\ Leave(t, IF nxt[t] = t THEN None ELSE nxt[t])
        /\ got' = [got EXCEPT ![t] = k] /\ free' = free \ {k} /\ UNCHANGED <<queueVars, on>>
    BY <1>4, <1>11 DEF Deliver
  <2> HIDE DEF t
  <2>2. /\ WaitersLinked' /\ UnbindGoesOn' /\ CountTrue' /\ UnboundIsEmpty'
        /\ list' \in [Sockets -> Threads \cup {None}] /\ nxt' \in [Threads -> Threads]
        /\ prv' \in [Threads -> Threads] /\ cleanup' \in [Threads -> BOOLEAN]
        /\ tstate' \in [Threads -> {"running", "suspended"}]
        /\ waiting' \in [Sockets -> 0..Cardinality(Threads)]
        /\ got' \in [Threads -> Packets \cup {None}]
    BY <1>1, <1>3, <2>1, LeaveKeeps
  <2>3. Typed'
    BY <1>1, <1>6, <2>1, <2>2 DEF IInv, Typed, TypeOK, queueVars
  <2>4. ForPort' BY <1>8, <2>1 DEF ForPort, queueVars
  <2> QED BY <1>2, <1>5, <2>2, <2>3, <2>4 DEF IInv
<1>12. CASE list[s] = None
  <2> DEFINE full == queue[s] # <<>> /\ count[s] + 1 > QueueMaximum
             all == Append(queue[s], k)
             new == IF full THEN Tail(all) ELSE all
  <2>1. /\ queue' = [queue EXCEPT ![s] = new]
        /\ count' = [count EXCEPT ![s] = IF full THEN @ ELSE @ + 1]
        /\ free' = (free \ {k}) \cup (IF full THEN {Head(all)} ELSE {})
        /\ UNCHANGED <<waitVars, got>>
    BY <1>12 DEF Deliver, Queued
  <2>2. Waiters(s) = {} BY <1>1, <1>12, <1>3 DEF Listed, Waiters, ReceiveAssumption
  <2>3. /\ queue[s] \in Seq(Packets) /\ Len(queue[s]) \in Nat
        /\ count[s] = Len(queue[s]) /\ count[s] \in 0..QueueMaximum /\ QueueMaximum \in Nat \ {0}
    <3>1. count[s] = Len(queue[s]) + 0 BY <1>1 DEF IInv, CountTrue
    <3> QED BY <1>1, <3>1 DEF TypeOK, ReceiveAssumption
  <2>4. /\ all \in Seq(Packets) /\ all # <<>> /\ Len(all) = Len(queue[s]) + 1
        /\ \A i \in 1..Len(queue[s]) : all[i] = queue[s][i]
        /\ all[Len(queue[s]) + 1] = k
    BY <2>3, AppendProperties
  <2>5. /\ new \in Seq(Packets) /\ Len(new) = (IF full THEN Len(queue[s]) ELSE Len(queue[s]) + 1)
        /\ \A i \in 1..Len(new) : for'[new[i]] = port[s]
    <3>1. \A i \in 1..Len(all) : for'[all[i]] = port[s]
      <4> HIDE DEF all
      <4>1. \A i \in 1..Len(all) : i \in 1..Len(queue[s]) \/ i = Len(queue[s]) + 1
        BY <2>3, <2>4
      <4>2. ASSUME NEW i \in 1..Len(queue[s]) PROVE for'[all[i]] = port[s]
        <5>1. all[i] = queue[s][i] BY <2>4
        <5> QED BY <1>1, <1>8, <5>1
      <4>3. for'[all[Len(queue[s]) + 1]] = port[s] BY <1>1, <1>9, <2>4
      <4> QED BY <4>1, <4>2, <4>3
    <3>2. CASE ~ full BY <2>4, <3>1, <3>2
    <3>3. CASE full
      <4>1. /\ Tail(all) \in Seq(Packets) /\ Len(Tail(all)) = Len(all) - 1
            /\ \A i \in 1..Len(Tail(all)) : Tail(all)[i] = all[i + 1]
        BY <2>4, HeadTailProperties
      <4> HIDE DEF all, full
      <4>2. \A i \in 1..Len(Tail(all)) : i + 1 \in 1..Len(all)
        BY <2>3, <2>4, <4>1
      <4>3. new = Tail(all) BY <3>3
      <4> QED BY <2>3, <2>4, <3>1, <3>3, <4>1, <4>2, <4>3
    <3> QED BY <3>2, <3>3
  <2>6. /\ count' \in [Sockets -> 0..QueueMaximum]
        /\ count'[s] = (IF full THEN count[s] ELSE count[s] + 1)
        /\ \A z \in Sockets : z # s => count'[z] = count[z]
    <3>1. (IF full THEN count[s] ELSE count[s] + 1) \in 0..QueueMaximum
      <4>1. queue[s] = <<>> => Len(queue[s]) = 0 OBVIOUS
      <4> QED BY <2>3, <4>1
    <3> HIDE DEF full
    <3> QED BY <1>1, <2>1, <3>1 DEF TypeOK
  <2> HIDE DEF new, all, full
  <2>7. /\ queue' \in [Sockets -> Seq(Packets)] /\ queue'[s] = new
        /\ \A z \in Sockets : z # s => queue'[z] = queue[z]
    BY <1>1, <2>1, <2>5
  <2>8. free' \subseteq Packets BY <1>7 DEF HandsShaped
  <2>9. Typed'
    <3>1. table' \in Sockets \cup {None} BY <1>1 DEF TypeOK
    <3> QED BY <1>1, <1>6, <2>1, <2>6, <2>7, <2>8, <3>1 DEF IInv, Typed, TypeOK, waitVars
  <2>10. WaitersLinked' /\ \A z \in Sockets : Waiters(z)' = Waiters(z)
    <3>1. \A u \in Threads : tstate[u] = "suspended" => got'[u] = None
      BY <1>1, <2>1 DEF WaitersLinked
    <3>2. \A z \in Sockets : Waiters(z) # {} => queue'[z] = <<>>
      BY <1>1, <2>2, <2>7 DEF WaitersLinked
    <3>3. \A z \in Sockets : (Walks' /\ unbinder'.sock = z) \/ Listed(z)
      BY <1>1 DEF WaitersLinked, Walks
    <3> QED BY <1>1, <2>1, <3>1, <3>2, <3>3, WaitsSame DEF waitVars
  <2>11. UnbindGoesOn'
    <3>1. unbinder.step # "none" =>
            /\ unbinder.sock \in created' /\ ~ Bound(unbinder.sock)'
            /\ Waiters(unbinder.sock)' = Waiters(unbinder.sock)
            /\ queue'[unbinder.sock] = queue[unbinder.sock]
      BY <1>1, <1>10, <2>7, <2>10, UnbindFacts
    <3> QED BY <2>1, <3>1, GoesOnSame DEF waitVars
  <2>12. CountTrue'
    <3>1. \A z \in Sockets : z # s =>
            count'[z] = Len(queue'[z]) + (IF unbinder.sock = z THEN Len(unbinder.packets) ELSE 0)
      BY <2>6, <2>7 DEF IInv, CountTrue
    <3>2. count'[s] = Len(queue'[s]) + 0 BY <2>3, <2>5, <2>6, <2>7
    <3> QED BY <1>1, <3>1, <3>2 DEF CountTrue
  <2>13. UnboundIsEmpty'
    <3>1. \A z \in Sockets : ~ Bound(z) /\ unbinder.sock # z => queue[z] = <<>> /\ Waiters(z) = {}
      BY NothingThere
    <3>2. Bound(s) BY DEF BoundSockets
    <3>3. \A z \in Sockets : ~ Bound(z)' /\ unbinder.sock # z => queue'[z] = <<>> /\ Waiters(z)' = {}
      BY <1>10, <2>7, <2>10, <3>1, <3>2
    <3> QED BY <3>3 DEF UnboundIsEmpty, Waiters
  <2>14. ForPort'
    <3>1. ASSUME NEW z \in Sockets, NEW i \in 1..Len(queue'[z]) PROVE for'[queue'[z][i]] = port[z]
      <4>1. CASE z = s BY <2>5, <2>7, <3>1, <4>1
      <4>2. CASE z # s BY <1>8, <2>7, <3>1, <4>2
      <4> QED BY <4>1, <4>2
    <3> QED BY <3>1 DEF ForPort
  <2> QED BY <1>2, <1>5, <2>9, <2>10, <2>11, <2>12, <2>13, <2>14 DEF IInv
<1> QED BY <1>11, <1>12

-----------------------------------------------------------------------------
(* A datagram comes, from an interrupt or the IP thread.                    *)
LEMMA ReceiveKeeps ==
  ASSUME Calm, IInv, NEW k \in Packets, NEW p \in Ports, IsrReceive(k, p) \/ IpReceive(k, p)
  PROVE  IInv'
<1>1. /\ Ring = BoundSockets /\ \A s \in BoundSockets : s \in Sockets
  BY InvFacts
<1>2. PICK s \in Found(p) :
        /\ k \in free /\ for' = [for EXCEPT ![k] = p] /\ Deliver(k, s)
        /\ table' \in {s, table} /\ UNCHANGED <<created, bnext, bprev, port, unbinder, driver>>
  BY DEF IsrReceive, IpReceive, tableVars
<1>3. s \in BoundSockets /\ port[s] = p
  BY <1>1 DEF Found
<1> QED BY <1>2, <1>3, DeliverKeeps

(* So does every step.                                                      *)
LEMMA StepKeeps ==
  ASSUME Calm, IInv, [Next]_vars
  PROVE  IInv'
<1>1. CASE UNCHANGED vars
  <2>1. created' \subseteq Sockets /\ BoundSockets \subseteq created'
        /\ (unbinder.step # "none" => unbinder.sock \in created')
    BY <1>1 DEF vars, tableVars, IInv, Typed, TypeOK, TableLinked, UnbindGoesOn
  <2> QED BY <1>1, <2>1, OnlyCreated DEF vars, tableVars
<1>2. CASE \E s \in Sockets : Create(s) \/ Delete(s) \/ UnbindTable(s)
  BY <1>2, CreateKeeps, DeleteKeeps, UnbindTableKeeps
<1>3. CASE \E s \in Sockets : \E p \in Ports : Bind(s, p)
  BY <1>3, BindKeeps
<1>4. CASE \E s \in Sockets : \E t \in Threads : ReceiveQueued(t, s) \/ ReceiveWait(t, s)
  BY <1>4, ReceiveQueuedKeeps, ReceiveWaitKeeps
<1>5. CASE UnbindClear \/ UnbindFlush \/ UnbindWalk \/ UnbindCount
  BY <1>5, UnbindClearKeeps, UnbindFlushKeeps, UnbindWalkKeeps, UnbindCountKeeps
<1>6. CASE \E t \in Threads : ReceiveExpires(t) \/ Release(t)
  BY <1>6, ReceiveExpiresKeeps, ReleaseKeeps
<1>7. CASE \E k \in Packets, p \in Ports : IsrReceive(k, p) \/ IpReceive(k, p)
  BY <1>7, ReceiveKeeps
<1>8. ~ (\E k \in Packets, p \in Ports : DriverFind(k, p)) /\ ~ DriverDrop /\ ~ DriverDeliver
  BY InvFacts DEF Calm, DriverFind, DriverDrop, DriverDeliver
<1> QED BY <1>1, <1>2, <1>3, <1>4, <1>5, <1>6, <1>7, <1>8 DEF Next

(* The invariant holds at first.                                            *)
LEMMA InitInv == ASSUME Calm, Init PROVE IInv
<1>1. ReceiveAssumption BY DEF Calm
<1>2. Typed
  <2>1. Cardinality(Threads) \in Nat BY <1>1, FS_CardinalityType DEF ReceiveAssumption
  <2> QED BY <1>1, <2>1 DEF Init, Typed, TypeOK, NoUnbind, ReceiveAssumption
<1>3. Apart /\ Accounted BY <1>1, InitShaped DEF Accounted, Init
<1>4. BoundSockets = {} /\ \A s \in Sockets : Waiters(s) = {}
  BY DEF Init, BoundSockets, Bound, Waiters
<1>5. TableLinked
  BY <1>4, EmptyCyclic DEF TableLinked, Init
<1>6. WaitersLinked
  <2>1. \A s \in Sockets : Listed(s)
    BY <1>4, EmptyCyclic, FS_EmptySet DEF Listed, Init
  <2> QED BY <1>4, <2>1 DEF WaitersLinked, Init
<1>7. UnbindGoesOn BY DEF UnbindGoesOn, Walks, Init, NoUnbind
<1>8. CountTrue
  <2>1. \A s \in Sockets : s # None BY <1>1 DEF ReceiveAssumption
  <2> QED BY <2>1 DEF CountTrue, Init, NoUnbind
<1>9. UnboundIsEmpty BY DEF UnboundIsEmpty, Init
<1>10. ForPort BY DEF ForPort, Init
<1> QED BY <1>2, <1>3, <1>5, <1>6, <1>7, <1>8, <1>9, <1>10 DEF IInv

(* What a step gives a thread was its socket's, or came for its socket.     *)
LEMMA StepGetsOwn ==
  ASSUME Calm, IInv, [Next]_vars, NEW t \in Threads
  PROVE  GetsOwn(t)
<1> SUFFICES ASSUME NEW s \in Sockets, got[t] = None, got'[t] # None,
                    got'[t] \in Held(s) \/ (tstate[t] = "suspended" /\ on[t] = s)
             PROVE  Bound(s) /\ for'[got'[t]] = port[s]
  BY DEF GetsOwn
<1>1. /\ ReceiveAssumption /\ TypeOK /\ Shaped /\ driver = None /\ Ring = BoundSockets
      /\ queue \in [Sockets -> Seq(Packets)] /\ Apart /\ WaitersLinked
      /\ \A z \in BoundSockets : z \in Sockets /\ Bound(z) /\ z # unbinder.sock
  BY InvFacts DEF IInv, BoundSockets
<1>2. \A z \in Sockets : z \in DOMAIN Lines /\ Lines[z] = queue[z]
  BY <1>1, LinesAre
<1>3. got \in [Threads -> Packets \cup {None}]
  BY <1>1 DEF TypeOK
<1>4. CASE \E u \in Threads, z \in Sockets : ReceiveQueued(u, z)
  <2>1. PICK u \in Threads, z \in Sockets : ReceiveQueued(u, z) BY <1>4
  <2>2. /\ tstate[u] = "running" /\ Bound(z) /\ queue[z] # <<>> /\ for' = for
        /\ got' = [got EXCEPT ![u] = Head(queue[z])]
    BY <2>1 DEF ReceiveQueued, packetVars
  <2>3. t = u /\ got'[t] = Head(queue[z]) BY <1>3, <2>2
  <2>4. 1 \in 1..Len(queue[z]) /\ Head(queue[z]) = queue[z][1]
    BY <1>1, <2>2, HeadTailProperties
  <2>5. PICK i \in 1..Len(queue[s]) : queue[s][i] = queue[z][1]
    BY <2>2, <2>3, <2>4 DEF Held
  <2>6. s = z
    BY <1>1, <1>2, <2>4, <2>5 DEF Apart, Once
  <2> QED BY <2>2, <2>3, <2>4, <2>6 DEF IInv, ForPort
<1>5. CASE \E k \in Packets, p \in Ports : IsrReceive(k, p) \/ IpReceive(k, p)
  <2>1. PICK k \in Packets, p \in Ports : IsrReceive(k, p) \/ IpReceive(k, p) BY <1>5
  <2>2. PICK z \in Found(p) : k \in free /\ for' = [for EXCEPT ![k] = p] /\ Deliver(k, z)
    BY <2>1 DEF IsrReceive, IpReceive
  <2>3. z \in BoundSockets /\ port[z] = p BY <1>1 DEF Found
  <2>4. list[z] # None /\ got' = [got EXCEPT ![list[z]] = k]
    BY <2>2 DEF Deliver
  <2>5. t = list[z] /\ got'[t] = k BY <1>3, <2>4
  <2>6. t \in Waiters(z)
    BY <1>1, <2>3, <2>4, <2>5 DEF WaitersLinked, Listed, Waiters
  <2>7. k \notin Held(s)
    <3>1. ~ Within(Lines, k) BY <1>1, <2>2 DEF Apart
    <3> QED BY <1>2, <3>1 DEF Within, Held
  <2>8. s = z BY <2>5, <2>6, <2>7 DEF Waiters
  <2>9. for'[k] = p BY <1>1, <2>2 DEF TypeOK
  <2> QED BY <1>1, <2>3, <2>5, <2>8, <2>9
<1>6. CASE \E u \in Threads : Release(u)
  <2>1. PICK u \in Threads : got' = [got EXCEPT ![u] = None] BY <1>6 DEF Release
  <2> QED BY <1>3, <2>1
<1>7. ~ DriverDeliver BY <1>1 DEF DriverDeliver
<1>8. CASE UNCHANGED got
  BY <1>8
<1> QED BY <1>4, <1>5, <1>6, <1>7, <1>8
     DEF Next, vars, Create, Delete, UnbindTable, Bind, ReceiveWait, UnbindClear, UnbindFlush,
         UnbindWalk, UnbindCount, ReceiveExpires, DriverFind, DriverDrop

(* What the invariant says of datagrams and sockets.                        *)
LEMMA InvSays ==
  ASSUME Calm, IInv
  PROVE  /\ TypeOK /\ PacketsAccounted /\ CountTrue /\ NobodyWaitsBesidePacket
         /\ UnboundIsEmpty /\ TableTrue
<1>1. TypeOK /\ CountTrue /\ UnboundIsEmpty
  BY DEF IInv, Typed
<1>2. PacketsAccounted
  BY InvFacts, OnePlace DEF IInv, PacketsAccounted
<1>3. NobodyWaitsBesidePacket
  BY DEF IInv, WaitersLinked, NobodyWaitsBesidePacket, Waiters
<1>4. TableTrue
  BY RingIsBound DEF Calm, IInv, Typed
<1> QED BY <1>1, <1>2, <1>3, <1>4

-----------------------------------------------------------------------------
(* What every step keeps, for any number of sockets, threads and packets.   *)
THEOREM UdpInvariant == ASSUME Calm PROVE Spec => []IInv
<1>1. Init => IInv BY InitInv
<1>2. IInv /\ [Next]_vars => IInv' BY StepKeeps
<1> QED BY <1>1, <1>2, PTL DEF Spec

(* Every variable has its type, and unbind never releases a packet that is  *)
(* not there (nx_udp_socket_unbind.c:286, a loop that goes by the count).   *)
THEOREM UdpTypes == ASSUME Calm PROVE Spec => []TypeOK
<1>1. IInv => TypeOK BY InvSays
<1> QED BY <1>1, UdpInvariant, PTL

(* No overflow, unbind or expired wait loses a packet or hands it out twice.*)
THEOREM DatagramsInOneHand == ASSUME Calm PROVE Spec => []PacketsAccounted
<1>1. IInv => PacketsAccounted BY InvSays
<1> QED BY <1>1, UdpInvariant, PTL

(* The count unbind goes by is the number of packets it finds.              *)
THEOREM UdpCountTrue == ASSUME Calm PROVE Spec => []CountTrue
<1>1. IInv => CountTrue BY InvSays
<1> QED BY <1>1, UdpInvariant, PTL

(* Nobody waits beside a queued datagram.                                   *)
THEOREM NobodyWaits == ASSUME Calm PROVE Spec => []NobodyWaitsBesidePacket
<1>1. IInv => NobodyWaitsBesidePacket BY InvSays
<1> QED BY <1>1, UdpInvariant, PTL

(* The ring of the port table's entry is the bound sockets, linked both     *)
(* ways: the search of a datagram's port ends and finds every bound socket. *)
THEOREM UdpTableTrue == ASSUME Calm PROVE Spec => []TableTrue
<1>1. IInv => TableTrue BY InvSays
<1> QED BY <1>1, UdpInvariant, PTL

(* A socket that was unbound has neither waiters nor packets left.          *)
THEOREM UnboundLeftEmpty == ASSUME Calm PROVE Spec => []UnboundIsEmpty
<1>1. IInv => UnboundIsEmpty BY InvSays
<1> QED BY <1>1, UdpInvariant, PTL

(* A thread gets datagrams for the port its socket is bound to, no other.   *)
THEOREM ThreadsGetTheirOwn == ASSUME Calm PROVE Spec => [][\A t \in Threads : GetsOwn(t)]_vars
<1>1. IInv /\ [Next]_vars => [\A t \in Threads : GetsOwn(t)]_vars BY StepGetsOwn
<1> QED BY <1>1, UdpInvariant, PTL DEF Spec

-----------------------------------------------------------------------------
(***************************************************************************)
(* Proofs about the TCP listen requests, for any ports, clients, sockets,  *)
(* packets and any length of the queue: the packets linked from a head are *)
(* the queue, whatever is put into it and taken out; no client waits       *)
(* beside an idle socket or has two places; and the queues implement the   *)
(* backlog a listen request promises.                                      *)
(*                                                                         *)
(* What the links lead to is found by walking them, so the facts about it  *)
(* need induction over the places of a queue.                              *)
(***************************************************************************)
CONSTANTS Sources, MaxQueue, MaxRequests, Declines, LateAccept
VARIABLES active, listener, head, tail, link, source, pool, state, bound, peer, waiter

Listen == INSTANCE NetxTcpListen

(* The model's Cardinality is that of the facts about finite sets.          *)
LEMMA ListenCardinality == \A S : Listen!Cardinality(S) = Cardinality(S)
  BY DEF Listen!Cardinality, Cardinality

-----------------------------------------------------------------------------
(* The inductive invariant.  The packets at the places of a queue are used, *)
(* an empty queue has no head, and the tail of another one is its last.     *)
QueueShape ==
  \A p \in Ports :
    /\ \A n \in 1..count[p] : Listen!At(p, n) \in Packets \ pool
    /\ count[p] = 0 => head[p] = None
    /\ count[p] # 0 => tail[p] = Listen!At(p, count[p]) /\ link[tail[p]] = None
(* No packet has two places,                                                *)
QueuesApart ==
  \A p, r \in Ports : \A i \in 1..count[p], j \in 1..count[r] :
    Listen!At(p, i) = Listen!At(r, j) => p = r /\ i = j
(* one that is used has a place,                                            *)
PoolRest ==
  \A k \in Packets : k \in pool \/ \E p \in Ports : \E n \in 1..count[p] : Listen!At(p, n) = k
(* and no client has two places in a queue.                                 *)
OnePlaceEach ==
  \A p \in Ports :
    /\ \A n \in 1..count[p] : source[Listen!At(p, n)] \in Sources
    /\ \A i, j \in 1..count[p] : source[Listen!At(p, i)] = source[Listen!At(p, j)] => i = j
Queues == QueueShape /\ QueuesApart /\ PoolRest /\ OnePlaceEach

(* Only a request in use has a socket or a queue, and a socket it has is    *)
(* unbound, on its port and open for a connection.                          *)
Requests ==
  \A p \in Ports :
    /\ p \notin active => listener[p] = None /\ count[p] = 0
    /\ listener[p] # None =>
         /\ count[p] = 0
         /\ port[listener[p]] = p /\ ~ bound[listener[p]]
         /\ state[listener[p]] \in {"LISTEN", "SYN_RECEIVED"}
AcceptWaits ==
  \A s \in Sockets : waiter[s] = "waiting" => state[s] = "SYN_RECEIVED"
(* Two bound sockets of a port have different peers, and none has a peer    *)
(* that waits in the queue.                                                 *)
OneSocketEach ==
  \A s, u \in Sockets :
    bound[s] /\ bound[u] /\ port[s] = port[u] /\ peer[s] = peer[u] /\ peer[s] # None
      => s = u
ClientWaits(p) == {source[Listen!At(p, n)] : n \in 1..count[p]}
NotBoth ==
  \A s \in Sockets, p \in Ports : bound[s] /\ port[s] = p => peer[s] \notin ClientWaits(p)
(* Unless others run before accept's last write, an unbound socket in       *)
(* LISTEN or SYN_RECEIVED is the one of a request.                          *)
Served ==
  ~ LateAccept =>
    \A s \in Sockets :
      /\ waiter[s] # "failed"
      /\ ~ bound[s] /\ state[s] \in {"LISTEN", "SYN_RECEIVED"} =>
           \E p \in active : listener[p] = s
(* What the other parts say of requests and sockets.                        *)
ListenRest == Requests /\ AcceptWaits /\ OneSocketEach /\ NotBoth /\ Served

ListenInv ==
       /\ Listen!TypeOK /\ QueueShape /\ QueuesApart /\ PoolRest /\ OnePlaceEach
       /\ Requests /\ AcceptWaits /\ OneSocketEach /\ NotBoth /\ Served

-----------------------------------------------------------------------------
(* The n-th packet that the links l lead to from h, as At finds it with the *)
(* head of a port.                                                          *)
Chain(h, l, n) ==
  LET packet[i \in 1..n] == IF i = 1 THEN h
                            ELSE IF packet[i - 1] = None THEN None ELSE l[packet[i - 1]]
  IN packet[n]

(* A set of numbers with 0, and with n + 1 when it has n, has them all: its *)
(* least missing number would be neither.                                   *)
LEMMA Induction ==
  ASSUME NEW S, 0 \in S, \A n \in Nat : n \in S => n + 1 \in S
  PROVE  Nat \subseteq S
<1> DEFINE T == Nat \ S
<1> SUFFICES ASSUME T # {} PROVE FALSE
  OBVIOUS
<1>1. PICK x \in T : \A y \in T : ~ (<<y, x>> \in OpToRel(<, Nat))
  <2> HIDE DEF T
  <2>1. T \subseteq Nat BY DEF T
  <2>2. IsWellFoundedOn(OpToRel(<,Nat), Nat) BY NatLessThanWellFounded
  <2> QED BY <2>1, <2>2, WFMin
<1>2. x # 0 /\ x \in Nat OBVIOUS
<1>3. x - 1 \in Nat /\ x - 1 < x BY <1>2
<1>4. x - 1 \notin T
  BY <1>1, <1>2, <1>3 DEF OpToRel
<1> QED BY <1>2, <1>3, <1>4

(* q has, at 1..n, the packets linked by l from h on.                       *)
Links(q, n, h, l) ==
  /\ n > 0 => q[1] = h
  /\ \A i \in 1..n - 1 : q[i + 1] = IF q[i] = None THEN None ELSE l[q[i]]

(* A recursive function is one that satisfies its equation, if there is     *)
(* one; so the walk finds the packets of any function that follows the      *)
(* links.                                                                   *)
LEMMA ChainIs ==
  ASSUME NEW h, NEW l, NEW n \in Nat, NEW q, Links(q, n, h, l)
  PROVE  \A i \in 1..n : Chain(h, l, i) = q[i]
<1> USE DEF Links
<1> SUFFICES ASSUME NEW m \in 1..n PROVE Chain(h, l, m) = q[m]
  OBVIOUS
<1> DEFINE f == CHOOSE f : f = [i \in 1..m |-> IF i = 1 THEN h
                            ELSE IF f[i - 1] = None THEN None ELSE l[f[i - 1]]]
<1>1. [i \in 1..m |-> q[i]] = [i \in 1..m |-> IF i = 1 THEN h
              ELSE IF [j \in 1..m |-> q[j]][i - 1] = None THEN None
                   ELSE l[[j \in 1..m |-> q[j]][i - 1]]]
  <2> SUFFICES ASSUME NEW i \in 1..m
      PROVE q[i] = IF i = 1 THEN h
              ELSE IF [j \in 1..m |-> q[j]][i - 1] = None THEN None
                   ELSE l[[j \in 1..m |-> q[j]][i - 1]]
    BY Zenon
  <2>1. CASE i = 1 BY <2>1
  <2>2. CASE i # 1
    <3>1. i - 1 \in 1..m /\ i - 1 \in 1..n - 1 /\ (i - 1) + 1 = i BY <2>2
    <3>2. [j \in 1..m |-> q[j]][i - 1] = q[i - 1] BY <3>1
    <3> QED BY <3>1, <3>2, <2>2
  <2> QED BY <2>1, <2>2
<1>2. f = [i \in 1..m |-> IF i = 1 THEN h
                            ELSE IF f[i - 1] = None THEN None ELSE l[f[i - 1]]]
  BY <1>1, Zenon
<1> HIDE DEF f
<1> DEFINE S == {k \in Nat : k \in 1..m => f[k] = q[k]}
<1>3. Nat \subseteq S
  <2>1. 0 \in S OBVIOUS
  <2>2. ASSUME NEW k \in Nat, k \in S PROVE k + 1 \in S
    <3> SUFFICES ASSUME k + 1 \in 1..m PROVE f[k + 1] = q[k + 1]
      OBVIOUS
    <3>1. f[k + 1] = IF k + 1 = 1 THEN h
                     ELSE IF f[(k + 1) - 1] = None THEN None ELSE l[f[(k + 1) - 1]]
      BY <1>2
    <3>2. CASE k = 0 BY <3>1, <3>2
    <3>3. CASE k # 0
      <4>1. k \in 1..m /\ k \in 1..n - 1 /\ (k + 1) - 1 = k BY <3>3
      <4>2. f[k] = q[k] BY <4>1, <2>2
      <4> QED BY <3>1, <3>3, <4>1, <4>2
    <3> QED BY <3>2, <3>3
  <2> HIDE DEF S
  <2> QED BY <2>1, <2>2, Induction
<1>4. f[m] = q[m]
  BY <1>3
<1>5. Chain(h, l, m) = f[m]
  BY DEF Chain, f
<1> QED BY <1>4, <1>5

(* What At finds, in a state and in the next one.                           *)
LEMMA AtIsChain == \A p, n : Listen!At(p, n) = Chain(head[p], link, n)
  BY DEF Listen!At, Chain, Listen!Linked
(* And after the step.                                                      *)
LEMMA AtIsChainNext == \A p, n : Listen!At(p, n)' = Chain(head'[p], link', n)
  BY DEF Listen!At, Chain, Listen!Linked

-----------------------------------------------------------------------------
(* There is such a function, however the links lie.                         *)
LEMMA ChainExists ==
  ASSUME NEW h, NEW l, NEW n \in Nat
  PROVE  \E q : Links(q, n, h, l)
<1> USE DEF Links
<1> DEFINE Is(q, m) == Links(q, m, h, l)
           S == {m \in Nat : \E q : Is(q, m)}
<1>1. 0 \in S
  <2>1. Is(<<>>, 0) OBVIOUS
  <2> QED BY <2>1
<1>2. ASSUME NEW m \in Nat, m \in S PROVE m + 1 \in S
  <2>1. PICK q : Is(q, m) BY <1>2
  <2> DEFINE r == [i \in 1..m + 1 |-> IF i <= m THEN q[i]
                                      ELSE IF m = 0 THEN h
                                      ELSE IF q[m] = None THEN None ELSE l[q[m]]]
  <2>2. r[1] = h BY <2>1
  <2>3. ASSUME NEW i \in 1..(m + 1) - 1
        PROVE  r[i + 1] = IF r[i] = None THEN None ELSE l[r[i]]
    <3>1. i \in 1..m /\ r[i] = q[i] OBVIOUS
    <3>2. CASE i = m BY <3>1, <3>2
    <3>3. CASE i # m
      <4>1. i \in 1..m - 1 /\ i + 1 \in 1..m /\ r[i + 1] = q[i + 1] BY <3>1, <3>3
      <4>2. q[i + 1] = IF q[i] = None THEN None ELSE l[q[i]] BY <4>1, <2>1
      <4> QED BY <3>1, <4>1, <4>2
    <3> QED BY <3>2, <3>3
  <2> HIDE DEF r
  <2>4. Is(r, m + 1) BY <2>2, <2>3
  <2> QED BY <2>4
<1> HIDE DEF S
<1>3. Nat \subseteq S BY <1>1, <1>2, Induction
<1>4. n \in S BY <1>3
<1> QED BY <1>4 DEF S

(* The places of a queue: the first is the head, each other one is linked   *)
(* from the one before it.                                                  *)
LEMMA QueueFacts ==
  ASSUME Listen!ListenAssumption, Listen!TypeOK, QueueShape, NEW p \in Ports
  PROVE  /\ count[p] \in Nat
         /\ count[p] # 0 => head[p] = Listen!At(p, 1)
         /\ \A i \in 1..count[p] - 1 : Listen!At(p, i + 1) = link[Listen!At(p, i)]
<1>1. count[p] \in Nat BY DEF Listen!TypeOK, Listen!ListenAssumption
<1>2. PICK q : Links(q, count[p], head[p], link)
  BY <1>1, ChainExists
<1>3. \A i \in 1..count[p] : Listen!At(p, i) = q[i]
  BY <1>1, <1>2, ChainIs, AtIsChain
<1>4. \A i \in 1..count[p] : Listen!At(p, i) # None
  BY DEF QueueShape, Listen!ListenAssumption
<1>5. ASSUME NEW i \in 1..count[p] - 1 PROVE Listen!At(p, i + 1) = link[Listen!At(p, i)]
  <2>1. i \in 1..count[p] /\ i + 1 \in 1..count[p] BY <1>1
  <2> QED BY <1>2, <1>3, <1>4, <2>1 DEF Links
<1> QED BY <1>1, <1>2, <1>3, <1>5 DEF Links

(* The places of a queue after a step.                                      *)
LEMMA NextQueueIs ==
  ASSUME NEW p, NEW n \in Nat, NEW q, Links(q, n, head'[p], link')
  PROVE  \A i \in 1..n : Listen!At(p, i)' = q[i]
<1>1. \A i \in 1..n : Chain(head'[p], link', i) = q[i]
  BY ChainIs
<1> QED BY <1>1, AtIsChainNext

-----------------------------------------------------------------------------
(* A packet at a place is one, and not of the pool.                         *)
LEMMA QueuedInPackets ==
  ASSUME Queues, NEW p \in Ports, NEW n \in 1..count[p]
  PROVE  Listen!At(p, n) \in Packets /\ Listen!At(p, n) \notin pool
BY DEF Queues, QueueShape

(* The packet at place m leaves the queue of p, and those behind it move up. *)
Removed(p, m) ==
  /\ count' = [count EXCEPT ![p] = @ - 1]
  /\ pool' = pool \cup {Listen!At(p, m)}
  /\ head' = [head EXCEPT ![p] = IF m = 1 THEN link[Listen!At(p, m)] ELSE @]
  /\ \A r \in Ports : r # p => tail'[r] = tail[r]
  /\ count[p] # 1 => tail'[p] = IF m = count[p] THEN Listen!At(p, m - 1) ELSE tail[p]
  /\ \A k \in Packets \ {Listen!At(p, m)} :
       link'[k] = IF m # 1 /\ k = Listen!At(p, m - 1) THEN link[Listen!At(p, m)] ELSE link[k]
  /\ \A k \in Packets \ {Listen!At(p, m)} : source'[k] = source[k]

(* Then the places from m on have the packets that were one behind,         *)
LEMMA RemovedPlaces ==
  ASSUME Listen!ListenAssumption, Listen!TypeOK, Queues, Listen!TypeOK',
         NEW p \in Ports, NEW m \in 1..count[p], Removed(p, m), NEW r \in Ports
  PROVE  \A n \in 1..count'[r] :
           Listen!At(r, n)' = IF r = p /\ n >= m THEN Listen!At(r, n + 1) ELSE Listen!At(r, n)
<1> DEFINE q == [n \in 1..count'[r] |-> IF r = p /\ n >= m THEN Listen!At(r, n + 1) ELSE Listen!At(r, n)]
<1>1. /\ count[r] \in Nat /\ count'[r] \in Nat
      /\ count'[r] = IF r = p THEN count[p] - 1 ELSE count[r]
  BY QueueFacts DEF Removed, Listen!TypeOK, Queues
<1>2. count'[r] > 0 => q[1] = head'[r]
  <2> SUFFICES ASSUME count'[r] > 0 PROVE q[1] = head'[r]
    OBVIOUS
  <2>1. head[r] = Listen!At(r, 1) BY <1>1, QueueFacts DEF Queues
  <2>2. CASE r = p /\ m = 1
    <3>1. Listen!At(p, 1 + 1) = link[Listen!At(p, 1)] BY <1>1, <2>2, QueueFacts DEF Queues
    <3> QED BY <1>1, <2>2, <3>1 DEF Removed, Listen!TypeOK
  <2>3. CASE r = p /\ m # 1 BY <1>1, <2>1, <2>3 DEF Removed, Listen!TypeOK
  <2>4. CASE r # p BY <1>1, <2>1, <2>4 DEF Removed, Listen!TypeOK
  <2> QED BY <2>2, <2>3, <2>4
<1>3. ASSUME NEW i \in 1..count'[r] - 1
      PROVE  q[i] # None /\ q[i + 1] = link'[q[i]]
  <2>1. i \in 1..count'[r] /\ i + 1 \in 1..count'[r] /\ i \in 1..count[r]
        /\ i \in 1..count[r] - 1 /\ i + 1 \in 1..count[r]
    BY <1>1
  <2>2. /\ Listen!At(r, i) \in Packets /\ Listen!At(r, i + 1) \in Packets
        /\ Listen!At(r, i + 1) = link[Listen!At(r, i)]
    BY <2>1, QueuedInPackets, QueueFacts DEF Queues
  <2>3. CASE r # p
    <3>1. Listen!At(r, i) # Listen!At(p, m) /\ (m # 1 => Listen!At(r, i) # Listen!At(p, m - 1))
      BY <1>1, <2>1, <2>3, QueueFacts DEF Queues, QueuesApart
    <3>2. link'[Listen!At(r, i)] = link[Listen!At(r, i)] BY <2>2, <3>1 DEF Removed
    <3> QED BY <2>1, <2>2, <2>3, <3>2 DEF Listen!ListenAssumption
  <2>4. CASE r = p /\ i < m - 1
    <3>1. Listen!At(r, i) # Listen!At(p, m) /\ (m # 1 => Listen!At(r, i) # Listen!At(p, m - 1))
      BY <1>1, <2>1, <2>4, QueueFacts DEF Queues, QueuesApart
    <3>2. link'[Listen!At(r, i)] = link[Listen!At(r, i)] BY <2>2, <3>1 DEF Removed
    <3> QED BY <2>1, <2>2, <2>4, <3>2 DEF Listen!ListenAssumption
  <2>5. CASE r = p /\ i = m - 1
    <3>1. m \in 1..count[p] - 1 /\ m + 1 = i + 1 + 1 /\ m # 1 BY <1>1, <2>1, <2>5
    <3>2. Listen!At(p, m + 1) = link[Listen!At(p, m)] BY <3>1, QueueFacts DEF Queues
    <3>3. Listen!At(p, i) # Listen!At(p, m) BY <2>1, <2>5 DEF Queues, QueuesApart
    <3>4. link'[Listen!At(p, i)] = link[Listen!At(p, m)] BY <2>2, <2>5, <3>1, <3>3 DEF Removed
    <3> QED BY <2>1, <2>2, <2>5, <3>1, <3>2, <3>4 DEF Listen!ListenAssumption
  <2>6. CASE r = p /\ i >= m
    <3>1. i + 1 \in 1..count[p] - 1 /\ i + 1 \in 1..count[p] BY <1>1, <2>1, <2>6
    <3>2. Listen!At(p, i + 1 + 1) = link[Listen!At(p, i + 1)] /\ Listen!At(p, i + 1) \in Packets
      BY <3>1, QueueFacts, QueuedInPackets DEF Queues
    <3>3. Listen!At(p, i + 1) # Listen!At(p, m) /\ (m # 1 => Listen!At(p, i + 1) # Listen!At(p, m - 1))
      BY <1>1, <2>1, <2>6, <3>1, QueueFacts DEF Queues, QueuesApart
    <3>4. link'[Listen!At(p, i + 1)] = link[Listen!At(p, i + 1)] BY <3>2, <3>3 DEF Removed
    <3> QED BY <2>1, <2>6, <3>1, <3>2, <3>4 DEF Listen!ListenAssumption
  <2> QED BY <2>1, <2>3, <2>4, <2>5, <2>6
<1> HIDE DEF q
<1>4. Links(q, count'[r], head'[r], link')
  BY <1>1, <1>2, <1>3 DEF Links
<1>5. \A n \in 1..count'[r] : Listen!At(r, n)' = q[n]
  <2>1. count'[r] \in Nat BY <1>1
  <2> QED BY <2>1, <1>4, NextQueueIs
<1> QED BY <1>5 DEF q

(* and the queues are as the invariant says; nobody else waits, and who had *)
(* the packet does not.                                                     *)
LEMMA RemovedKeeps ==
  ASSUME Listen!ListenAssumption, Listen!TypeOK, Queues, Listen!TypeOK',
         NEW p \in Ports, NEW m \in 1..count[p], Removed(p, m)
  PROVE  /\ Queues' /\ \A r \in Ports : ClientWaits(r)' \subseteq ClientWaits(r)
         /\ source[Listen!At(p, m)] \notin ClientWaits(p)'
<1> DEFINE old(r, n) == IF r = p /\ n >= m THEN n + 1 ELSE n
<1>1. ASSUME NEW r \in Ports
      PROVE  /\ count[r] \in Nat /\ count'[r] \in Nat
             /\ count'[r] = IF r = p THEN count[p] - 1 ELSE count[r]
  BY QueueFacts DEF Removed, Listen!TypeOK, Queues
<1>2. ASSUME NEW r \in Ports, NEW n \in 1..count'[r]
      PROVE  /\ old(r, n) \in 1..count[r] /\ Listen!At(r, n)' = Listen!At(r, old(r, n))
             /\ (r = p => old(r, n) # m)
             /\ Listen!At(r, n)' \in Packets /\ Listen!At(r, n)' \notin pool
             /\ Listen!At(r, n)' # Listen!At(p, m) /\ source'[Listen!At(r, n)'] = source[Listen!At(r, old(r, n))]
  <2>1. old(r, n) \in 1..count[r] /\ (r = p => old(r, n) # m)
    BY <1>1
  <2>2. Listen!At(r, n)' = Listen!At(r, old(r, n))
    BY RemovedPlaces
  <2> HIDE DEF old
  <2>3. Listen!At(r, old(r, n)) \in Packets /\ Listen!At(r, old(r, n)) \notin pool
    BY <2>1, QueuedInPackets
  <2>4. Listen!At(r, old(r, n)) # Listen!At(p, m)
    BY <2>1 DEF Queues, QueuesApart
  <2> QED BY <2>1, <2>2, <2>3, <2>4 DEF Removed
<1>3. ASSUME NEW r \in Ports, NEW i \in 1..count'[r], NEW j \in 1..count'[r]
      PROVE  old(r, i) = old(r, j) => i = j
  BY <1>1
<1>4. QueueShape'
  <2>1. ASSUME NEW r \in Ports, NEW n \in 1..count'[r] PROVE Listen!At(r, n)' \in Packets \ pool'
    BY <1>2 DEF Removed
  <2>2. ASSUME NEW r \in Ports, count'[r] = 0 PROVE head'[r] = None
    <3>1. CASE r # p BY <1>1, <2>2, <3>1 DEF Removed, Listen!TypeOK, Queues, QueueShape
    <3>2. CASE r = p
      <4>1. m = 1 /\ count[p] = 1 BY <1>1, <2>2, <3>2
      <4>2. link[Listen!At(p, 1)] = None BY <4>1 DEF Queues, QueueShape
      <4> QED BY <3>2, <4>1, <4>2 DEF Removed, Listen!TypeOK
    <3> QED BY <3>1, <3>2
  <2>3. ASSUME NEW r \in Ports, count'[r] # 0
        PROVE  tail'[r] = Listen!At(r, count[r])' /\ link'[tail'[r]] = None
    <3>1. PICK z \in 1..count'[r] : z = count'[r] BY <1>1, <2>3
    <3>2. Listen!At(r, z)' = Listen!At(r, old(r, z)) /\ Listen!At(r, z)' \in Packets /\ Listen!At(r, z)' # Listen!At(p, m)
      BY <1>2, <3>1
    <3>3. Listen!At(r, count[r])' = Listen!At(r, z)'
      <4>1. Listen!At(r, count[r])' = Chain(head'[r], link', count'[r])
        BY DEF Listen!At, Chain, Listen!Linked
      <4> QED BY <3>1, <4>1, AtIsChainNext
    <3>4. count[r] # 0 /\ tail[r] = Listen!At(r, count[r]) /\ link[tail[r]] = None
      BY <1>1, <2>3 DEF Queues, QueueShape
    <3>5. CASE r # p
      <4>1. tail'[r] = tail[r] /\ old(r, z) = count[r] BY <1>1, <3>1, <3>5 DEF Removed
      <4>2. m # 1 => Listen!At(r, z)' # Listen!At(p, m - 1)
        BY <1>1, <3>1, <3>2, <3>5, <4>1 DEF Queues, QueuesApart
      <4>3. link'[Listen!At(r, z)'] = link[Listen!At(r, z)'] BY <3>2, <4>2 DEF Removed
      <4> QED BY <3>2, <3>3, <3>4, <4>1, <4>3
    <3>6. CASE r = p /\ m = count[p]
      <4>1. /\ tail'[p] = Listen!At(p, m - 1) /\ old(p, z) = m - 1 /\ m # 1 /\ count[p] # 1
        BY <1>1, <3>1, <3>6 DEF Removed
      <4>2. link'[Listen!At(p, m - 1)] = link[Listen!At(p, m)]
        BY <3>2, <3>6, <4>1 DEF Removed
      <4> QED BY <3>2, <3>3, <3>4, <3>6, <4>1, <4>2
    <3>7. CASE r = p /\ m # count[p]
      <4>1. /\ tail'[p] = tail[p] /\ old(p, z) = count[p] /\ count[p] # 1
        BY <1>1, <3>1, <3>7 DEF Removed
      <4>2. m # 1 => Listen!At(p, count[p]) # Listen!At(p, m - 1)
        BY <1>1, <3>1, <3>7 DEF Queues, QueuesApart
      <4>3. link'[Listen!At(r, z)'] = link[Listen!At(r, z)'] BY <3>2, <3>7, <4>1, <4>2 DEF Removed
      <4> QED BY <3>2, <3>3, <3>4, <3>7, <4>1, <4>3
    <3> QED BY <3>5, <3>6, <3>7
  <2> QED BY <2>1, <2>2, <2>3 DEF QueueShape
<1>5. QueuesApart'
  <2> HIDE DEF old
  <2> SUFFICES ASSUME NEW r \in Ports, NEW u \in Ports, NEW i \in 1..count'[r],
                      NEW j \in 1..count'[u], Listen!At(r, i)' = Listen!At(u, j)'
               PROVE  r = u /\ i = j
    BY DEF QueuesApart
  <2>1. Listen!At(r, old(r, i)) = Listen!At(u, old(u, j)) BY <1>2
  <2>2. r = u /\ old(r, i) = old(u, j) BY <1>2, <2>1 DEF Queues, QueuesApart
  <2> QED BY <1>3, <2>2
<1>6. PoolRest'
  <2> SUFFICES ASSUME NEW k \in Packets, k \notin pool'
               PROVE  \E u \in Ports : \E n \in 1..count'[u] : Listen!At(u, n)' = k
    BY DEF PoolRest
  <2>0. PICK r \in Ports : \E n \in 1..count[r] : Listen!At(r, n) = k
    BY DEF Removed, Queues, PoolRest
  <2>1. PICK n \in 1..count[r] : Listen!At(r, n) = k
    BY <2>0
  <2>2. r = p => n # m BY <2>1 DEF Removed
  <2> DEFINE new == IF r = p /\ n > m THEN n - 1 ELSE n
  <2>3. new \in 1..count'[r] /\ old(r, new) = n BY <1>1, <2>2
  <2> HIDE DEF new, old
  <2>4. Listen!At(r, new)' = k BY <1>2, <2>1, <2>3
  <2> QED BY <2>3, <2>4
<1>7. OnePlaceEach'
  <2> HIDE DEF old
  <2>1. ASSUME NEW r \in Ports, NEW n \in 1..count'[r] PROVE source'[Listen!At(r, n)'] \in Sources
    BY <1>2 DEF Queues, OnePlaceEach
  <2>2. ASSUME NEW r \in Ports, NEW i \in 1..count'[r], NEW j \in 1..count'[r],
               source'[Listen!At(r, i)'] = source'[Listen!At(r, j)']
        PROVE  i = j
    <3>1. source[Listen!At(r, old(r, i))] = source[Listen!At(r, old(r, j))] BY <1>2, <2>2
    <3>2. old(r, i) = old(r, j) BY <1>2, <3>1 DEF Queues, OnePlaceEach
    <3> QED BY <1>3, <3>2
  <2> QED BY <2>1, <2>2 DEF OnePlaceEach
<1>8. ASSUME NEW r \in Ports PROVE ClientWaits(r)' \subseteq ClientWaits(r)
  <2> HIDE DEF old
  <2>1. ASSUME NEW n \in 1..count'[r] PROVE source'[Listen!At(r, n)'] \in ClientWaits(r)
    BY <1>2 DEF ClientWaits
  <2> QED BY <2>1 DEF ClientWaits
<1>9. source[Listen!At(p, m)] \notin ClientWaits(p)'
  <2> HIDE DEF old
  <2>1. ASSUME NEW n \in 1..count'[p] PROVE source'[Listen!At(p, n)'] # source[Listen!At(p, m)]
    BY <1>2 DEF Queues, OnePlaceEach
  <2> QED BY <2>1 DEF ClientWaits
<1> QED BY <1>4, <1>5, <1>6, <1>7, <1>8, <1>9 DEF Queues

-----------------------------------------------------------------------------
(* A packet k with a SYN of x comes behind the last one of p.               *)
PutLast(p, x, k) ==
      /\ k \in pool /\ pool' = pool \ {k}
      /\ count' = [count EXCEPT ![p] = @ + 1]
      /\ head' = [head EXCEPT ![p] = IF count[p] = 0 THEN k ELSE @]
      /\ tail' = [tail EXCEPT ![p] = k]
      /\ source' = [source EXCEPT ![k] = x]
      /\ link'[k] = None
      /\ \A j \in Packets \ {k} :
           link'[j] = IF count[p] # 0 /\ j = tail[p] THEN k ELSE link[j]

(* Then the packet has the new last place, and the others keep theirs,      *)
LEMMA PutPlaces ==
  ASSUME Listen!ListenAssumption, Listen!TypeOK, Queues, Listen!TypeOK',
         NEW p \in Ports, NEW x \in Sources, NEW k \in Packets, PutLast(p, x, k),
         NEW r \in Ports
  PROVE  \A n \in 1..count'[r] :
           Listen!At(r, n)' = IF r = p /\ n = count[p] + 1 THEN k ELSE Listen!At(r, n)
<1> DEFINE q == [n \in 1..count'[r] |-> IF r = p /\ n = count[p] + 1 THEN k ELSE Listen!At(r, n)]
<1>1. /\ count[r] \in Nat /\ count'[r] \in Nat
      /\ count'[r] = IF r = p THEN count[p] + 1 ELSE count[r]
  BY QueueFacts DEF PutLast, Listen!TypeOK, Queues
<1>2. count'[r] > 0 => q[1] = head'[r]
  <2> SUFFICES ASSUME count'[r] > 0 PROVE q[1] = head'[r]
    OBVIOUS
  <2>1. count[r] # 0 => head[r] = Listen!At(r, 1) BY QueueFacts DEF Queues
  <2>2. head'[r] = IF r = p /\ count[p] = 0 THEN k ELSE head[r]
    BY DEF PutLast, Listen!TypeOK
  <2> QED BY <1>1, <2>1, <2>2
<1>3. ASSUME NEW i \in 1..count'[r] - 1
      PROVE  q[i] # None /\ q[i + 1] = link'[q[i]]
  <2>1. /\ i \in 1..count'[r] /\ i + 1 \in 1..count'[r] /\ i \in 1..count[r]
        /\ ~ (r = p /\ i = count[p] + 1) /\ count[r] # 0
    BY <1>1
  <2>2. Listen!At(r, i) \in Packets /\ Listen!At(r, i) # k /\ q[i] = Listen!At(r, i)
    BY <2>1, QueuedInPackets DEF PutLast
  <2>3. CASE r = p /\ i = count[p]
    <3>1. tail[p] = Listen!At(p, i) BY <2>1, <2>3 DEF Queues, QueueShape
    <3>2. link'[Listen!At(p, i)] = k BY <2>1, <2>2, <2>3, <3>1 DEF PutLast
    <3> QED BY <2>1, <2>2, <2>3, <3>2 DEF Listen!ListenAssumption
  <2>4. CASE ~ (r = p /\ i = count[p])
    <3>1. i \in 1..count[r] - 1 /\ i + 1 \in 1..count[r] /\ ~ (r = p /\ i + 1 = count[p] + 1)
      BY <1>1, <2>1, <2>4
    <3>2. Listen!At(r, i + 1) = link[Listen!At(r, i)] BY <3>1, QueueFacts DEF Queues
    <3>3. count[p] # 0 => Listen!At(r, i) # tail[p]
      <4> SUFFICES ASSUME count[p] # 0 PROVE Listen!At(r, i) # tail[p]
        OBVIOUS
      <4>1. tail[p] = Listen!At(p, count[p]) /\ count[p] \in 1..count[p]
        BY QueueFacts DEF Queues, QueueShape
      <4> QED BY <2>1, <2>4, <4>1 DEF Queues, QueuesApart
    <3>4. link'[Listen!At(r, i)] = link[Listen!At(r, i)] BY <2>2, <3>3 DEF PutLast
    <3> QED BY <2>1, <2>2, <3>1, <3>2, <3>4 DEF Listen!ListenAssumption
  <2> QED BY <2>3, <2>4
<1> HIDE DEF q
<1>4. Links(q, count'[r], head'[r], link')
  BY <1>1, <1>2, <1>3 DEF Links
<1>5. \A n \in 1..count'[r] : Listen!At(r, n)' = q[n]
  <2>1. count'[r] \in Nat BY <1>1
  <2> QED BY <2>1, <1>4, NextQueueIs
<1> QED BY <1>5 DEF q

(* and the queues are as the invariant says, if x did not wait: now it      *)
(* does, as the only new one.                                               *)
LEMMA PutKeeps ==
  ASSUME Listen!ListenAssumption, Listen!TypeOK, Queues, Listen!TypeOK',
         NEW p \in Ports, NEW x \in Sources, NEW k \in Packets, PutLast(p, x, k),
         x \notin ClientWaits(p)
  PROVE  /\ Queues'
         /\ \A r \in Ports : ClientWaits(r)' \subseteq ClientWaits(r) \cup IF r = p THEN {x} ELSE {}
<1> DEFINE IsNew(r, n) == r = p /\ n = count[p] + 1
<1>1. ASSUME NEW r \in Ports
      PROVE  /\ count[r] \in Nat /\ count'[r] \in Nat
             /\ count'[r] = IF r = p THEN count[p] + 1 ELSE count[r]
  BY QueueFacts DEF PutLast, Listen!TypeOK, Queues
<1>2. ASSUME NEW r \in Ports, NEW n \in 1..count'[r], IsNew(r, n)
      PROVE  Listen!At(r, n)' = k /\ source'[Listen!At(r, n)'] = x
  <2>1. Listen!At(r, n)' = k BY <1>2, PutPlaces
  <2> QED BY <2>1 DEF PutLast, Listen!TypeOK
<1>3. ASSUME NEW r \in Ports, NEW n \in 1..count'[r], ~ IsNew(r, n)
      PROVE  /\ n \in 1..count[r] /\ Listen!At(r, n)' = Listen!At(r, n)
             /\ Listen!At(r, n) \in Packets /\ Listen!At(r, n) \notin pool /\ Listen!At(r, n)' # k
             /\ source'[Listen!At(r, n)'] = source[Listen!At(r, n)]
  <2>1. n \in 1..count[r] BY <1>1, <1>3
  <2>2. Listen!At(r, n)' = Listen!At(r, n) BY <1>3, PutPlaces
  <2>3. Listen!At(r, n) \in Packets /\ Listen!At(r, n) \notin pool BY <2>1, QueuedInPackets
  <2> QED BY <2>1, <2>2, <2>3 DEF PutLast, Listen!TypeOK
<1>4. QueueShape'
  <2>1. ASSUME NEW r \in Ports, NEW n \in 1..count'[r] PROVE Listen!At(r, n)' \in Packets \ pool'
    <3>1. CASE IsNew(r, n) BY <1>2, <3>1 DEF PutLast
    <3>2. CASE ~ IsNew(r, n)
      <4> HIDE DEF IsNew
      <4> QED BY <1>3, <3>2 DEF PutLast
    <3> QED BY <3>1, <3>2
  <2>2. ASSUME NEW r \in Ports, count'[r] = 0 PROVE head'[r] = None
    BY <1>1, <2>2 DEF PutLast, Listen!TypeOK, Queues, QueueShape
  <2>3. ASSUME NEW r \in Ports, count'[r] # 0
        PROVE  tail'[r] = Listen!At(r, count[r])' /\ link'[tail'[r]] = None
    <3>1. PICK z \in 1..count'[r] : z = count'[r] BY <1>1, <2>3
    <3>2. Listen!At(r, count[r])' = Listen!At(r, z)'
      <4>1. Listen!At(r, count[r])' = Chain(head'[r], link', count'[r])
        BY DEF Listen!At, Chain, Listen!Linked
      <4> QED BY <3>1, <4>1, AtIsChainNext
    <3>3. CASE r = p
      <4>1. IsNew(r, z) BY <1>1, <3>1, <3>3
      <4>2. Listen!At(r, z)' = k BY <1>2, <4>1
      <4> QED BY <3>2, <3>3, <4>2 DEF PutLast, Listen!TypeOK
    <3>4. CASE r # p
      <4>1. ~ IsNew(r, z) /\ z = count[r] /\ count[r] # 0 BY <1>1, <2>3, <3>1, <3>4
      <4>2. Listen!At(r, z)' = Listen!At(r, z) /\ Listen!At(r, z) \in Packets /\ Listen!At(r, z)' # k
        BY <1>3, <4>1
      <4>3. tail'[r] = tail[r] /\ tail[r] = Listen!At(r, z) /\ link[tail[r]] = None
        BY <3>4, <4>1 DEF PutLast, Listen!TypeOK, Queues, QueueShape
      <4>4. count[p] # 0 => Listen!At(r, z) # tail[p]
        <5> SUFFICES ASSUME count[p] # 0 PROVE Listen!At(r, z) # tail[p]
          OBVIOUS
        <5>1. tail[p] = Listen!At(p, count[p]) /\ count[p] \in 1..count[p] /\ z \in 1..count[r]
          BY <1>1, <4>1 DEF Queues, QueueShape
        <5> QED BY <3>4, <5>1 DEF Queues, QueuesApart
      <4>5. link'[Listen!At(r, z)] = link[Listen!At(r, z)] BY <4>2, <4>4 DEF PutLast
      <4> QED BY <3>2, <4>2, <4>3, <4>5
    <3> QED BY <3>3, <3>4
  <2> QED BY <2>1, <2>2, <2>3 DEF QueueShape
<1>5. QueuesApart'
  <2> SUFFICES ASSUME NEW r \in Ports, NEW u \in Ports, NEW i \in 1..count'[r],
                      NEW j \in 1..count'[u], Listen!At(r, i)' = Listen!At(u, j)'
               PROVE  r = u /\ i = j
    BY DEF QueuesApart
  <2>1. IsNew(r, i) <=> IsNew(u, j)
    <3> HIDE DEF IsNew
    <3> QED BY <1>2, <1>3
  <2>2. CASE IsNew(r, i) BY <2>1, <2>2
  <2>3. CASE ~ IsNew(r, i)
    <3> HIDE DEF IsNew
    <3>1. Listen!At(r, i) = Listen!At(u, j) /\ i \in 1..count[r] /\ j \in 1..count[u]
      BY <1>3, <2>1, <2>3
    <3> QED BY <3>1 DEF Queues, QueuesApart
  <2> QED BY <2>2, <2>3
<1>6. PoolRest'
  <2> SUFFICES ASSUME NEW j \in Packets, j \notin pool'
               PROVE  \E r \in Ports : \E n \in 1..count'[r] : Listen!At(r, n)' = j
    BY DEF PoolRest
  <2>1. CASE j = k
    <3>1. count[p] + 1 \in 1..count'[p] /\ IsNew(p, count[p] + 1) BY <1>1
    <3>2. PICK n \in 1..count'[p] : IsNew(p, n) BY <3>1
    <3> QED BY <1>2, <2>1, <3>2
  <2>2. CASE j # k
    <3>1. PICK r \in Ports : \E n \in 1..count[r] : Listen!At(r, n) = j
      BY <2>2 DEF PutLast, Queues, PoolRest
    <3>2. PICK n \in 1..count[r] : Listen!At(r, n) = j BY <3>1
    <3>3. n \in 1..count'[r] /\ ~ IsNew(r, n) BY <1>1
    <3> QED BY <1>3, <3>2, <3>3
  <2> QED BY <2>1, <2>2
<1>7. ASSUME NEW r \in Ports, NEW n \in 1..count'[r], ~ IsNew(r, n)
      PROVE  source'[Listen!At(r, n)'] = source[Listen!At(r, n)] /\ source[Listen!At(r, n)] \in ClientWaits(r)
             /\ source[Listen!At(r, n)] \in Sources
  <2> HIDE DEF IsNew
  <2> QED BY <1>3, <1>7 DEF ClientWaits, Queues, OnePlaceEach
<1>8. OnePlaceEach'
  <2>1. ASSUME NEW r \in Ports, NEW n \in 1..count'[r] PROVE source'[Listen!At(r, n)'] \in Sources
    <3> HIDE DEF IsNew
    <3> QED BY <1>2, <1>7
  <2>2. ASSUME NEW r \in Ports, NEW i \in 1..count'[r], NEW j \in 1..count'[r],
               source'[Listen!At(r, i)'] = source'[Listen!At(r, j)']
        PROVE  i = j
    <3>1. CASE IsNew(r, i) /\ IsNew(r, j) BY <3>1
    <3>2. CASE IsNew(r, i) /\ ~ IsNew(r, j) BY <1>2, <1>7, <2>2, <3>2
    <3>3. CASE ~ IsNew(r, i) /\ IsNew(r, j) BY <1>2, <1>7, <2>2, <3>3
    <3>4. CASE ~ IsNew(r, i) /\ ~ IsNew(r, j)
      <4> HIDE DEF IsNew
      <4>1. source[Listen!At(r, i)] = source[Listen!At(r, j)] /\ i \in 1..count[r] /\ j \in 1..count[r]
        BY <1>3, <1>7, <2>2, <3>4
      <4> QED BY <4>1 DEF Queues, OnePlaceEach
    <3> QED BY <3>1, <3>2, <3>3, <3>4
  <2> QED BY <2>1, <2>2 DEF OnePlaceEach
<1>9. ASSUME NEW r \in Ports
      PROVE  ClientWaits(r)' \subseteq ClientWaits(r) \cup IF r = p THEN {x} ELSE {}
  <2>1. ASSUME NEW n \in 1..count'[r]
        PROVE  source'[Listen!At(r, n)'] \in ClientWaits(r) \cup IF r = p THEN {x} ELSE {}
    BY <1>2, <1>7
  <2> QED BY <2>1 DEF ClientWaits
<1> QED BY <1>4, <1>5, <1>6, <1>8, <1>9 DEF Queues

-----------------------------------------------------------------------------
(* The oldest packet of p gives way to k with a SYN of x.                   *)
Shifted(p, x, k) ==
  /\ k \in pool /\ pool' = (pool \ {k}) \cup {Listen!At(p, 1)}
  /\ count' = count
  /\ head' = [head EXCEPT ![p] = IF count[p] = 1 THEN k ELSE Listen!At(p, 2)]
  /\ tail' = [tail EXCEPT ![p] = k]
  /\ source'[k] = x /\ link'[k] = None
  /\ \A j \in Packets \ {k, Listen!At(p, 1)} :
       /\ source'[j] = source[j]
       /\ link'[j] = IF j = tail[p] THEN k ELSE link[j]

(* Then each place of p has the packet that was behind it, and the last one *)
(* has k,                                                                   *)
LEMMA ShiftedPlaces ==
  ASSUME Listen!ListenAssumption, Listen!TypeOK, Queues, Listen!TypeOK',
         NEW p \in Ports, NEW x \in Sources, NEW k \in Packets, count[p] # 0,
         Shifted(p, x, k), NEW r \in Ports
  PROVE  \A n \in 1..count'[r] :
           Listen!At(r, n)' = IF r # p THEN Listen!At(r, n) ELSE IF n = count[p] THEN k ELSE Listen!At(p, n + 1)
<1> DEFINE q == [n \in 1..count'[r] |->
                   IF r # p THEN Listen!At(r, n) ELSE IF n = count[p] THEN k ELSE Listen!At(p, n + 1)]
<1>1. count[r] \in Nat /\ count'[r] = count[r] /\ count[p] \in Nat
  BY QueueFacts DEF Shifted, Listen!TypeOK, Queues
<1>2. count'[r] > 0 => q[1] = head'[r]
  <2> SUFFICES ASSUME count'[r] > 0 PROVE q[1] = head'[r]
    OBVIOUS
  <2>1. head[r] = Listen!At(r, 1) BY <1>1, QueueFacts DEF Queues
  <2> QED BY <1>1, <2>1 DEF Shifted, Listen!TypeOK
<1>3. ASSUME NEW i \in 1..count'[r] - 1
      PROVE  q[i] # None /\ q[i + 1] = link'[q[i]]
  <2>1. /\ i \in 1..count'[r] /\ i + 1 \in 1..count'[r] /\ i \in 1..count[r]
        /\ i \in 1..count[r] - 1 /\ i + 1 \in 1..count[r] /\ i # count[r]
    BY <1>1
  <2>2. count[p] \in 1..count[p] /\ 1 \in 1..count[p] /\ tail[p] = Listen!At(p, count[p])
    BY <1>1 DEF Queues, QueueShape
  <2>3. CASE r # p
    <3>1. Listen!At(r, i) \in Packets /\ Listen!At(r, i) # k /\ Listen!At(r, i) # Listen!At(p, 1)
      BY <2>1, <2>2, <2>3, QueuedInPackets DEF Shifted, Queues, QueuesApart
    <3>2. Listen!At(r, i) # tail[p] BY <2>1, <2>2, <2>3 DEF Queues, QueuesApart
    <3>3. link'[Listen!At(r, i)] = link[Listen!At(r, i)] BY <3>1, <3>2 DEF Shifted
    <3>4. Listen!At(r, i + 1) = link[Listen!At(r, i)] BY <2>1, QueueFacts DEF Queues
    <3> QED BY <2>1, <2>3, <3>1, <3>3, <3>4 DEF Listen!ListenAssumption
  <2>4. CASE r = p
    <3>1. Listen!At(p, i + 1) \in Packets /\ Listen!At(p, i + 1) # k /\ Listen!At(p, i + 1) # Listen!At(p, 1)
      <4>1. i + 1 # 1 BY <1>1
      <4> QED BY <2>1, <2>2, <2>4, <4>1, QueuedInPackets DEF Shifted, Queues, QueuesApart
    <3>2. q[i] = Listen!At(p, i + 1) BY <2>1, <2>4
    <3>3. CASE i + 1 = count[p]
      <4>1. link'[Listen!At(p, i + 1)] = k BY <2>2, <3>1, <3>3 DEF Shifted
      <4> QED BY <2>1, <2>4, <3>1, <3>2, <3>3, <4>1 DEF Listen!ListenAssumption
    <3>4. CASE i + 1 # count[p]
      <4>1. Listen!At(p, i + 1) # tail[p]
        BY <2>1, <2>2, <2>4, <3>4 DEF Queues, QueuesApart
      <4>2. link'[Listen!At(p, i + 1)] = link[Listen!At(p, i + 1)] BY <3>1, <4>1 DEF Shifted
      <4>3. i + 1 \in 1..count[p] - 1 BY <1>1, <2>1, <2>4, <3>4
      <4>4. Listen!At(p, i + 1 + 1) = link[Listen!At(p, i + 1)] BY <4>3, QueueFacts DEF Queues
      <4> QED BY <2>1, <2>4, <3>1, <3>2, <3>4, <4>2, <4>4 DEF Listen!ListenAssumption
    <3> QED BY <3>3, <3>4
  <2> QED BY <2>3, <2>4
<1> HIDE DEF q
<1>4. Links(q, count'[r], head'[r], link')
  BY <1>1, <1>2, <1>3 DEF Links
<1>5. \A n \in 1..count'[r] : Listen!At(r, n)' = q[n]
  <2>1. count'[r] \in Nat BY <1>1
  <2> QED BY <2>1, <1>4, NextQueueIs
<1> QED BY <1>5 DEF q

(* and the queues are as the invariant says, if x did not wait.             *)
LEMMA ShiftedKeeps ==
  ASSUME Listen!ListenAssumption, Listen!TypeOK, Queues, Listen!TypeOK',
         NEW p \in Ports, NEW x \in Sources, NEW k \in Packets, count[p] # 0,
         Shifted(p, x, k), x \notin ClientWaits(p)
  PROVE  /\ Queues'
         /\ \A r \in Ports : ClientWaits(r)' \subseteq ClientWaits(r) \cup IF r = p THEN {x} ELSE {}
<1> DEFINE IsNew(r, n) == r = p /\ n = count[p]
           old(r, n) == IF r = p THEN n + 1 ELSE n
<1>1. ASSUME NEW r \in Ports
      PROVE  count[r] \in Nat /\ count'[r] = count[r]
  BY QueueFacts DEF Shifted, Listen!TypeOK, Queues
<1>0. /\ count[p] \in 1..count[p] /\ 1 \in 1..count[p] /\ tail[p] = Listen!At(p, count[p])
      /\ Listen!At(p, 1) \in Packets /\ Listen!At(p, 1) # k /\ Listen!At(p, 1) \notin pool
  BY <1>1, QueuedInPackets DEF Shifted, Queues, QueueShape
<1>2. ASSUME NEW r \in Ports, NEW n \in 1..count'[r], IsNew(r, n)
      PROVE  Listen!At(r, n)' = k /\ source'[Listen!At(r, n)'] = x
  <2>1. Listen!At(r, n)' = k BY <1>2, ShiftedPlaces
  <2> QED BY <2>1 DEF Shifted
<1>3. ASSUME NEW r \in Ports, NEW n \in 1..count'[r], ~ IsNew(r, n)
      PROVE  /\ old(r, n) \in 1..count[r] /\ Listen!At(r, n)' = Listen!At(r, old(r, n))
             /\ Listen!At(r, n)' \in Packets /\ Listen!At(r, n)' \notin pool
             /\ Listen!At(r, n)' # k /\ Listen!At(r, n)' # Listen!At(p, 1)
             /\ source'[Listen!At(r, n)'] = source[Listen!At(r, old(r, n))]
  <2>1. old(r, n) \in 1..count[r] BY <1>1, <1>3
  <2>2. Listen!At(r, n)' = Listen!At(r, old(r, n)) BY <1>3, ShiftedPlaces
  <2>3. r = p => old(r, n) # 1 BY <1>1
  <2> HIDE DEF old
  <2>4. Listen!At(r, old(r, n)) \in Packets /\ Listen!At(r, old(r, n)) \notin pool
    BY <2>1, QueuedInPackets
  <2>5. Listen!At(r, old(r, n)) # Listen!At(p, 1) BY <1>0, <2>1, <2>3 DEF Queues, QueuesApart
  <2>6. Listen!At(r, old(r, n)) # k BY <2>4 DEF Shifted
  <2> QED BY <2>1, <2>2, <2>4, <2>5, <2>6 DEF Shifted
<1>4. QueueShape'
  <2>1. ASSUME NEW r \in Ports, NEW n \in 1..count'[r] PROVE Listen!At(r, n)' \in Packets \ pool'
    <3>1. CASE IsNew(r, n) BY <1>0, <1>2, <3>1 DEF Shifted
    <3>2. CASE ~ IsNew(r, n)
      <4> HIDE DEF IsNew, old
      <4> QED BY <1>3, <3>2 DEF Shifted
    <3> QED BY <3>1, <3>2
  <2>2. ASSUME NEW r \in Ports, count'[r] = 0 PROVE head'[r] = None
    BY <1>1, <2>2 DEF Shifted, Listen!TypeOK, Queues, QueueShape
  <2>3. ASSUME NEW r \in Ports, count'[r] # 0
        PROVE  tail'[r] = Listen!At(r, count[r])' /\ link'[tail'[r]] = None
    <3>1. PICK z \in 1..count'[r] : z = count'[r] BY <1>1, <2>3
    <3>2. Listen!At(r, count[r])' = Listen!At(r, z)'
      <4>1. Listen!At(r, count[r])' = Chain(head'[r], link', count'[r])
        BY DEF Listen!At, Chain, Listen!Linked
      <4> QED BY <3>1, <4>1, AtIsChainNext
    <3>3. CASE r = p
      <4>1. IsNew(r, z) BY <1>1, <3>1, <3>3
      <4>2. Listen!At(r, z)' = k BY <1>2, <4>1
      <4> QED BY <3>2, <3>3, <4>2 DEF Shifted, Listen!TypeOK
    <3>4. CASE r # p
      <4>1. ~ IsNew(r, z) /\ z = count[r] /\ count[r] # 0 /\ old(r, z) = z
        BY <1>1, <2>3, <3>1, <3>4
      <4>2. /\ Listen!At(r, z)' = Listen!At(r, z) /\ Listen!At(r, z) \in Packets
            /\ Listen!At(r, z) # k /\ Listen!At(r, z) # Listen!At(p, 1)
        BY <1>3, <4>1
      <4>3. tail'[r] = tail[r] /\ tail[r] = Listen!At(r, z) /\ link[tail[r]] = None
        BY <3>4, <4>1 DEF Shifted, Listen!TypeOK, Queues, QueueShape
      <4>4. Listen!At(r, z) # tail[p]
        BY <1>0, <1>1, <3>1, <3>4, <4>1 DEF Queues, QueuesApart
      <4>5. link'[Listen!At(r, z)] = link[Listen!At(r, z)] BY <4>2, <4>4 DEF Shifted
      <4> QED BY <3>2, <4>2, <4>3, <4>5
    <3> QED BY <3>3, <3>4
  <2> QED BY <2>1, <2>2, <2>3 DEF QueueShape
<1>5. ASSUME NEW r \in Ports, NEW u \in Ports, NEW i \in 1..count'[r], NEW j \in 1..count'[u]
      PROVE  r = u /\ old(r, i) = old(u, j) => i = j
  BY <1>1
<1>6. QueuesApart'
  <2> SUFFICES ASSUME NEW r \in Ports, NEW u \in Ports, NEW i \in 1..count'[r],
                      NEW j \in 1..count'[u], Listen!At(r, i)' = Listen!At(u, j)'
               PROVE  r = u /\ i = j
    BY DEF QueuesApart
  <2>1. IsNew(r, i) <=> IsNew(u, j)
    <3> HIDE DEF IsNew, old
    <3> QED BY <1>2, <1>3
  <2>2. CASE IsNew(r, i) BY <2>1, <2>2
  <2>3. CASE ~ IsNew(r, i)
    <3> HIDE DEF IsNew, old
    <3>1. /\ Listen!At(r, old(r, i)) = Listen!At(u, old(u, j))
          /\ old(r, i) \in 1..count[r] /\ old(u, j) \in 1..count[u]
      BY <1>3, <2>1, <2>3
    <3>2. r = u /\ old(r, i) = old(u, j) BY <3>1 DEF Queues, QueuesApart
    <3> QED BY <1>5, <3>2
  <2> QED BY <2>2, <2>3
<1>7. PoolRest'
  <2> SUFFICES ASSUME NEW j \in Packets, j \notin pool'
               PROVE  \E r \in Ports : \E n \in 1..count'[r] : Listen!At(r, n)' = j
    BY DEF PoolRest
  <2>1. CASE j = k
    <3>1. count[p] \in 1..count'[p] /\ IsNew(p, count[p]) BY <1>0, <1>1
    <3>2. PICK n \in 1..count'[p] : IsNew(p, n) BY <3>1
    <3> QED BY <1>2, <2>1, <3>2
  <2>2. CASE j # k
    <3>1. PICK r \in Ports : \E n \in 1..count[r] : Listen!At(r, n) = j
      BY <2>2 DEF Shifted, Queues, PoolRest
    <3>2. PICK n \in 1..count[r] : Listen!At(r, n) = j BY <3>1
    <3>3. r = p => n # 1 BY <3>2 DEF Shifted
    <3> DEFINE new == IF r = p THEN n - 1 ELSE n
    <3>4. new \in 1..count'[r] /\ ~ IsNew(r, new) /\ old(r, new) = n BY <1>1, <3>3
    <3> HIDE DEF new, old
    <3> QED BY <1>3, <3>2, <3>4
  <2> QED BY <2>1, <2>2
<1>8. ASSUME NEW r \in Ports, NEW n \in 1..count'[r], ~ IsNew(r, n)
      PROVE  /\ source'[Listen!At(r, n)'] = source[Listen!At(r, old(r, n))]
             /\ source[Listen!At(r, old(r, n))] \in ClientWaits(r) /\ source[Listen!At(r, old(r, n))] \in Sources
  <2> HIDE DEF IsNew, old
  <2> QED BY <1>3, <1>8 DEF ClientWaits, Queues, OnePlaceEach
<1>9. OnePlaceEach'
  <2>1. ASSUME NEW r \in Ports, NEW n \in 1..count'[r] PROVE source'[Listen!At(r, n)'] \in Sources
    <3> HIDE DEF IsNew, old
    <3> QED BY <1>2, <1>8
  <2>2. ASSUME NEW r \in Ports, NEW i \in 1..count'[r], NEW j \in 1..count'[r],
               source'[Listen!At(r, i)'] = source'[Listen!At(r, j)']
        PROVE  i = j
    <3>1. CASE IsNew(r, i) /\ IsNew(r, j) BY <3>1
    <3>2. CASE IsNew(r, i) /\ ~ IsNew(r, j) BY <1>2, <1>8, <2>2, <3>2
    <3>3. CASE ~ IsNew(r, i) /\ IsNew(r, j) BY <1>2, <1>8, <2>2, <3>3
    <3>4. CASE ~ IsNew(r, i) /\ ~ IsNew(r, j)
      <4> HIDE DEF IsNew, old
      <4>1. /\ source[Listen!At(r, old(r, i))] = source[Listen!At(r, old(r, j))]
            /\ old(r, i) \in 1..count[r] /\ old(r, j) \in 1..count[r]
        BY <1>3, <1>8, <2>2, <3>4
      <4>2. old(r, i) = old(r, j) BY <4>1 DEF Queues, OnePlaceEach
      <4> QED BY <1>5, <4>2
    <3> QED BY <3>1, <3>2, <3>3, <3>4
  <2> QED BY <2>1, <2>2 DEF OnePlaceEach
<1>10. ASSUME NEW r \in Ports
       PROVE  ClientWaits(r)' \subseteq ClientWaits(r) \cup IF r = p THEN {x} ELSE {}
  <2>1. ASSUME NEW n \in 1..count'[r]
        PROVE  source'[Listen!At(r, n)'] \in ClientWaits(r) \cup IF r = p THEN {x} ELSE {}
    <3> HIDE DEF old
    <3> QED BY <1>2, <1>8
  <2> QED BY <2>1 DEF ClientWaits
<1> QED BY <1>4, <1>6, <1>7, <1>9, <1>10 DEF Queues

-----------------------------------------------------------------------------
(* The queues of the ports in P are emptied, the others stay.               *)
Emptied(P) ==
  /\ \A r \in Ports \ P :
       count'[r] = count[r] /\ head'[r] = head[r] /\ (count[r] # 0 => tail'[r] = tail[r])
  /\ \A r \in P : count'[r] = 0 /\ head'[r] = None
  /\ pool' = pool \cup {k \in Packets : \E r \in P : \E n \in 1..count[r] : Listen!At(r, n) = k}
  /\ \A k \in Packets \ pool' : link'[k] = link[k] /\ source'[k] = source[k]

(* Then the other queues have the same packets at the same places,          *)
LEMMA EmptiedPlaces ==
  ASSUME Listen!ListenAssumption, Listen!TypeOK, Queues, Listen!TypeOK',
         NEW P \in SUBSET Ports, Emptied(P), NEW r \in Ports \ P
  PROVE  \A n \in 1..count'[r] :
           /\ n \in 1..count[r] /\ Listen!At(r, n)' = Listen!At(r, n)
           /\ Listen!At(r, n) \in Packets /\ Listen!At(r, n) \notin pool'
<1> DEFINE q == [n \in 1..count'[r] |-> Listen!At(r, n)]
<1>1. count[r] \in Nat /\ count'[r] = count[r]
  BY QueueFacts DEF Emptied, Queues
<1>2. ASSUME NEW n \in 1..count[r] PROVE Listen!At(r, n) \in Packets /\ Listen!At(r, n) \notin pool'
  BY QueuedInPackets DEF Emptied, Queues, QueuesApart
<1>3. count'[r] > 0 => q[1] = head'[r]
  BY <1>1, QueueFacts DEF Emptied, Queues
<1>4. ASSUME NEW i \in 1..count'[r] - 1
      PROVE  q[i] # None /\ q[i + 1] = link'[q[i]]
  <2>1. /\ i \in 1..count'[r] /\ i + 1 \in 1..count'[r] /\ i \in 1..count[r]
        /\ i \in 1..count[r] - 1
    BY <1>1
  <2>2. Listen!At(r, i + 1) = link[Listen!At(r, i)] BY <2>1, QueueFacts DEF Queues
  <2>3. link'[Listen!At(r, i)] = link[Listen!At(r, i)] BY <1>2, <2>1 DEF Emptied
  <2> QED BY <1>2, <2>1, <2>2, <2>3 DEF Listen!ListenAssumption
<1> HIDE DEF q
<1>5. Links(q, count'[r], head'[r], link')
  BY <1>1, <1>3, <1>4 DEF Links
<1>6. PICK m \in Nat : m = count'[r]
  BY <1>1
<1>7. Links(q, m, head'[r], link')
  BY <1>5, <1>6
<1>8. \A n \in 1..m : Listen!At(r, n)' = q[n]
  BY <1>7, NextQueueIs
<1> QED BY <1>1, <1>2, <1>6, <1>8 DEF q

(* and the queues are as the invariant says; nobody waits who did not.      *)
LEMMA EmptiedKeeps ==
  ASSUME Listen!ListenAssumption, Listen!TypeOK, Queues, Listen!TypeOK', NEW P \in SUBSET Ports, Emptied(P)
  PROVE  Queues' /\ \A r \in Ports : ClientWaits(r)' \subseteq ClientWaits(r)
<1>1. ASSUME NEW r \in Ports PROVE count[r] \in Nat
  BY QueueFacts DEF Queues
<1>2. ASSUME NEW r \in Ports, NEW n \in 1..count'[r]
      PROVE  /\ r \notin P /\ n \in 1..count[r] /\ Listen!At(r, n)' = Listen!At(r, n)
             /\ Listen!At(r, n) \in Packets /\ Listen!At(r, n) \notin pool'
             /\ source'[Listen!At(r, n)] = source[Listen!At(r, n)]
  <2>1. r \notin P BY DEF Emptied
  <2>2. /\ n \in 1..count[r] /\ Listen!At(r, n)' = Listen!At(r, n)
        /\ Listen!At(r, n) \in Packets /\ Listen!At(r, n) \notin pool'
    BY <2>1, EmptiedPlaces
  <2> QED BY <2>1, <2>2 DEF Emptied
<1>3. QueueShape'
  <2>1. ASSUME NEW r \in Ports, count'[r] = 0 PROVE head'[r] = None
    BY <2>1 DEF Emptied, Queues, QueueShape
  <2>2. ASSUME NEW r \in Ports, count'[r] # 0
        PROVE  tail'[r] = Listen!At(r, count[r])' /\ link'[tail'[r]] = None
    <3>1. r \notin P /\ count'[r] = count[r] BY <2>2 DEF Emptied
    <3>2. PICK z \in 1..count'[r] : z = count'[r] BY <1>1, <2>2, <3>1
    <3>3. Listen!At(r, count[r])' = Listen!At(r, z)'
      <4>1. Listen!At(r, count[r])' = Chain(head'[r], link', count'[r])
        BY DEF Listen!At, Chain, Listen!Linked
      <4> QED BY <3>2, <4>1, AtIsChainNext
    <3>4. tail'[r] = tail[r] /\ tail[r] = Listen!At(r, z) /\ link[tail[r]] = None
      BY <2>2, <3>1, <3>2 DEF Emptied, Queues, QueueShape
    <3> QED BY <1>2, <3>2, <3>3, <3>4 DEF Emptied
  <2> QED BY <1>2, <2>1, <2>2 DEF QueueShape
<1>4. QueuesApart'
  BY <1>2 DEF Queues, QueuesApart
<1>5. PoolRest'
  <2> SUFFICES ASSUME NEW j \in Packets, j \notin pool'
               PROVE  \E r \in Ports : \E n \in 1..count'[r] : Listen!At(r, n)' = j
    BY DEF PoolRest
  <2>1. PICK r \in Ports : \E n \in 1..count[r] : Listen!At(r, n) = j
    BY DEF Emptied, Queues, PoolRest
  <2>2. PICK n \in 1..count[r] : Listen!At(r, n) = j BY <2>1
  <2>3. r \notin P BY <2>2 DEF Emptied
  <2>4. n \in 1..count'[r] BY <2>3 DEF Emptied
  <2> QED BY <1>2, <2>2, <2>4
<1>6. OnePlaceEach'
  BY <1>2 DEF Queues, OnePlaceEach
<1>7. ASSUME NEW r \in Ports PROVE ClientWaits(r)' \subseteq ClientWaits(r)
  BY <1>2 DEF ClientWaits
<1> QED BY <1>3, <1>4, <1>5, <1>6, <1>7 DEF Queues

-----------------------------------------------------------------------------
(* The head and the tail of a queue.                                        *)
LEMMA HeadFacts ==
  ASSUME Listen!ListenAssumption, Listen!TypeOK, Queues, NEW p \in Ports
  PROVE  /\ head[p] = None <=> count[p] = 0
         /\ count[p] # 0 =>
              /\ 1 \in 1..count[p] /\ count[p] \in 1..count[p]
              /\ head[p] = Listen!At(p, 1) /\ head[p] \in Packets /\ head[p] \notin pool
              /\ tail[p] = Listen!At(p, count[p]) /\ tail[p] \in Packets /\ tail[p] \notin pool
              /\ count[p] # 1 => 2 \in 1..count[p] /\ link[head[p]] = Listen!At(p, 2)
              /\ count[p] = 1 => head[p] = tail[p]
<1>1. count[p] \in Nat BY QueueFacts DEF Queues
<1>2. ASSUME count[p] # 0
      PROVE  /\ 1 \in 1..count[p] /\ count[p] \in 1..count[p]
             /\ head[p] = Listen!At(p, 1) /\ head[p] \in Packets /\ head[p] \notin pool
             /\ tail[p] = Listen!At(p, count[p]) /\ tail[p] \in Packets /\ tail[p] \notin pool
  <2>1. 1 \in 1..count[p] /\ count[p] \in 1..count[p] BY <1>1, <1>2
  <2>2. head[p] = Listen!At(p, 1) /\ tail[p] = Listen!At(p, count[p])
    BY <1>2, QueueFacts DEF Queues, QueueShape
  <2> QED BY <2>1, <2>2, QueuedInPackets
<1>3. ASSUME count[p] # 0, count[p] # 1 PROVE 2 \in 1..count[p] /\ link[head[p]] = Listen!At(p, 2)
  <2>1. 1 \in 1..count[p] - 1 /\ 2 \in 1..count[p] BY <1>1, <1>3
  <2>2. Listen!At(p, 1 + 1) = link[Listen!At(p, 1)] BY <2>1, QueueFacts DEF Queues
  <2> QED BY <1>2, <1>3, <2>1, <2>2
<1>4. count[p] = 1 => head[p] = tail[p] BY <1>2
<1>5. count[p] = 0 => head[p] = None BY DEF Queues, QueueShape
<1>6. count[p] # 0 => head[p] # None BY <1>2 DEF Listen!ListenAssumption
<1> QED BY <1>2, <1>3, <1>4, <1>5, <1>6

(* The test of SynQueue, by the sources of a port's backlog, and the set of *)
(* those that wait are the same.                                            *)
LEMMA QueuedWaits ==
  ASSUME Listen!ListenAssumption, Listen!TypeOK, Queues, NEW p \in Ports, NEW x
  PROVE  Listen!Queued(p, x) <=> x \in ClientWaits(p)
<1>1. ASSUME NEW n \in 1..count[p] PROVE Listen!BacklogOf(p)[n] = source[Listen!At(p, n)]
  BY QueuedInPackets DEF Listen!BacklogOf, Listen!SourceOf, Listen!ListenAssumption
<1> QED BY <1>1 DEF Listen!Queued, ClientWaits

(* A SYN that is queued comes last, or drives out the oldest, or, with a    *)
(* queue of length 0, is dropped itself.                                    *)
LEMMA PutsOrShifts ==
  ASSUME Listen!ListenAssumption, Listen!TypeOK, Queues, NEW p \in Ports, NEW x \in Sources,
         NEW k \in Packets, Listen!SynQueue(p, x, k)
  PROVE  \/ PutLast(p, x, k) /\ count[p] < MaxQueue
         \/ Shifted(p, x, k) /\ count[p] # 0
         \/ Emptied({}) /\ UNCHANGED count
<1>1. Listen!Enqueue(p, x, k, TRUE) /\ k \in pool BY DEF Listen!SynQueue
<1>2. CASE count[p] < MaxQueue /\ count[p] = 0
  <2>1. head[p] = None BY <1>2, HeadFacts
  <2> QED BY <1>1, <1>2, <2>1 DEF Listen!Enqueue, PutLast, Listen!TypeOK
<1>3. CASE count[p] < MaxQueue /\ count[p] # 0
  <2>1. head[p] # None /\ tail[p] \in Packets /\ tail[p] # k BY <1>1, <1>3, HeadFacts
  <2> QED BY <1>1, <1>3, <2>1 DEF Listen!Enqueue, PutLast, Listen!TypeOK
<1>4. CASE ~ (count[p] < MaxQueue) /\ count[p] = 0
  <2>1. head[p] = None BY <1>4, HeadFacts
  <2> DEFINE l == [link EXCEPT ![k] = None]
  <2>2. /\ head' = [head EXCEPT ![p] = l[k]] /\ pool' = (pool \ {k}) \cup {k}
        /\ tail' = [tail EXCEPT ![p] = k] /\ UNCHANGED count
        /\ source' = [source EXCEPT ![k] = x, ![k] = None] /\ link' = [l EXCEPT ![k] = None]
    BY <1>1, <1>4, <2>1 DEF Listen!Enqueue
  <2>3. l[k] = None /\ pool' = pool
    BY <1>1, <2>2 DEF Listen!TypeOK
  <2>4. \A j \in Packets \ {k} : link'[j] = link[j] /\ source'[j] = source[j]
    BY <2>2 DEF Listen!TypeOK
  <2>5. \A r \in Ports : head'[r] = head[r] /\ (r # p => tail'[r] = tail[r])
    BY <2>1, <2>2, <2>3 DEF Listen!TypeOK
  <2> QED BY <1>1, <1>4, <2>2, <2>3, <2>4, <2>5 DEF Emptied
<1>5. CASE ~ (count[p] < MaxQueue) /\ count[p] # 0
  <2>1. /\ head[p] # None /\ tail[p] \in Packets /\ tail[p] # k /\ head[p] # k
        /\ head[p] = Listen!At(p, 1) /\ head[p] \in Packets
        /\ (count[p] = 1 => head[p] = tail[p]) /\ (count[p] # 1 => link[head[p]] = Listen!At(p, 2))
    BY <1>1, <1>5, HeadFacts
  <2>2. count[p] # 1 => head[p] # tail[p]
    <3> SUFFICES ASSUME count[p] # 1 PROVE Listen!At(p, 1) # Listen!At(p, count[p])
      BY <1>5, HeadFacts
    <3> QED BY <1>5, HeadFacts DEF Queues, QueuesApart
  <2> DEFINE l == [link EXCEPT ![k] = None, ![tail[p]] = k]
  <2>3. /\ tail' = [tail EXCEPT ![p] = k] /\ UNCHANGED count
        /\ head' = [head EXCEPT ![p] = l[head[p]]]
        /\ pool' = (pool \ {k}) \cup {head[p]}
        /\ source' = [source EXCEPT ![k] = x, ![head[p]] = None]
        /\ link' = [l EXCEPT ![head[p]] = None]
    BY <1>1, <1>5, <2>1 DEF Listen!Enqueue
  <2>4. l[head[p]] = IF count[p] = 1 THEN k ELSE Listen!At(p, 2)
    BY <2>1, <2>2 DEF Listen!TypeOK
  <2>5. link'[k] = None /\ source'[k] = x
    BY <2>1, <2>3 DEF Listen!TypeOK
  <2>6. \A j \in Packets \ {k, Listen!At(p, 1)} :
          source'[j] = source[j] /\ link'[j] = IF j = tail[p] THEN k ELSE link[j]
    BY <2>1, <2>3 DEF Listen!TypeOK
  <2> HIDE DEF l
  <2> QED BY <1>1, <1>5, <2>1, <2>3, <2>4, <2>5, <2>6 DEF Shifted
<1> QED BY <1>2, <1>3, <1>4, <1>5

(* A RST takes the packet of its source out,                                *)
LEMMA RstRemoves ==
  ASSUME Listen!ListenAssumption, Listen!TypeOK, Queues, NEW p \in Ports, NEW x \in Sources, Listen!RstQueue(p, x)
  PROVE  \E m \in 1..count[p] : Removed(p, m) /\ source[Listen!At(p, m)] = x
<1> DEFINE before(m) == IF m = 1 THEN Listen!At(p, m) ELSE Listen!At(p, m - 1)
<1>1. PICK m \in 1..count[p] :
        /\ source[Listen!At(p, m)] = x
        /\ head' = [head EXCEPT ![p] = IF m = 1 THEN link[Listen!At(p, m)] ELSE @]
        /\ link' = [link EXCEPT ![before(m)] = link[Listen!At(p, m)], ![Listen!At(p, m)] = None]
        /\ source' = [source EXCEPT ![Listen!At(p, m)] = None]
        /\ tail' = [tail EXCEPT ![p] = IF @ = Listen!At(p, m) THEN before(m) ELSE @]
        /\ pool' = pool \cup {Listen!At(p, m)} /\ count' = [count EXCEPT ![p] = @ - 1]
  BY DEF Listen!RstQueue
<1>2. /\ Listen!At(p, m) \in Packets /\ count[p] \in Nat
      /\ (m # 1 => m - 1 \in 1..count[p] /\ Listen!At(p, m - 1) \in Packets /\ Listen!At(p, m - 1) # Listen!At(p, m))
  <2>1. count[p] \in Nat BY QueueFacts DEF Queues
  <2>2. m # 1 => m - 1 \in 1..count[p] BY <2>1
  <2> QED BY <2>1, <2>2, QueuedInPackets DEF Queues, QueuesApart
<1>3. tail[p] = Listen!At(p, m) <=> m = count[p]
  <2>1. count[p] # 0 BY <1>2
  <2> QED BY <2>1, HeadFacts DEF Queues, QueuesApart
<1>4. count[p] # 1 => tail'[p] = IF m = count[p] THEN Listen!At(p, m - 1) ELSE tail[p]
  BY <1>1, <1>2, <1>3 DEF Listen!TypeOK
<1>5. \A k \in Packets \ {Listen!At(p, m)} :
        /\ link'[k] = IF m # 1 /\ k = Listen!At(p, m - 1) THEN link[Listen!At(p, m)] ELSE link[k]
        /\ source'[k] = source[k]
  BY <1>1, <1>2 DEF Listen!TypeOK
<1>6. \A r \in Ports : r # p => tail'[r] = tail[r]
  BY <1>1 DEF Listen!TypeOK
<1> QED BY <1>1, <1>4, <1>5, <1>6 DEF Removed

(* relisten takes the first one,                                            *)
LEMMA DequeueRemoves ==
  ASSUME Listen!ListenAssumption, Listen!TypeOK, Queues, NEW p \in Ports, count[p] # 0, Listen!Dequeue(p)
  PROVE  1 \in 1..count[p] /\ Removed(p, 1) /\ head[p] = Listen!At(p, 1)
<1>1. /\ head[p] = Listen!At(p, 1) /\ head[p] \in Packets /\ 1 \in 1..count[p]
      /\ tail[p] = Listen!At(p, count[p]) /\ count[p] \in 1..count[p]
  BY HeadFacts
<1>2. count[p] # 1 => head[p] # tail[p]
  BY <1>1 DEF Queues, QueuesApart
<1>3. \A k \in Packets \ {Listen!At(p, 1)} : link'[k] = link[k] /\ source'[k] = source[k]
  BY <1>1 DEF Listen!Dequeue, Listen!Forget
<1>4. pool' = pool \cup {Listen!At(p, 1)}
  BY <1>1 DEF Listen!Dequeue, Listen!Forget
<1>5. \A r \in Ports : r # p => tail'[r] = tail[r]
  BY DEF Listen!Dequeue, Listen!TypeOK
<1>6. count[p] # 1 => tail'[p] = tail[p] /\ count[p] # 1
  BY <1>2 DEF Listen!Dequeue, Listen!TypeOK
<1>7. head' = [head EXCEPT ![p] = link[Listen!At(p, 1)]] /\ count' = [count EXCEPT ![p] = @ - 1]
  BY <1>1 DEF Listen!Dequeue
<1> QED BY <1>1, <1>3, <1>4, <1>5, <1>6, <1>7 DEF Removed

(* unlisten takes all of them or none,                                      *)
LEMMA UnlistenEmpties ==
  ASSUME Listen!ListenAssumption, Listen!TypeOK, Queues, NEW p \in Ports, Listen!Unlisten(p)
  PROVE  Emptied({}) \/ Emptied({p})
<1>1. CASE listener[p] # None
  BY <1>1 DEF Listen!Unlisten, Emptied, Listen!packetVars
<1>2. CASE listener[p] = None
  <2> DEFINE R == {Listen!QueueOf(p)[n] : n \in 1..count[p]}
  <2>1. /\ head' = [head EXCEPT ![p] = None] /\ tail' = [tail EXCEPT ![p] = None]
        /\ count' = [count EXCEPT ![p] = 0] /\ Listen!Forget(R)
    BY <1>2 DEF Listen!Unlisten
  <2>2. R = {k \in Packets : \E r \in {p} : \E n \in 1..count[r] : Listen!At(r, n) = k}
    BY QueuedInPackets DEF Listen!QueueOf
  <2> HIDE DEF R
  <2>3. Emptied({p})
    BY <2>1, <2>2 DEF Emptied, Listen!Forget, Listen!TypeOK
  <2> QED BY <2>3
<1> QED BY <1>1, <1>2

(* and the other actions leave the queues alone.                            *)
LEMMA OthersEmptyNone ==
  ASSUME UNCHANGED <<head, tail, count, Listen!packetVars>>
  PROVE  Emptied({})
BY DEF Emptied, Listen!packetVars

-----------------------------------------------------------------------------
(* The invariant, by its two halves.                                        *)
LEMMA InvParts == ListenInv <=> Listen!TypeOK /\ Queues /\ ListenRest
BY DEF ListenInv, Queues, ListenRest

(* The invariant holds at first.                                            *)
LEMMA ListenInitTrue == ASSUME Listen!ListenAssumption, Listen!Init PROVE ListenInv
<1> USE DEF Listen!Init
<1>1. Listen!TypeOK
  <2>1. 0 \in 0..MaxQueue BY DEF Listen!ListenAssumption
  <2>2. bound \in [Sockets -> BOOLEAN] BY Zenon
  <2> QED BY <2>1, <2>2 DEF Listen!TypeOK
<1>2. \A p \in Ports : 1..count[p] = {} /\ count[p] = 0
  OBVIOUS
<1>3. Queues
  BY <1>2 DEF Queues, QueueShape, QueuesApart, PoolRest, OnePlaceEach
<1>4. ListenRest
  BY <1>2 DEF ListenRest, Requests, AcceptWaits, OneSocketEach, NotBoth, ClientWaits, Served
<1> QED BY <1>1, <1>3, <1>4, InvParts

(* A step keeps the types.  In most actions they come from the action       *)
(* alone; those that read a listener, a head or a tail need the rest of the *)
(* invariant for it.                                                        *)
LEMMA TypesKept == ASSUME Listen!ListenAssumption, ListenInv, [Listen!Next]_(Listen!vars) PROVE Listen!TypeOK'
<1> USE DEF Listen!TypeOK, Listen!queueVars, Listen!packetVars, Listen!socketVars
<1>1. Listen!TypeOK /\ Queues /\ ListenRest BY InvParts
<1>2. ASSUME NEW p \in Ports, NEW x \in Sources, Listen!SynListener(p, x) PROVE Listen!TypeOK'
  <2>1. listener[p] \in Sockets BY <1>1, <1>2 DEF Listen!SynListener
  <2>2. bound' \in [Sockets -> BOOLEAN] BY <1>1, <1>2, <2>1, Zenon DEF Listen!SynListener, Listen!Take
  <2> QED BY <1>1, <1>2, <2>1, <2>2 DEF Listen!SynListener, Listen!Take
<1>3. ASSUME NEW p \in Ports, NEW x \in Sources, NEW k \in Packets, Listen!SynQueue(p, x, k)
      PROVE  Listen!TypeOK'
  <2> SUFFICES /\ head' \in [Ports -> Packets \cup {None}]
               /\ tail' \in [Ports -> Packets \cup {None}]
               /\ count' \in [Ports -> 0..MaxQueue]
               /\ link' \in [Packets -> Packets \cup {None}]
               /\ source' \in [Packets -> Sources \cup {None}] /\ pool' \subseteq Packets
    BY <1>1, <1>3 DEF Listen!SynQueue, Listen!Enqueue
  <2>1. Listen!Enqueue(p, x, k, TRUE) BY <1>3 DEF Listen!SynQueue
  <2>2. tail' \in [Ports -> Packets \cup {None}] BY <1>1, <2>1 DEF Listen!Enqueue
  <2> DEFINE l == IF head[p] = None THEN [link EXCEPT ![k] = None]
                  ELSE [link EXCEPT ![k] = None, ![tail[p]] = k]
             h == IF head[p] = None THEN k ELSE head[p]
  <2>3. l \in [Packets -> Packets \cup {None}] /\ h \in Packets
    BY <1>1
  <2>4. count[p] \in Nat /\ MaxQueue \in Nat BY <1>1, QueueFacts DEF Listen!ListenAssumption, Queues
  <2> HIDE DEF l, h
  <2>5. CASE count[p] < MaxQueue
    <3>1. /\ head' = [head EXCEPT ![p] = h] /\ count' = [count EXCEPT ![p] = @ + 1]
          /\ pool' = pool \ {k} /\ source' = [source EXCEPT ![k] = x] /\ link' = l
      BY <2>1, <2>5 DEF Listen!Enqueue, l, h
    <3>2. count' \in [Ports -> 0..MaxQueue]
      BY <1>1, <2>4, <2>5, <3>1
    <3> QED BY <1>1, <2>2, <2>3, <3>1, <3>2
  <2>6. CASE ~ (count[p] < MaxQueue)
    <3>1. /\ head' = [head EXCEPT ![p] = l[h]] /\ UNCHANGED count
          /\ pool' = (pool \ {k}) \cup {h}
          /\ source' = [source EXCEPT ![k] = x, ![h] = None]
          /\ link' = [l EXCEPT ![h] = None]
      BY <2>1, <2>6 DEF Listen!Enqueue, l, h
    <3> QED BY <1>1, <2>2, <2>3, <3>1
  <2> QED BY <2>5, <2>6
<1>4. ASSUME NEW p \in Ports, NEW x \in Sources, Listen!RstQueue(p, x) PROVE Listen!TypeOK'
  <2>1. PICK n \in 1..count[p] :
          /\ head' = [head EXCEPT ![p] = IF n = 1 THEN link[Listen!At(p, n)] ELSE @]
          /\ link' = [link EXCEPT ![IF n = 1 THEN Listen!At(p, n) ELSE Listen!At(p, n - 1)] = link[Listen!At(p, n)],
                                  ![Listen!At(p, n)] = None]
          /\ source' = [source EXCEPT ![Listen!At(p, n)] = None]
          /\ tail' = [tail EXCEPT ![p] = IF @ = Listen!At(p, n)
                                         THEN IF n = 1 THEN Listen!At(p, n) ELSE Listen!At(p, n - 1) ELSE @]
          /\ pool' = pool \cup {Listen!At(p, n)} /\ count' = [count EXCEPT ![p] = @ - 1]
    BY <1>4 DEF Listen!RstQueue
  <2>2. count[p] \in Nat /\ n \in 1..count[p] BY <1>1, QueueFacts DEF Queues
  <2>3. Listen!At(p, n) \in Packets /\ (n # 1 => Listen!At(p, n - 1) \in Packets)
    <3>1. n # 1 => n - 1 \in 1..count[p] BY <2>2
    <3> QED BY <1>1, <3>1, QueuedInPackets
  <2>4. count' \in [Ports -> 0..MaxQueue]
    <3>1. count[p] - 1 \in 0..MaxQueue BY <1>1, <2>2 DEF Listen!ListenAssumption
    <3> QED BY <1>1, <2>1, <3>1
  <2>5. head' \in [Ports -> Packets \cup {None}] /\ tail' \in [Ports -> Packets \cup {None}]
    BY <1>1, <2>1, <2>3
  <2>6. link' \in [Packets -> Packets \cup {None}] /\ pool' \subseteq Packets
        /\ source' \in [Packets -> Sources \cup {None}]
    BY <1>1, <2>1, <2>3
  <2> QED BY <1>1, <1>4, <2>4, <2>5, <2>6 DEF Listen!RstQueue
<1>5. ASSUME NEW p \in Ports, Listen!Dequeue(p), count[p] # 0
      PROVE  /\ head' \in [Ports -> Packets \cup {None}]
             /\ tail' \in [Ports -> Packets \cup {None}]
             /\ count' \in [Ports -> 0..MaxQueue]
             /\ link' \in [Packets -> Packets \cup {None}]
             /\ source' \in [Packets -> Sources \cup {None}] /\ pool' \subseteq Packets
             /\ head[p] \in Packets /\ source[head[p]] \in Sources
  <2>1. head[p] \in Packets /\ head[p] = Listen!At(p, 1) /\ 1 \in 1..count[p] BY <1>1, <1>5, HeadFacts
  <2>2. count[p] - 1 \in 0..MaxQueue
    BY <1>1, <1>5, QueueFacts DEF Listen!ListenAssumption, Queues
  <2>3. source[head[p]] \in Sources BY <1>1, <2>1 DEF Queues, OnePlaceEach
  <2>4. link' \in [Packets -> Packets \cup {None}] /\ source' \in [Packets -> Sources \cup {None}]
        /\ pool' \subseteq Packets
    BY <1>1, <1>5, <2>1 DEF Listen!Dequeue, Listen!Forget
  <2> QED BY <1>1, <1>5, <2>1, <2>2, <2>3, <2>4 DEF Listen!Dequeue
<1>6. ASSUME NEW p \in Ports, NEW s \in Sockets, Listen!Listen(s, p) PROVE Listen!TypeOK'
  <2>1. 0 \in 0..MaxQueue BY DEF Listen!ListenAssumption
  <2> QED BY <1>1, <1>6, <2>1 DEF Listen!Listen
<1>7. ASSUME NEW p \in Ports, NEW s \in Sockets, Listen!RelistenIdle(s, p) PROVE Listen!TypeOK'
  BY <1>1, <1>7 DEF Listen!RelistenIdle
<1>8. ASSUME NEW p \in Ports, NEW s \in Sockets, Listen!RelistenPending(s, p) PROVE Listen!TypeOK'
  <2>1. bound' \in [Sockets -> BOOLEAN] BY <1>1, <1>8, Zenon DEF Listen!RelistenPending, Listen!Take
  <2> QED BY <1>1, <1>5, <1>8, <2>1 DEF Listen!RelistenPending, Listen!Take
<1>9. ASSUME NEW p \in Ports, NEW s \in Sockets, Listen!RelistenDeclined(s, p) PROVE Listen!TypeOK'
  BY <1>1, <1>5, <1>9 DEF Listen!RelistenDeclined
<1>10. ASSUME NEW p \in Ports, Listen!Unlisten(p) PROVE Listen!TypeOK'
  <2>1. CASE listener[p] # None BY <1>1, <1>10, <2>1 DEF Listen!Unlisten
  <2>2. CASE listener[p] = None
    <3>1. 0 \in 0..MaxQueue BY DEF Listen!ListenAssumption
    <3>2. ASSUME NEW n \in 1..count[p] PROVE Listen!QueueOf(p)[n] \in Packets
      <4>1. Listen!At(p, n) \in Packets BY <1>1, QueuedInPackets
      <4> QED BY <4>1 DEF Listen!QueueOf
    <3> QED BY <1>1, <1>10, <2>2, <3>1, <3>2 DEF Listen!Unlisten, Listen!Forget
  <2> QED BY <2>1, <2>2
<1>11. ASSUME NEW s \in Sockets, Listen!Accept(s) \/ Listen!AcceptFails(s) \/ Listen!AcceptReturns(s)
              \/ Listen!Established(s) \/ Listen!Closed(s) \/ Listen!Reset(s)
       PROVE  Listen!TypeOK'
  BY <1>1, <1>11 DEF Listen!Accept, Listen!AcceptFails, Listen!AcceptReturns, Listen!Established, Listen!Closed, Listen!Reset, Listen!Woken
<1>12. ASSUME NEW s \in Sockets, Listen!Unaccept(s) PROVE Listen!TypeOK'
  <2>1. bound' \in [Sockets -> BOOLEAN] BY <1>1, <1>12, Zenon DEF Listen!Unaccept
  <2>2. listener' \in [Ports -> Sockets \cup {None}]
    <3>1. CASE bound[s] BY <1>1, <1>12, <3>1 DEF Listen!Unaccept
    <3>2. CASE ~ bound[s] BY <1>1, <1>12, <3>2 DEF Listen!Unaccept
    <3> QED BY <3>1, <3>2
  <2> QED BY <1>1, <1>12, <2>1, <2>2 DEF Listen!Unaccept
<1>13. CASE UNCHANGED Listen!vars BY <1>1, <1>13 DEF Listen!vars
<1> HIDE DEF Listen!TypeOK, Listen!queueVars, Listen!packetVars, Listen!socketVars
<1> QED BY <1>2, <1>3, <1>4, <1>6, <1>7, <1>8, <1>9, <1>10, <1>11, <1>12, <1>13 DEF Listen!Next

-----------------------------------------------------------------------------
(* A SYN takes the socket of its request, which then has none.              *)
LEMMA SynListenerKeeps ==
  ASSUME Listen!ListenAssumption, ListenInv, Listen!TypeOK', NEW p \in Ports, NEW x \in Sources, Listen!SynListener(p, x)
  PROVE  Queues' /\ ListenRest'
<1>0. Listen!TypeOK /\ Queues /\ ListenRest BY InvParts
<1> DEFINE s == listener[p]
<1>1. /\ p \in active /\ s # None /\ s \in Sockets /\ ~ Listen!Owned(p, x)
      /\ peer' = [peer EXCEPT ![s] = x] /\ bound' = [bound EXCEPT ![s] = TRUE]
      /\ port' = [port EXCEPT ![s] = p] /\ listener' = [listener EXCEPT ![p] = None]
      /\ UNCHANGED <<active, head, tail, count, Listen!packetVars, state, waiter>>
  BY <1>0 DEF Listen!SynListener, Listen!Take, Listen!TypeOK
<1>2. count[p] = 0 /\ port[s] = p /\ ~ bound[s]
  BY <1>0, <1>1 DEF ListenRest, Requests
<1>3. Queues' /\ \A r \in Ports : ClientWaits(r)' \subseteq ClientWaits(r)
  BY <1>0, <1>1, OthersEmptyNone, EmptiedKeeps
<1> HIDE DEF s
<1>4. Requests'
  BY <1>0, <1>1, <1>2 DEF ListenRest, Requests, Listen!TypeOK
<1>5. AcceptWaits'
  BY <1>0, <1>1 DEF ListenRest, AcceptWaits
<1>6. OneSocketEach'
  BY <1>0, <1>1, <1>2 DEF ListenRest, OneSocketEach, Listen!Owned, Listen!TypeOK
<1>7. NotBoth'
  <2>1. ClientWaits(p) = {} BY <1>2 DEF ClientWaits
  <2> QED BY <1>0, <1>1, <1>3, <2>1 DEF ListenRest, NotBoth, Listen!TypeOK
<1>8. Served'
  BY <1>0, <1>1, <1>2 DEF ListenRest, Served, Listen!TypeOK, s
<1> QED BY <1>3, <1>4, <1>5, <1>6, <1>7, <1>8 DEF ListenRest

(* A SYN is queued: its source has no socket.                               *)
LEMMA SynQueueKeeps ==
  ASSUME Listen!ListenAssumption, ListenInv, Listen!TypeOK', NEW p \in Ports, NEW x \in Sources,
         NEW k \in Packets, Listen!SynQueue(p, x, k)
  PROVE  Queues' /\ ListenRest'
<1>0. Listen!TypeOK /\ Queues /\ ListenRest BY InvParts
<1>1. /\ p \in active /\ listener[p] = None /\ ~ Listen!Owned(p, x) /\ x \notin ClientWaits(p)
      /\ UNCHANGED <<active, listener, Listen!socketVars>>
  BY <1>0, QueuedWaits DEF Listen!SynQueue, Listen!Unserved, Listen!Enqueue
<1>2. /\ Queues'
      /\ \A r \in Ports : ClientWaits(r)' \subseteq ClientWaits(r) \cup IF r = p THEN {x} ELSE {}
  <2>1. CASE PutLast(p, x, k) BY <1>0, <1>1, <2>1, PutKeeps
  <2>2. CASE Shifted(p, x, k) /\ count[p] # 0 BY <1>0, <1>1, <2>2, ShiftedKeeps
  <2>3. CASE Emptied({})
    <3>1. Queues' /\ \A r \in Ports : ClientWaits(r)' \subseteq ClientWaits(r)
      BY <1>0, <2>3, EmptiedKeeps
    <3> QED BY <3>1
  <2> QED BY <1>0, <2>1, <2>2, <2>3, PutsOrShifts
<1>6. \A r \in Ports \ {p} : count'[r] = count[r]
  BY <1>0 DEF Listen!SynQueue, Listen!Enqueue, Listen!TypeOK
<1>3. Requests'
  BY <1>0, <1>1, <1>6 DEF ListenRest, Requests, Listen!socketVars
<1>4. AcceptWaits' /\ OneSocketEach' /\ Served'
  BY <1>0, <1>1 DEF ListenRest, AcceptWaits, OneSocketEach, Served, Listen!socketVars
<1>5. NotBoth'
  BY <1>0, <1>1, <1>2 DEF ListenRest, NotBoth, Listen!Owned, Listen!socketVars
<1> QED BY <1>2, <1>3, <1>4, <1>5 DEF ListenRest

(* A RST takes a queued SYN back.                                           *)
LEMMA RstQueueKeeps ==
  ASSUME Listen!ListenAssumption, ListenInv, Listen!TypeOK', NEW p \in Ports, NEW x \in Sources, Listen!RstQueue(p, x)
  PROVE  Queues' /\ ListenRest'
<1>0. Listen!TypeOK /\ Queues /\ ListenRest BY InvParts
<1>1. PICK m \in 1..count[p] : Removed(p, m)
  BY <1>0, RstRemoves
<1>2. Queues' /\ \A r \in Ports : ClientWaits(r)' \subseteq ClientWaits(r)
  BY <1>0, <1>1, RemovedKeeps
<1>3. UNCHANGED <<active, listener, Listen!socketVars>> /\ count[p] # 0
  BY <1>0, <1>1, QueueFacts DEF Listen!RstQueue, Queues
<1>4. p \in active
  BY DEF Listen!RstQueue
<1>5. Requests'
  BY <1>0, <1>1, <1>3, <1>4 DEF ListenRest, Requests, Listen!socketVars, Removed, Listen!TypeOK
<1>6. AcceptWaits' /\ OneSocketEach' /\ Served'
  BY <1>0, <1>3 DEF ListenRest, AcceptWaits, OneSocketEach, Served, Listen!socketVars
<1>7. NotBoth'
  BY <1>0, <1>2, <1>3 DEF ListenRest, NotBoth, Listen!socketVars
<1> QED BY <1>2, <1>5, <1>6, <1>7 DEF ListenRest

(* listen and relisten with nothing queued: an idle socket gets the request. *)
LEMMA ListenKeeps ==
  ASSUME Listen!ListenAssumption, ListenInv, Listen!TypeOK', NEW p \in Ports, NEW s \in Sockets,
         Listen!Listen(s, p) \/ Listen!RelistenIdle(s, p)
  PROVE  Queues' /\ ListenRest'
<1>0. Listen!TypeOK /\ Queues /\ ListenRest BY InvParts
<1>1. /\ state[s] = "CLOSED" /\ ~ bound[s] /\ count[p] = 0 /\ count' = count
      /\ active' = active \cup {p} /\ listener' = [listener EXCEPT ![p] = s]
      /\ state' = [state EXCEPT ![s] = "LISTEN"] /\ port' = [port EXCEPT ![s] = p]
      /\ UNCHANGED <<Listen!packetVars, bound, peer, waiter>>
  <2>1. CASE Listen!Listen(s, p)
    <3>1. count[p] = 0 BY <1>0, <2>1 DEF Listen!Listen, ListenRest, Requests
    <3>2. [count EXCEPT ![p] = 0] = count BY <1>0, <3>1 DEF Listen!TypeOK
    <3> QED BY <2>1, <3>1, <3>2 DEF Listen!Listen
  <2>2. CASE Listen!RelistenIdle(s, p) BY <2>2 DEF Listen!RelistenIdle
  <2> QED BY <2>1, <2>2
<1>2. Emptied({})
  <2>1. head[p] = None BY <1>0, <1>1, HeadFacts
  <2>2. CASE Listen!Listen(s, p)
    BY <1>0, <1>1, <2>1, <2>2 DEF Listen!Listen, Emptied, Listen!TypeOK, Listen!packetVars
  <2>3. CASE Listen!RelistenIdle(s, p) BY <2>3, OthersEmptyNone DEF Listen!RelistenIdle
  <2> QED BY <2>2, <2>3
<1>3. Queues' /\ \A r \in Ports : ClientWaits(r)' \subseteq ClientWaits(r)
  BY <1>0, <1>2, EmptiedKeeps
<1>4. \A r \in Ports : listener[r] # s
  BY <1>0, <1>1 DEF ListenRest, Requests, Listen!ListenAssumption
<1>5. Requests'
  BY <1>0, <1>1, <1>4 DEF ListenRest, Requests, Listen!TypeOK
<1>6. AcceptWaits'
  BY <1>0, <1>1 DEF ListenRest, AcceptWaits, Listen!TypeOK
<1>7. OneSocketEach'
  BY <1>0, <1>1 DEF ListenRest, OneSocketEach, Listen!TypeOK
<1>8. NotBoth'
  BY <1>0, <1>1, <1>3 DEF ListenRest, NotBoth, Listen!TypeOK
<1>9. Served'
  <2> SUFFICES ASSUME ~ LateAccept, NEW u \in Sockets
               PROVE  /\ waiter'[u] # "failed"
                      /\ ~ bound'[u] /\ state'[u] \in {"LISTEN", "SYN_RECEIVED"} =>
                           \E r \in active' : listener'[r] = u
    BY DEF Served
  <2>1. CASE u = s BY <1>0, <1>1, <2>1 DEF ListenRest, Served, Listen!TypeOK
  <2>2. CASE u # s
    <3>1. state'[u] = state[u] BY <1>0, <1>1, <2>2 DEF Listen!TypeOK
    <3>2. ASSUME NEW r \in active, listener[r] = u PROVE listener'[r] = u
      <4>1. r = p => listener[r] = None
        <5>1. CASE Listen!Listen(s, p) BY <3>2, <5>1 DEF Listen!Listen
        <5>2. CASE Listen!RelistenIdle(s, p) BY <5>2 DEF Listen!RelistenIdle
        <5> QED BY <5>1, <5>2
      <4> QED BY <1>0, <1>1, <3>2, <4>1 DEF Listen!TypeOK, Listen!ListenAssumption
    <3> QED BY <1>0, <1>1, <3>1, <3>2 DEF ListenRest, Served
  <2> QED BY <2>1, <2>2
<1> QED BY <1>3, <1>5, <1>6, <1>7, <1>8, <1>9 DEF ListenRest

(* relisten takes the first queued SYN for its socket: its source leaves    *)
(* the queue and gets the socket,                                           *)
LEMMA RelistenPendingKeeps ==
  ASSUME Listen!ListenAssumption, ListenInv, Listen!TypeOK', NEW p \in Ports, NEW s \in Sockets,
         Listen!RelistenPending(s, p)
  PROVE  Queues' /\ ListenRest'
<1>0. Listen!TypeOK /\ Queues /\ ListenRest BY InvParts
<1> DEFINE x == source[head[p]]
<1>1. /\ state[s] = "CLOSED" /\ ~ bound[s] /\ p \in active /\ listener[p] = None
      /\ count[p] # 0 /\ Listen!Dequeue(p)
      /\ peer' = [peer EXCEPT ![s] = x] /\ bound' = [bound EXCEPT ![s] = TRUE]
      /\ port' = [port EXCEPT ![s] = p] /\ state' = [state EXCEPT ![s] = "LISTEN"]
      /\ UNCHANGED <<active, listener, waiter>>
  BY DEF Listen!RelistenPending, Listen!Take
<1>2. 1 \in 1..count[p] /\ Removed(p, 1) /\ head[p] = Listen!At(p, 1)
  BY <1>0, <1>1, DequeueRemoves
<1>3. /\ Queues' /\ \A r \in Ports : ClientWaits(r)' \subseteq ClientWaits(r)
      /\ x \notin ClientWaits(p)'
  BY <1>0, <1>2, RemovedKeeps
<1>4. x \in ClientWaits(p) /\ x \in Sources
  BY <1>0, <1>2 DEF ClientWaits, Queues, OnePlaceEach
<1>5. \A u \in Sockets : bound[u] /\ port[u] = p => peer[u] # x
  BY <1>0, <1>4 DEF ListenRest, NotBoth
<1> HIDE DEF x
<1>6. \A r \in Ports : listener[r] # s
  BY <1>0, <1>1 DEF ListenRest, Requests, Listen!ListenAssumption
<1>7. Requests'
  BY <1>0, <1>1, <1>2, <1>6 DEF ListenRest, Requests, Listen!TypeOK, Removed
<1>8. AcceptWaits'
  BY <1>0, <1>1 DEF ListenRest, AcceptWaits, Listen!TypeOK
<1>9. OneSocketEach'
  BY <1>0, <1>1, <1>5 DEF ListenRest, OneSocketEach, Listen!TypeOK
<1>10. NotBoth'
  BY <1>0, <1>1, <1>3 DEF ListenRest, NotBoth, Listen!TypeOK
<1>11. Served'
  BY <1>0, <1>1 DEF ListenRest, Served, Listen!TypeOK
<1> QED BY <1>3, <1>7, <1>8, <1>9, <1>10, <1>11 DEF ListenRest

(* or loses its place to nobody.                                            *)
LEMMA RelistenDeclinedKeeps ==
  ASSUME Listen!ListenAssumption, ListenInv, Listen!TypeOK', NEW p \in Ports, NEW s \in Sockets,
         Listen!RelistenDeclined(s, p)
  PROVE  Queues' /\ ListenRest'
<1>0. Listen!TypeOK /\ Queues /\ ListenRest BY InvParts
<1>1. /\ p \in active /\ count[p] # 0 /\ Listen!Dequeue(p) /\ listener[p] = None
      /\ UNCHANGED <<active, listener, Listen!socketVars>>
  BY DEF Listen!RelistenDeclined
<1>2. 1 \in 1..count[p] /\ Removed(p, 1)
  BY <1>0, <1>1, DequeueRemoves
<1>3. Queues' /\ \A r \in Ports : ClientWaits(r)' \subseteq ClientWaits(r)
  BY <1>0, <1>2, RemovedKeeps
<1>4. Requests'
  BY <1>0, <1>1, <1>2 DEF ListenRest, Requests, Listen!socketVars, Removed, Listen!TypeOK
<1>5. AcceptWaits' /\ OneSocketEach' /\ Served'
  BY <1>0, <1>1 DEF ListenRest, AcceptWaits, OneSocketEach, Served, Listen!socketVars
<1>6. NotBoth'
  BY <1>0, <1>1, <1>3 DEF ListenRest, NotBoth, Listen!socketVars
<1> QED BY <1>3, <1>4, <1>5, <1>6 DEF ListenRest

(* unlisten ends a request: its socket is closed, or its queue emptied.     *)
LEMMA UnlistenKeeps ==
  ASSUME Listen!ListenAssumption, ListenInv, Listen!TypeOK', NEW p \in Ports, Listen!Unlisten(p)
  PROVE  Queues' /\ ListenRest'
<1>0. Listen!TypeOK /\ Queues /\ ListenRest BY InvParts
<1>1. Queues' /\ \A r \in Ports : ClientWaits(r)' \subseteq ClientWaits(r)
  <2>1. Emptied({}) \/ Emptied({p}) BY <1>0, UnlistenEmpties
  <2> QED BY <1>0, <2>1, EmptiedKeeps
<1>2. active' = active \ {p} /\ UNCHANGED <<port, bound, peer, waiter>>
  BY DEF Listen!Unlisten
<1>3. CASE listener[p] # None
  <2> DEFINE s == listener[p]
  <2>1. /\ s \in Sockets /\ state[s] = "LISTEN" /\ count[p] = 0 /\ port[s] = p
        /\ state' = [state EXCEPT ![s] = "CLOSED"]
        /\ listener' = [listener EXCEPT ![p] = None] /\ UNCHANGED count
    BY <1>0, <1>3 DEF Listen!Unlisten, Listen!TypeOK, ListenRest, Requests
  <2>2. \A r \in Ports \ {p} : listener[r] # s
    BY <1>0, <1>3, <2>1 DEF ListenRest, Requests
  <2> HIDE DEF s
  <2>3. Requests'
    BY <1>0, <1>2, <2>1, <2>2 DEF ListenRest, Requests, Listen!TypeOK
  <2>4. AcceptWaits'
    BY <1>0, <1>2, <2>1 DEF ListenRest, AcceptWaits, Listen!TypeOK
  <2>5. OneSocketEach' /\ NotBoth'
    BY <1>0, <1>1, <1>2 DEF ListenRest, OneSocketEach, NotBoth
  <2>6. Served'
    <3>1. ASSUME NEW u \in Sockets, u # s, NEW r \in active, listener[r] = u
          PROVE  r \in active' /\ listener'[r] = u
      BY <1>0, <1>2, <2>1, <3>1 DEF Listen!TypeOK, s
    <3> QED BY <1>0, <1>2, <2>1, <3>1 DEF ListenRest, Served, Listen!TypeOK
  <2> QED BY <1>1, <2>3, <2>4, <2>5, <2>6 DEF ListenRest
<1>4. CASE listener[p] = None
  <2>1. count' = [count EXCEPT ![p] = 0] /\ UNCHANGED <<state, listener>>
    BY <1>4 DEF Listen!Unlisten
  <2>2. Requests'
    BY <1>0, <1>2, <1>4, <2>1 DEF ListenRest, Requests, Listen!TypeOK
  <2>3. AcceptWaits' /\ OneSocketEach' /\ NotBoth'
    BY <1>0, <1>1, <1>2, <2>1 DEF ListenRest, AcceptWaits, OneSocketEach, NotBoth
  <2>4. Served'
    BY <1>0, <1>2, <1>4, <2>1 DEF ListenRest, Served, Listen!ListenAssumption
  <2> QED BY <1>1, <2>2, <2>3, <2>4 DEF ListenRest
<1> QED BY <1>3, <1>4

(* accept, its end, and the ends of a connection: they change one socket's  *)
(* state, and perhaps its waiter or its peer.                               *)
LEMMA ConnectionKeeps ==
  ASSUME Listen!ListenAssumption, ListenInv, Listen!TypeOK', NEW s \in Sockets,
         Listen!Accept(s) \/ Listen!AcceptFails(s) \/ Listen!AcceptReturns(s) \/ Listen!Established(s) \/ Listen!Closed(s) \/ Listen!Reset(s)
  PROVE  Queues' /\ ListenRest'
<1>0. Listen!TypeOK /\ Queues /\ ListenRest BY InvParts
<1>1. UNCHANGED <<active, listener, head, tail, count, Listen!packetVars, port, bound>>
  BY DEF Listen!Accept, Listen!AcceptFails, Listen!AcceptReturns, Listen!Established, Listen!Closed, Listen!Reset, Listen!queueVars
<1>2. Queues' /\ \A r \in Ports : ClientWaits(r)' \subseteq ClientWaits(r)
  BY <1>0, <1>1, OthersEmptyNone, EmptiedKeeps
<1>3. peer' = peer \/ peer' = [peer EXCEPT ![s] = None]
  BY DEF Listen!Accept, Listen!AcceptFails, Listen!AcceptReturns, Listen!Established, Listen!Closed, Listen!Reset
<1>4. OneSocketEach'
  BY <1>0, <1>1, <1>3 DEF ListenRest, OneSocketEach, Listen!TypeOK
<1>5. NotBoth'
  <2>1. \A r \in Ports : None \notin ClientWaits(r)
    BY <1>0 DEF Queues, OnePlaceEach, ClientWaits, Listen!ListenAssumption
  <2> QED BY <1>0, <1>1, <1>2, <1>3, <2>1 DEF ListenRest, NotBoth, Listen!TypeOK
<1>6. /\ \A u \in Sockets \ {s} : state'[u] = state[u] /\ waiter'[u] = waiter[u]
      /\ waiter'[s] = "waiting" => state'[s] = "SYN_RECEIVED"
      /\ ~ LateAccept /\ waiter[s] # "failed" => waiter'[s] # "failed"
  <2>1. CASE Listen!Accept(s) BY <1>0, <2>1 DEF Listen!Accept, Listen!TypeOK
  <2>2. CASE Listen!AcceptFails(s) BY <1>0, <2>2 DEF Listen!AcceptFails, Listen!Woken, Listen!TypeOK
  <2>3. CASE Listen!AcceptReturns(s) BY <1>0, <2>3 DEF Listen!AcceptReturns, Listen!TypeOK
  <2>4. CASE Listen!Established(s) BY <1>0, <2>4 DEF Listen!Established, Listen!TypeOK
  <2>5. CASE Listen!Closed(s) BY <1>0, <2>5 DEF Listen!Closed, Listen!TypeOK, ListenRest, AcceptWaits
  <2>6. CASE Listen!Reset(s) BY <1>0, <2>6 DEF Listen!Reset, Listen!Woken, Listen!TypeOK
  <2> QED BY <2>1, <2>2, <2>3, <2>4, <2>5, <2>6
<1>7. AcceptWaits'
  BY <1>0, <1>6 DEF ListenRest, AcceptWaits
<1>8. /\ ~ bound[s] /\ state[s] \in {"LISTEN", "SYN_RECEIVED"}
         => state'[s] \in {"LISTEN", "SYN_RECEIVED"}
      /\ ~ bound[s] /\ state'[s] \in {"LISTEN", "SYN_RECEIVED"} /\ waiter[s] # "failed"
         => state[s] \in {"LISTEN", "SYN_RECEIVED"}
  BY <1>0 DEF Listen!Accept, Listen!AcceptFails, Listen!AcceptReturns, Listen!Established, Listen!Closed, Listen!Reset, Listen!TypeOK, ListenRest, AcceptWaits
<1>9. Requests'
  BY <1>0, <1>1, <1>6, <1>8 DEF ListenRest, Requests, Listen!TypeOK
<1>10. Served'
  BY <1>0, <1>1, <1>6, <1>8 DEF ListenRest, Served
<1> QED BY <1>2, <1>4, <1>5, <1>7, <1>9, <1>10 DEF ListenRest

(* unaccept takes a socket from its port, or from its request.              *)
LEMMA UnacceptKeeps ==
  ASSUME Listen!ListenAssumption, ListenInv, Listen!TypeOK', NEW s \in Sockets, Listen!Unaccept(s)
  PROVE  Queues' /\ ListenRest'
<1>0. Listen!TypeOK /\ Queues /\ ListenRest BY InvParts
<1>1. /\ bound' = [bound EXCEPT ![s] = FALSE] /\ state' = [state EXCEPT ![s] = "CLOSED"]
      /\ UNCHANGED <<active, head, tail, count, Listen!packetVars, port, waiter>>
      /\ \A u \in Sockets \ {s} : peer'[u] = peer[u]
      /\ state[s] \in {"LISTEN", "CLOSED"}
  BY <1>0 DEF Listen!Unaccept, Listen!TypeOK
<1>2. Queues' /\ \A r \in Ports : ClientWaits(r)' \subseteq ClientWaits(r)
  BY <1>0, <1>1, OthersEmptyNone, EmptiedKeeps
<1>3. \A r \in Ports : listener'[r] = IF listener[r] = s THEN None ELSE listener[r]
  <2>1. CASE bound[s]
    <3>1. \A r \in Ports : listener[r] # s
      BY <1>0, <2>1 DEF ListenRest, Requests, Listen!ListenAssumption
    <3> QED BY <2>1, <3>1 DEF Listen!Unaccept
  <2>2. CASE ~ bound[s]
    <3>1. \A r \in Ports : listener[r] = s => r \in active
      BY <1>0 DEF ListenRest, Requests, Listen!ListenAssumption
    <3> QED BY <2>2, <3>1 DEF Listen!Unaccept
  <2> QED BY <2>1, <2>2
<1>4. Requests'
  BY <1>0, <1>1, <1>3 DEF ListenRest, Requests, Listen!TypeOK
<1>5. AcceptWaits'
  BY <1>0, <1>1 DEF ListenRest, AcceptWaits, Listen!TypeOK
<1>6. OneSocketEach'
  BY <1>0, <1>1 DEF ListenRest, OneSocketEach, Listen!TypeOK
<1>7. NotBoth'
  BY <1>0, <1>1, <1>2 DEF ListenRest, NotBoth, Listen!TypeOK
<1>8. Served'
  <2>1. active \subseteq Ports BY <1>0 DEF Listen!TypeOK
  <2> QED BY <1>0, <1>1, <1>3, <2>1 DEF ListenRest, Served, Listen!TypeOK
<1> QED BY <1>2, <1>4, <1>5, <1>6, <1>7, <1>8 DEF ListenRest

(* A step that changes nothing here.                                        *)
LEMMA StutterKeeps ==
  ASSUME Listen!ListenAssumption, ListenInv, UNCHANGED Listen!vars
  PROVE  Queues' /\ ListenRest'
<1>0. Listen!TypeOK /\ Queues /\ ListenRest BY InvParts
<1>1. Listen!TypeOK' BY <1>0 DEF Listen!TypeOK, Listen!vars, Listen!queueVars, Listen!packetVars, Listen!socketVars
<1>2. Queues' /\ \A r \in Ports : ClientWaits(r)' \subseteq ClientWaits(r)
  BY <1>0, <1>1, OthersEmptyNone, EmptiedKeeps DEF Listen!vars, Listen!queueVars
<1>3. ListenRest'
  BY <1>0, <1>2 DEF ListenRest, Requests, AcceptWaits, OneSocketEach, NotBoth, Served,
                    Listen!vars, Listen!queueVars, Listen!socketVars
<1> QED BY <1>2, <1>3

(* Every step keeps the invariant.                                          *)
LEMMA ListenStepKeeps == ASSUME Listen!ListenAssumption, ListenInv, [Listen!Next]_(Listen!vars) PROVE ListenInv'
<1>1. Listen!TypeOK' BY TypesKept
<1>2. Queues' /\ ListenRest'
  <2>1. CASE UNCHANGED Listen!vars BY <2>1, StutterKeeps
  <2>2. CASE Listen!Next
    BY <1>1, <2>2, SynListenerKeeps, SynQueueKeeps, RstQueueKeeps, ListenKeeps,
       RelistenPendingKeeps, RelistenDeclinedKeeps, UnlistenKeeps, ConnectionKeeps,
       UnacceptKeeps DEF Listen!Next
  <2> QED BY <2>1, <2>2
<1> QED BY <1>1, <1>2 DEF ListenInv, Queues, ListenRest

-----------------------------------------------------------------------------
(* The inductive invariant holds in every reachable state, whatever the     *)
(* order of SYNs, RSTs and calls (nx_tcp_packet_process.c,                  *)
(* nx_tcp_server_socket_*.c).                                               *)
THEOREM ListenInvariant == Listen!ListenAssumption => (Listen!Spec => []ListenInv)
<1> SUFFICES ASSUME Listen!ListenAssumption PROVE Listen!Spec => []ListenInv
  OBVIOUS
<1>1. Listen!Init => ListenInv
  BY ListenInitTrue
<1>2. ListenInv /\ [Listen!Next]_(Listen!vars) => ListenInv'
  BY ListenStepKeeps
<1> QED BY <1>1, <1>2, PTL DEF Listen!Spec

(* What it says of the packets,                                             *)
LEMMA InvAccounted == ASSUME Listen!ListenAssumption, ListenInv PROVE Listen!PacketsAccounted
<1>0. Listen!TypeOK /\ Queues /\ ListenRest BY InvParts
<1>1. ASSUME NEW p \in Ports, count[p] > 0
      PROVE  /\ Listen!At(p, count[p]) = tail[p] /\ link[tail[p]] = None
             /\ Cardinality({Listen!QueueOf(p)[n] : n \in 1..count[p]}) = count[p]
  <2>1. count[p] \in Nat BY <1>0, QueueFacts DEF Queues
  <2> DEFINE T == {Listen!QueueOf(p)[n] : n \in 1..count[p]}
  <2>2. Listen!QueueOf(p) \in Bijection(1..count[p], T)
    <3>1. Listen!QueueOf(p) \in [1..count[p] -> T] BY DEF Listen!QueueOf
    <3>2. \A i, j \in 1..count[p] : Listen!QueueOf(p)[i] = Listen!QueueOf(p)[j] => i = j
      BY <1>0 DEF Listen!QueueOf, Queues, QueuesApart
    <3>3. \A k \in T : \E n \in 1..count[p] : Listen!QueueOf(p)[n] = k
      OBVIOUS
    <3> HIDE DEF T
    <3> QED BY <3>1, <3>2, <3>3 DEF Bijection, Injection, Surjection, IsInjective
  <2>3. ExistsBijection(1..count[p], T)
    <3> HIDE DEF T
    <3> QED BY <2>2 DEF ExistsBijection
  <2>4. Cardinality(T) = count[p]
    <3> HIDE DEF T
    <3> QED BY <2>1, <2>3, FS_CountingElements
  <2>5. Listen!At(p, count[p]) = tail[p] /\ link[tail[p]] = None
    BY <1>0, <1>1, <2>1 DEF Queues, QueueShape
  <2> QED BY <2>4, <2>5
<1>2. ASSUME NEW k \in Packets
      PROVE  k \in pool <=> ~ \E p \in Ports : \E n \in 1..count[p] : Listen!QueueOf(p)[n] = k
  BY <1>0, QueuedInPackets DEF Listen!QueueOf, Queues, PoolRest
<1> QED BY <1>1, <1>2, ListenCardinality DEF Listen!PacketsAccounted

(* of the places of a client,                                               *)
LEMMA InvOneConnection == ASSUME Listen!ListenAssumption, ListenInv PROVE Listen!OneConnectionPerSource
<1>0. Listen!TypeOK /\ Queues /\ ListenRest BY InvParts
<1> SUFFICES ASSUME NEW p \in Ports, NEW x \in Sources
             PROVE  LET sockets == {s \in Sockets : bound[s] /\ port[s] = p /\ peer[s] = x}
                    IN Cardinality(sockets) + (IF Listen!Queued(p, x) THEN 1 ELSE 0) <= 1
  BY ListenCardinality DEF Listen!OneConnectionPerSource
<1> DEFINE sockets == {s \in Sockets : bound[s] /\ port[s] = p /\ peer[s] = x}
<1>1. CASE sockets = {}
  <2>1. Cardinality(sockets) = 0 BY <1>1, FS_EmptySet
  <2> QED BY <2>1
<1>2. CASE sockets # {}
  <2>1. PICK s \in Sockets : bound[s] /\ port[s] = p /\ peer[s] = x BY <1>2
  <2>2. sockets = {s} BY <1>0, <2>1 DEF ListenRest, OneSocketEach, Listen!ListenAssumption
  <2>3. Cardinality(sockets) = 1 BY <2>2, FS_Singleton
  <2>4. ~ Listen!Queued(p, x) BY <1>0, <2>1, QueuedWaits DEF ListenRest, NotBoth
  <2> QED BY <2>3, <2>4
<1> QED BY <1>1, <1>2

(* and of the sockets.                                                      *)
LEMMA InvServed == ASSUME Listen!ListenAssumption, ListenInv, ~ LateAccept PROVE Listen!ListenersServed
<1>0. Listen!TypeOK /\ Queues /\ ListenRest BY InvParts
<1> SUFFICES ASSUME NEW s \in Sockets
             PROVE  ~ bound[s] /\ state[s] \in {"LISTEN", "SYN_RECEIVED"}
                      <=> \E p \in active : listener[p] = s /\ port[s] = p
  BY DEF Listen!ListenersServed
<1>1. active \subseteq Ports /\ s # None BY <1>0 DEF Listen!TypeOK, Listen!ListenAssumption
<1>2. ASSUME NEW p \in active, listener[p] = s
      PROVE  ~ bound[s] /\ state[s] \in {"LISTEN", "SYN_RECEIVED"} /\ port[s] = p
  BY <1>0, <1>1, <1>2 DEF ListenRest, Requests
<1> QED BY <1>0, <1>2 DEF ListenRest, Served

(* Each SYN packet is at one place of one queue or in the pool: what is     *)
(* driven out, withdrawn, taken or flushed is released, once, and nothing   *)
(* that was released is still linked.                                       *)
THEOREM SynsStayAccounted == Listen!ListenAssumption => (Listen!Spec => []Listen!PacketsAccounted)
<1> SUFFICES ASSUME Listen!ListenAssumption PROVE Listen!Spec => []Listen!PacketsAccounted
  OBVIOUS
<1>1. ListenInv => Listen!PacketsAccounted
  BY InvAccounted
<1> QED BY <1>1, ListenInvariant, PTL

(* No client waits in the queue of a request that has a socket: relisten,   *)
(* the only one to give a socket to a request in use, does so only when the *)
(* queue is empty.                                                          *)
THEOREM NobodyWaitsBesideIdle == Listen!ListenAssumption => (Listen!Spec => []Listen!NobodyWaitsBesideListener)
<1> SUFFICES ASSUME Listen!ListenAssumption PROVE Listen!Spec => []Listen!NobodyWaitsBesideListener
  OBVIOUS
<1>1. ListenInv => Listen!NobodyWaitsBesideListener
  BY DEF ListenInv, Requests, Listen!NobodyWaitsBesideListener
<1> QED BY <1>1, ListenInvariant, PTL

(* A client has one server socket or one place in the queue, never both:    *)
(* the check of the bound sockets and of the queue, before a SYN is queued  *)
(* and before one is taken, is enough.                                      *)
THEOREM OnePlacePerSource == Listen!ListenAssumption => (Listen!Spec => []Listen!OneConnectionPerSource)
<1> SUFFICES ASSUME Listen!ListenAssumption PROVE Listen!Spec => []Listen!OneConnectionPerSource
  OBVIOUS
<1>1. ListenInv => Listen!OneConnectionPerSource
  BY InvOneConnection
<1> QED BY <1>1, ListenInvariant, PTL

(* When no other call comes between the end of the wait in accept and its   *)
(* last write, a socket in LISTEN or SYN_RECEIVED that is not bound is the  *)
(* one of a request, and that of a request is such a socket.  (With         *)
(* LateAccept that write may come after an unaccept,                        *)
(* nx_tcp_server_socket_accept.c:199-203, and leave a socket in LISTEN that *)
(* no request names.)                                                       *)
THEOREM ListenersStayServed == Listen!ListenAssumption /\ ~ LateAccept => (Listen!Spec => []Listen!ListenersServed)
<1> SUFFICES ASSUME Listen!ListenAssumption /\ ~ LateAccept PROVE Listen!Spec => []Listen!ListenersServed
  OBVIOUS
<1>1. ListenInv => Listen!ListenersServed
  BY InvServed
<1> QED BY <1>1, ListenInvariant, PTL

-----------------------------------------------------------------------------
(* The backlog, with the sources of the queues for it.                      *)
Backlog == INSTANCE NetxSynBacklog WITH backlog <- Listen!Backlogs

(* The backlog of a port is the sequence of the sources at its places,      *)
LEMMA BacklogIs ==
  ASSUME Listen!ListenAssumption, Listen!TypeOK, Queues, NEW p \in Ports
  PROVE  /\ Listen!BacklogOf(p) \in Seq(Sources) /\ Len(Listen!BacklogOf(p)) = count[p]
         /\ \A n \in 1..count[p] : Listen!BacklogOf(p)[n] = source[Listen!At(p, n)]
<1>1. count[p] \in Nat BY QueueFacts DEF Queues
<1>2. ASSUME NEW n \in 1..count[p]
      PROVE  Listen!SourceOf(Listen!At(p, n)) = source[Listen!At(p, n)] /\ source[Listen!At(p, n)] \in Sources
  BY QueuedInPackets DEF Listen!SourceOf, Listen!ListenAssumption, Queues, OnePlaceEach
<1> QED BY <1>1, <1>2 DEF Listen!BacklogOf

(* also after a step.                                                       *)
LEMMA NextBacklogIs ==
  ASSUME Listen!ListenAssumption, Listen!TypeOK', Queues', NEW p \in Ports
  PROVE  /\ Listen!BacklogOf(p)' \in Seq(Sources) /\ Len(Listen!BacklogOf(p)') = count'[p]
         /\ \A n \in 1..count'[p] : Listen!BacklogOf(p)'[n] = source'[Listen!At(p, n)']
<1>1. count'[p] \in Nat BY DEF Listen!TypeOK, Listen!ListenAssumption
<1>2. ASSUME NEW n \in 1..count'[p]
      PROVE  Listen!SourceOf(Listen!At(p, n))' = source'[Listen!At(p, n)'] /\ source'[Listen!At(p, n)'] \in Sources
  BY DEF Listen!SourceOf, Listen!ListenAssumption, Queues, QueueShape, OnePlaceEach
<1> QED BY <1>1, <1>2 DEF Listen!BacklogOf

(* The backlogs of the other ports stay, and that of p becomes q.           *)
LEMMA BacklogsBecome ==
  ASSUME NEW p \in Ports, NEW q, Listen!BacklogOf(p)' = q,
         \A r \in Ports \ {p} : Listen!BacklogOf(r)' = Listen!BacklogOf(r)
  PROVE  Listen!Backlogs' = [Listen!Backlogs EXCEPT ![p] = q]
<1>1. \A r \in Ports : Listen!BacklogOf(r)' = [Listen!Backlogs EXCEPT ![p] = q][r]
  BY DEF Listen!Backlogs
<1>2. Listen!Backlogs' = [r \in Ports |-> Listen!BacklogOf(r)']
  BY DEF Listen!Backlogs
<1> QED BY <1>1, <1>2 DEF Listen!Backlogs

(* A SYN put behind the others arrives at the backlog,                      *)
LEMMA PutArrives ==
  ASSUME Listen!ListenAssumption, Listen!TypeOK, Queues, Listen!TypeOK', Queues',
         NEW p \in Ports, NEW x \in Sources, NEW k \in Packets, PutLast(p, x, k),
         count[p] < MaxQueue, x \notin ClientWaits(p)
  PROVE  Backlog!Arrive(p, x)
<1>1. \A r \in Ports : /\ count[r] \in Nat
                        /\ count'[r] = IF r = p THEN count[p] + 1 ELSE count[r]
  BY QueueFacts DEF PutLast, Listen!TypeOK, Queues
<1>2. ASSUME NEW r \in Ports, NEW n \in 1..count[r]
      PROVE  n \in 1..count'[r] /\ Listen!BacklogOf(r)'[n] = Listen!BacklogOf(r)[n]
  <2>1. n \in 1..count'[r] /\ ~ (r = p /\ n = count[p] + 1) BY <1>1
  <2>2. Listen!At(r, n)' = Listen!At(r, n) BY <2>1, PutPlaces
  <2>3. Listen!At(r, n) \in Packets /\ Listen!At(r, n) # k BY QueuedInPackets DEF PutLast
  <2>4. source'[Listen!At(r, n)] = source[Listen!At(r, n)] BY <2>3 DEF PutLast, Listen!TypeOK
  <2> QED BY <2>1, <2>2, <2>4, BacklogIs, NextBacklogIs
<1>3. ASSUME NEW r \in Ports \ {p} PROVE Listen!BacklogOf(r)' = Listen!BacklogOf(r)
  <2>1. r \in Ports /\ count[r] \in Nat /\ count'[r] = count[r] BY <1>1
  <2>2. /\ Listen!BacklogOf(r) \in Seq(Sources) /\ Len(Listen!BacklogOf(r)) = count[r]
        /\ Listen!BacklogOf(r)' \in Seq(Sources) /\ Len(Listen!BacklogOf(r)') = count[r]
    BY <2>1, BacklogIs, NextBacklogIs
  <2>3. \A n \in 1..count[r] : Listen!BacklogOf(r)'[n] = Listen!BacklogOf(r)[n]
    BY <2>1, <1>2
  <2> QED BY <2>2, <2>3, SeqEqual
<1>4. Listen!BacklogOf(p)' = Append(Listen!BacklogOf(p), x)
  <2> DEFINE q == Append(Listen!BacklogOf(p), x)
  <2>1. /\ q \in Seq(Sources) /\ Len(q) = count[p] + 1 /\ q[count[p] + 1] = x
        /\ \A n \in 1..count[p] : q[n] = Listen!BacklogOf(p)[n]
    BY BacklogIs, AppendProperties
  <2>2. PICK n \in 1..count'[p] : n = count[p] + 1 BY <1>1
  <2>3. Listen!At(p, n)' = k BY <2>2, PutPlaces
  <2>4. Listen!BacklogOf(p)'[n] = x BY <2>3, NextBacklogIs DEF PutLast, Listen!TypeOK
  <2> HIDE DEF q
  <2>5. ASSUME NEW i \in 1..count'[p] PROVE Listen!BacklogOf(p)'[i] = q[i]
    <3>1. CASE i = n BY <2>1, <2>2, <2>4, <3>1
    <3>2. CASE i # n
      <4>1. i \in 1..count[p] BY <1>1, <2>2, <3>2
      <4> QED BY <1>2, <2>1, <4>1
    <3> QED BY <3>1, <3>2
  <2>6. Len(Listen!BacklogOf(p)') = Len(q) BY <1>1, <2>1, NextBacklogIs
  <2>7. Listen!BacklogOf(p)' = q BY <1>1, <2>1, <2>5, <2>6, NextBacklogIs, SeqEqual
  <2> QED BY <2>7 DEF q
<1>5. Listen!Backlogs' = [Listen!Backlogs EXCEPT ![p] = Append(Listen!BacklogOf(p), x)]
  BY <1>3, <1>4, BacklogsBecome
<1>6. ~ Backlog!Waits(p, x)
  BY BacklogIs, QueuedWaits DEF Backlog!Waits, Listen!Backlogs, Listen!Queued, Listen!BacklogOf
<1>7. Listen!Backlogs[p] = Listen!BacklogOf(p) /\ Len(Listen!BacklogOf(p)) < MaxQueue
  BY BacklogIs DEF Listen!Backlogs
<1> QED BY <1>5, <1>6, <1>7 DEF Backlog!Arrive

(* and so does one that drives out the oldest.                              *)
LEMMA ShiftedArrives ==
  ASSUME Listen!ListenAssumption, Listen!TypeOK, Queues, Listen!TypeOK', Queues',
         NEW p \in Ports, NEW x \in Sources, NEW k \in Packets, count[p] # 0,
         Shifted(p, x, k), ~ (count[p] < MaxQueue), x \notin ClientWaits(p)
  PROVE  Backlog!Arrive(p, x)
<1>1. \A r \in Ports : count[r] \in Nat /\ count'[r] = count[r]
  BY QueueFacts DEF Shifted, Listen!TypeOK, Queues
<1>2. ASSUME NEW r \in Ports \ {p} PROVE Listen!BacklogOf(r)' = Listen!BacklogOf(r)
  <2>1. ASSUME NEW n \in 1..count[r] PROVE Listen!BacklogOf(r)'[n] = Listen!BacklogOf(r)[n]
    <3>1. Listen!At(r, n)' = Listen!At(r, n) /\ n \in 1..count'[r] BY <1>1, ShiftedPlaces
    <3>2. Listen!At(r, n) \in Packets /\ Listen!At(r, n) # k BY QueuedInPackets DEF Shifted
    <3>3. Listen!At(r, n) # Listen!At(p, 1)
      <4>1. 1 \in 1..count[p] BY <1>1
      <4> QED BY <4>1 DEF Queues, QueuesApart
    <3>4. source'[Listen!At(r, n)] = source[Listen!At(r, n)] BY <3>2, <3>3 DEF Shifted
    <3> QED BY <3>1, <3>4, BacklogIs, NextBacklogIs
  <2>2. /\ Listen!BacklogOf(r) \in Seq(Sources) /\ Listen!BacklogOf(r)' \in Seq(Sources)
        /\ Len(Listen!BacklogOf(r)) = count[r] /\ Len(Listen!BacklogOf(r)') = count[r]
    BY <1>1, BacklogIs, NextBacklogIs
  <2> QED BY <2>1, <2>2, SeqEqual
<1>3. Listen!BacklogOf(p)' = Tail(Append(Listen!BacklogOf(p), x))
  <2> DEFINE b == Append(Listen!BacklogOf(p), x)
             q == Tail(b)
  <2>1. /\ b \in Seq(Sources) /\ b # <<>> /\ Len(b) = count[p] + 1 /\ b[count[p] + 1] = x
        /\ \A n \in 1..count[p] : b[n] = Listen!BacklogOf(p)[n]
    BY BacklogIs, AppendProperties
  <2> HIDE DEF b
  <2>2. q \in Seq(Sources) /\ Len(q) = count[p] /\ \A i \in 1..Len(q) : q[i] = b[i + 1]
    <3>1. /\ q \in Seq(Sources) /\ Len(q) = Len(b) - 1
          /\ \A i \in 1..Len(q) : q[i] = b[i + 1]
      BY <2>1, HeadTailProperties
    <3>2. count[p] \in Nat BY <1>1
    <3> QED BY <2>1, <3>1, <3>2
  <2> HIDE DEF q
  <2>3. ASSUME NEW i \in 1..count'[p] PROVE Listen!BacklogOf(p)'[i] = q[i]
    <3>1. Listen!BacklogOf(p)'[i] = source'[Listen!At(p, i)'] /\ q[i] = b[i + 1] /\ i \in 1..count[p]
      BY <1>1, <2>2, NextBacklogIs
    <3>2. CASE i = count[p]
      <4>1. Listen!At(p, i)' = k BY <3>2, ShiftedPlaces
      <4> QED BY <2>1, <3>1, <3>2, <4>1 DEF Shifted
    <3>3. CASE i # count[p]
      <4>1. Listen!At(p, i)' = Listen!At(p, i + 1) BY <3>3, ShiftedPlaces
      <4>2. i + 1 \in 1..count[p] /\ 1 \in 1..count[p] /\ i + 1 # 1 BY <1>1, <3>1, <3>3
      <4>3. Listen!At(p, i + 1) \in Packets /\ Listen!At(p, i + 1) # k /\ Listen!At(p, i + 1) # Listen!At(p, 1)
        BY <4>2, QueuedInPackets DEF Shifted, Queues, QueuesApart
      <4>4. source'[Listen!At(p, i + 1)] = source[Listen!At(p, i + 1)] BY <4>3 DEF Shifted
      <4> QED BY <2>1, <3>1, <4>1, <4>2, <4>4, BacklogIs
    <3> QED BY <3>2, <3>3
  <2>4. Len(Listen!BacklogOf(p)') = Len(q) BY <1>1, <2>2, NextBacklogIs
  <2>5. Listen!BacklogOf(p)' = q BY <1>1, <2>2, <2>3, <2>4, NextBacklogIs, SeqEqual
  <2> QED BY <2>5 DEF q, b
<1>4. Listen!Backlogs' = [Listen!Backlogs EXCEPT ![p] = Tail(Append(Listen!BacklogOf(p), x))]
  BY <1>2, <1>3, BacklogsBecome
<1>5. ~ Backlog!Waits(p, x)
  BY BacklogIs, QueuedWaits DEF Backlog!Waits, Listen!Backlogs, Listen!Queued, Listen!BacklogOf
<1>6. Listen!Backlogs[p] = Listen!BacklogOf(p) /\ ~ (Len(Listen!BacklogOf(p)) < MaxQueue)
  BY BacklogIs DEF Listen!Backlogs
<1> QED BY <1>4, <1>5, <1>6 DEF Backlog!Arrive

(* The backlog without the source at place m.                               *)
LEMMA RemovedBacklog ==
  ASSUME Listen!ListenAssumption, Listen!TypeOK, Queues, Listen!TypeOK', Queues',
         NEW p \in Ports, NEW m \in 1..count[p], Removed(p, m)
  PROVE  /\ \A r \in Ports \ {p} : Listen!BacklogOf(r)' = Listen!BacklogOf(r)
         /\ Len(Listen!BacklogOf(p)') = count[p] - 1
         /\ \A n \in 1..count[p] - 1 :
              Listen!BacklogOf(p)'[n] = Listen!BacklogOf(p)[IF n >= m THEN n + 1 ELSE n]
<1> DEFINE old(r, n) == IF r = p /\ n >= m THEN n + 1 ELSE n
<1>1. \A r \in Ports : /\ count[r] \in Nat
                        /\ count'[r] = IF r = p THEN count[p] - 1 ELSE count[r]
  BY QueueFacts DEF Removed, Listen!TypeOK, Queues
<1>2. ASSUME NEW r \in Ports, NEW n \in 1..count'[r]
      PROVE  old(r, n) \in 1..count[r] /\ Listen!BacklogOf(r)'[n] = Listen!BacklogOf(r)[old(r, n)]
  <2>1. old(r, n) \in 1..count[r] /\ (r = p => old(r, n) # m) BY <1>1
  <2>2. Listen!At(r, n)' = Listen!At(r, old(r, n)) BY RemovedPlaces
  <2> HIDE DEF old
  <2>3. Listen!At(r, old(r, n)) \in Packets /\ Listen!At(r, old(r, n)) # Listen!At(p, m)
    BY <2>1, QueuedInPackets DEF Queues, QueuesApart
  <2>4. source'[Listen!At(r, old(r, n))] = source[Listen!At(r, old(r, n))] BY <2>3 DEF Removed
  <2> QED BY <2>1, <2>2, <2>4, BacklogIs, NextBacklogIs
<1>3. ASSUME NEW r \in Ports \ {p} PROVE Listen!BacklogOf(r)' = Listen!BacklogOf(r)
  <2>1. \A n \in 1..count[r] : Listen!BacklogOf(r)'[n] = Listen!BacklogOf(r)[n]
    BY <1>1, <1>2
  <2>2. /\ Listen!BacklogOf(r) \in Seq(Sources) /\ Len(Listen!BacklogOf(r)) = count[r]
        /\ Listen!BacklogOf(r)' \in Seq(Sources) /\ Len(Listen!BacklogOf(r)') = count'[r]
    BY BacklogIs, NextBacklogIs
  <2>3. count'[r] = count[r] BY <1>1
  <2> QED BY <2>1, <2>2, <2>3, SeqEqual
<1> QED BY <1>1, <1>2, <1>3, NextBacklogIs

(* Taken out for a RST, the source has withdrawn;                           *)
LEMMA RemovedWithdraws ==
  ASSUME Listen!ListenAssumption, Listen!TypeOK, Queues, Listen!TypeOK', Queues',
         NEW p \in Ports, NEW x \in Sources, NEW m \in 1..count[p], Removed(p, m),
         source[Listen!At(p, m)] = x
  PROVE  Backlog!Withdraw(p, x)
<1> DEFINE b == Listen!BacklogOf(p)
           q == SubSeq(b, 1, m - 1) \o SubSeq(b, m + 1, Len(b))
<1>1. b \in Seq(Sources) /\ Len(b) = count[p] /\ count[p] \in Nat /\ b[m] = x
  BY BacklogIs, QueueFacts DEF Queues
<1>2. /\ Listen!BacklogOf(p)' \in Seq(Sources) /\ Len(Listen!BacklogOf(p)') = Len(b) - 1
      /\ \A n \in 1..Len(b) - 1 : Listen!BacklogOf(p)'[n] = b[IF n >= m THEN n + 1 ELSE n]
  BY <1>1, RemovedBacklog, NextBacklogIs
<1> HIDE DEF b
<1>3. \A i \in 1..Len(b) : b[i] \in Sources
  BY <1>1, ElementOfSeq
<1>4. /\ SubSeq(b, 1, m - 1) \in Seq(Sources) /\ Len(SubSeq(b, 1, m - 1)) = m - 1
      /\ \A i \in 1..m - 1 : SubSeq(b, 1, m - 1)[i] = b[i]
  BY <1>1, <1>3, SubSeqProperties
<1>5. /\ SubSeq(b, m + 1, Len(b)) \in Seq(Sources)
      /\ Len(SubSeq(b, m + 1, Len(b))) = Len(b) - m
      /\ \A i \in 1..Len(b) - m : SubSeq(b, m + 1, Len(b))[i] = b[m + i]
  <2>1. m + 1 \in Int /\ Len(b) \in Int /\ \A i \in m + 1..Len(b) : b[i] \in Sources
    BY <1>1, <1>3
  <2>2. /\ SubSeq(b, m + 1, Len(b)) \in Seq(Sources)
        /\ Len(SubSeq(b, m + 1, Len(b))) = IF m + 1 <= Len(b) THEN Len(b) - (m + 1) + 1 ELSE 0
        /\ \A i \in 1..Len(b) - (m + 1) + 1 :
             SubSeq(b, m + 1, Len(b))[i] = b[(m + 1) + i - 1]
    BY <2>1, SubSeqProperties
  <2> QED BY <1>1, <2>2
<1>6. /\ q \in Seq(Sources) /\ Len(q) = Len(b) - 1
      /\ \A i \in 1..Len(b) - 1 : q[i] = b[IF i >= m THEN i + 1 ELSE i]
  <2> DEFINE u == SubSeq(b, 1, m - 1)
             v == SubSeq(b, m + 1, Len(b))
  <2>1. /\ u \in Seq(Sources) /\ Len(u) = m - 1
        /\ \A i \in 1..m - 1 : u[i] = b[i]
    BY <1>4
  <2>2. /\ v \in Seq(Sources) /\ Len(v) = Len(b) - m
        /\ \A i \in 1..Len(b) - m : v[i] = b[m + i]
    BY <1>5
  <2> HIDE DEF u, v
  <2>3. /\ u \o v \in Seq(Sources) /\ Len(u \o v) = Len(u) + Len(v)
        /\ \A i \in 1..Len(u) + Len(v) :
             (u \o v)[i] = IF i <= Len(u) THEN u[i] ELSE v[i - Len(u)]
    BY <2>1, <2>2, ConcatProperties
  <2>4. Len(u \o v) = Len(b) - 1
    <3>1. Len(u \o v) = (m - 1) + (Len(b) - m) BY <2>1, <2>2, <2>3
    <3>2. Len(b) \in Nat /\ m \in Nat BY <1>1
    <3> QED BY <3>1, <3>2
  <2>5. ASSUME NEW i \in 1..Len(b) - 1
        PROVE  (u \o v)[i] = b[IF i >= m THEN i + 1 ELSE i]
    <3>1. (u \o v)[i] = IF i <= m - 1 THEN u[i] ELSE v[i - (m - 1)]
      <4>1. Len(u) = m - 1 /\ Len(u) + Len(v) = Len(b) - 1
        <5>1. Len(u) = m - 1 /\ Len(v) = Len(b) - m BY <2>1, <2>2
        <5>2. Len(b) \in Nat /\ m \in Nat BY <1>1
        <5> QED BY <5>1, <5>2
      <4>2. i \in 1..Len(u) + Len(v) BY <4>1
      <4>3. (u \o v)[i] = IF i <= Len(u) THEN u[i] ELSE v[i - Len(u)] BY <2>3, <4>2
      <4> QED BY <4>1, <4>3
    <3>2. CASE i >= m
      <4>1. i - (m - 1) \in 1..Len(b) - m /\ m + (i - (m - 1)) = i + 1
        BY <1>1, <3>2
      <4>2. v[i - (m - 1)] = b[m + (i - (m - 1))]
        BY <2>2, <4>1
      <4>3. v[i - (m - 1)] = b[i + 1]
        BY <4>1, <4>2
      <4>4. ~ (i <= m - 1)
        BY <1>1, <3>2
      <4> QED BY <3>1, <3>2, <4>3, <4>4
    <3>3. CASE ~ (i >= m)
      <4>1. i \in 1..m - 1
        BY <1>1, <3>3
      <4> QED BY <2>1, <3>1, <3>3, <4>1
    <3> QED BY <3>2, <3>3
  <2> QED BY <2>3, <2>4, <2>5 DEF u, v
<1> HIDE DEF q
<1>7. Listen!BacklogOf(p)' = q
  <2>1. PICK c : c = Listen!BacklogOf(p)' OBVIOUS
  <2>2. /\ c \in Seq(Sources) /\ q \in Seq(Sources) /\ Len(c) = Len(q)
        /\ \A i \in 1..Len(c) : c[i] = q[i]
    BY <1>1, <1>2, <1>6, <2>1
  <2> QED BY <2>1, <2>2, SeqEqual
<1>8. Listen!Backlogs' = [Listen!Backlogs EXCEPT ![p] = q]
  BY <1>7, RemovedBacklog, BacklogsBecome
<1>9. Listen!Backlogs[p] = b /\ DOMAIN b = 1..Len(b)
  BY <1>1, LenProperties DEF Listen!Backlogs, b
<1> QED BY <1>1, <1>8, <1>9 DEF Backlog!Withdraw, q

(* taken from the head, it was served.                                      *)
LEMMA RemovedServes ==
  ASSUME Listen!ListenAssumption, Listen!TypeOK, Queues, Listen!TypeOK', Queues',
         NEW p \in Ports, 1 \in 1..count[p], Removed(p, 1)
  PROVE  Backlog!Serve(p)
<1> DEFINE b == Listen!BacklogOf(p)
<1>1. b \in Seq(Sources) /\ Len(b) = count[p] /\ count[p] \in Nat /\ b # <<>>
  BY BacklogIs, QueueFacts DEF Queues
<1>2. /\ Listen!BacklogOf(p)' \in Seq(Sources) /\ Len(Listen!BacklogOf(p)') = Len(b) - 1
      /\ \A n \in 1..Len(b) - 1 : Listen!BacklogOf(p)'[n] = b[n + 1]
  <2>1. /\ Len(Listen!BacklogOf(p)') = count[p] - 1
        /\ \A n \in 1..count[p] - 1 : Listen!BacklogOf(p)'[n] = Listen!BacklogOf(p)[IF n >= 1 THEN n + 1 ELSE n]
    BY RemovedBacklog
  <2> QED BY <1>1, <2>1, NextBacklogIs
<1> HIDE DEF b
<1>3. Tail(b) \in Seq(Sources) /\ Len(Tail(b)) = Len(b) - 1
      /\ \A i \in 1..Len(Tail(b)) : Tail(b)[i] = b[i + 1]
  BY <1>1, HeadTailProperties
<1>4. Listen!BacklogOf(p)' = Tail(b)
  BY <1>1, <1>2, <1>3, SeqEqual
<1>5. Listen!Backlogs' = [Listen!Backlogs EXCEPT ![p] = Tail(b)]
  BY <1>4, RemovedBacklog, BacklogsBecome
<1> QED BY <1>1, <1>5 DEF Backlog!Serve, Listen!Backlogs, b

(* The backlogs when some queues were emptied:                              *)
LEMMA EmptiedBacklog ==
  ASSUME Listen!ListenAssumption, Listen!TypeOK, Queues, Listen!TypeOK', Queues', NEW P \in SUBSET Ports, Emptied(P)
  PROVE  /\ \A r \in Ports \ P : Listen!BacklogOf(r)' = Listen!BacklogOf(r)
         /\ \A r \in P : Listen!BacklogOf(r)' = <<>>
<1>1. ASSUME NEW r \in Ports \ P PROVE Listen!BacklogOf(r)' = Listen!BacklogOf(r)
  <2>1. count'[r] = count[r] BY DEF Emptied
  <2>2. ASSUME NEW n \in 1..count[r] PROVE Listen!BacklogOf(r)'[n] = Listen!BacklogOf(r)[n]
    <3>1. Listen!At(r, n)' = Listen!At(r, n) /\ Listen!At(r, n) \in Packets \ pool'
      BY <2>1, EmptiedPlaces
    <3>2. source'[Listen!At(r, n)] = source[Listen!At(r, n)] BY <3>1 DEF Emptied
    <3> QED BY <2>1, <3>1, <3>2, BacklogIs, NextBacklogIs
  <2> QED BY <2>1, <2>2, BacklogIs, NextBacklogIs, SeqEqual
<1>2. ASSUME NEW r \in P PROVE Listen!BacklogOf(r)' = <<>>
  <2>1. count'[r] = 0 BY DEF Emptied
  <2> QED BY <2>1, NextBacklogIs, EmptySeq
<1> QED BY <1>1, <1>2

(* none, which is no step,                                                  *)
LEMMA EmptiedNoneStutters ==
  ASSUME Listen!ListenAssumption, Listen!TypeOK, Queues, Listen!TypeOK', Queues', Emptied({})
  PROVE  UNCHANGED Listen!Backlogs
<1>1. \A r \in Ports : Listen!BacklogOf(r)' = Listen!BacklogOf(r)
  BY EmptiedBacklog
<1>2. Listen!Backlogs' = [r \in Ports |-> Listen!BacklogOf(r)']
  BY DEF Listen!Backlogs
<1> QED BY <1>1, <1>2 DEF Listen!Backlogs

(* or that of one port.                                                     *)
LEMMA EmptiedCloses ==
  ASSUME Listen!ListenAssumption, Listen!TypeOK, Queues, Listen!TypeOK', Queues', NEW p \in Ports, Emptied({p})
  PROVE  Backlog!Close(p)
<1>1. Listen!BacklogOf(p)' = <<>> /\ \A r \in Ports \ {p} : Listen!BacklogOf(r)' = Listen!BacklogOf(r)
  BY EmptiedBacklog
<1> QED BY <1>1, BacklogsBecome DEF Backlog!Close

(* Every step is one of the backlog, or none.                               *)
LEMMA StepOfBacklog ==
  ASSUME Listen!ListenAssumption, ListenInv, [Listen!Next]_(Listen!vars)
  PROVE  [Backlog!Next]_(Listen!Backlogs)
<1>0. Listen!TypeOK /\ Queues /\ ListenRest BY InvParts
<1>1. Listen!TypeOK' /\ Queues'
  BY ListenStepKeeps DEF ListenInv, Queues
<1>2. ASSUME NEW p \in Ports, NEW x \in Sources, NEW k \in Packets, Listen!SynQueue(p, x, k)
      PROVE  Backlog!Arrive(p, x) \/ UNCHANGED Listen!Backlogs
  <2>1. x \notin ClientWaits(p) BY <1>0, <1>2, QueuedWaits DEF Listen!SynQueue
  <2>2. CASE PutLast(p, x, k) /\ count[p] < MaxQueue BY <1>0, <1>1, <2>1, <2>2, PutArrives
  <2>3. CASE Shifted(p, x, k) /\ count[p] # 0
    <3>1. ~ (count[p] < MaxQueue)
      <4>1. count[p] \in Nat BY <1>0, QueueFacts DEF Queues
      <4>2. count' = count BY <2>3 DEF Shifted
      <4> QED BY <1>0, <1>2, <4>1, <4>2 DEF Listen!SynQueue, Listen!Enqueue, Listen!TypeOK
    <3> QED BY <1>0, <1>1, <2>1, <2>3, <3>1, ShiftedArrives
  <2>4. CASE Emptied({}) BY <1>0, <1>1, <2>4, EmptiedNoneStutters
  <2> QED BY <1>0, <1>2, <2>2, <2>3, <2>4, PutsOrShifts
<1>3. ASSUME NEW p \in Ports, NEW x \in Sources, Listen!RstQueue(p, x) PROVE Backlog!Withdraw(p, x)
  <2>1. PICK m \in 1..count[p] : Removed(p, m) /\ source[Listen!At(p, m)] = x
    BY <1>0, <1>3, RstRemoves
  <2> QED BY <1>0, <1>1, <2>1, RemovedWithdraws
<1>4. ASSUME NEW p \in Ports, NEW s \in Sockets, Listen!RelistenPending(s, p) \/ Listen!RelistenDeclined(s, p)
      PROVE  Backlog!Serve(p)
  <2>1. count[p] # 0 /\ Listen!Dequeue(p) BY <1>4 DEF Listen!RelistenPending, Listen!RelistenDeclined
  <2>2. 1 \in 1..count[p] /\ Removed(p, 1) BY <1>0, <2>1, DequeueRemoves
  <2> QED BY <1>0, <1>1, <2>2, RemovedServes
<1>5. ASSUME NEW p \in Ports, Listen!Unlisten(p) PROVE Backlog!Close(p) \/ UNCHANGED Listen!Backlogs
  BY <1>0, <1>1, <1>5, UnlistenEmpties, EmptiedCloses, EmptiedNoneStutters
<1>6. ASSUME NEW p \in Ports, NEW s \in Sockets, Listen!Listen(s, p) PROVE UNCHANGED Listen!Backlogs
  <2>1. count[p] = 0 /\ head[p] = None
    BY <1>0, <1>6, HeadFacts DEF Listen!Listen, ListenRest, Requests
  <2>2. Emptied({}) BY <1>0, <1>6, <2>1 DEF Listen!Listen, Emptied, Listen!TypeOK, Listen!packetVars
  <2> QED BY <1>0, <1>1, <2>2, EmptiedNoneStutters
<1>7. ASSUME UNCHANGED <<head, tail, count, Listen!packetVars>> PROVE UNCHANGED Listen!Backlogs
  BY <1>0, <1>1, <1>7, OthersEmptyNone, EmptiedNoneStutters
<1>8. ASSUME NEW p \in Ports, NEW x \in Sources, Listen!SynListener(p, x) PROVE UNCHANGED Listen!Backlogs
  BY <1>7, <1>8 DEF Listen!SynListener
<1>9. ASSUME NEW p \in Ports, NEW s \in Sockets, Listen!RelistenIdle(s, p) PROVE UNCHANGED Listen!Backlogs
  BY <1>7, <1>9 DEF Listen!RelistenIdle
<1>10. ASSUME NEW s \in Sockets,
              Listen!Accept(s) \/ Listen!AcceptFails(s) \/ Listen!AcceptReturns(s) \/ Listen!Established(s) \/ Listen!Closed(s)
              \/ Listen!Reset(s) \/ Listen!Unaccept(s)
       PROVE  UNCHANGED Listen!Backlogs
  BY <1>7, <1>10 DEF Listen!Accept, Listen!AcceptFails, Listen!AcceptReturns, Listen!Established, Listen!Closed, Listen!Reset, Listen!Unaccept,
                     Listen!queueVars
<1>11. CASE UNCHANGED Listen!vars
  BY <1>7, <1>11 DEF Listen!vars, Listen!queueVars
<1> QED BY <1>2, <1>3, <1>4, <1>5, <1>6, <1>8, <1>9, <1>10, <1>11 DEF Listen!Next, Backlog!Next

(* It starts as the backlog does.                                           *)
LEMMA InitOfBacklog == ASSUME Listen!ListenAssumption, Listen!Init PROVE Backlog!Init
<1>1. Listen!TypeOK /\ Queues BY ListenInitTrue, InvParts
<1>2. \A p \in Ports : Listen!BacklogOf(p) = <<>>
  BY <1>1, BacklogIs, EmptySeq DEF Listen!Init
<1> QED BY <1>2 DEF Backlog!Init, Listen!Backlogs

(* The linked queues implement the backlog a listen request promises: at    *)
(* most MaxQueue sources wait, in the order of arrival, the oldest gives    *)
(* way to a new one, a RST takes back that of its source and relisten       *)
(* serves the oldest.                                                       *)
THEOREM ListenImplementsBacklog == Listen!ListenAssumption => (Listen!Spec => Backlog!Spec)
<1> SUFFICES ASSUME Listen!ListenAssumption PROVE Listen!Spec => Backlog!Spec
  OBVIOUS
<1>1. Listen!Init => Backlog!Init
  BY InitOfBacklog
<1>2. ListenInv /\ [Listen!Next]_(Listen!vars) => [Backlog!Next]_(Listen!Backlogs)
  BY StepOfBacklog
<1> QED BY <1>1, <1>2, ListenInvariant, PTL DEF Listen!Spec, Backlog!Spec
-----------------------------------------------------------------------------
(***************************************************************************)
(* Proofs about NetxPoolDelete, for any threads and any number of packets: *)
(* the walk that deletes a pool comes by every thread that waits in it, but*)
(* for as many as packets are handed out from interrupts meanwhile.        *)
(***************************************************************************)
CONSTANTS Total, ULongMax
VARIABLES valid, available, used, status, step, walk, released

Pool == INSTANCE NetxPoolDelete

(* The model's Cardinality is that of the facts about finite sets.          *)
LEMMA PoolCardinality ==
  \A S : Pool!Cardinality(S) = Cardinality(S) /\ (Pool!IsFiniteSet(S) <=> IsFiniteSet(S))
  BY DEF Pool!Cardinality, Cardinality, Pool!IsFiniteSet, IsFiniteSet

-----------------------------------------------------------------------------
(* Who waits, and whether links, head and count say so.                     *)
Suspended == {t \in Threads : tstate[t] = "suspended"}
PoolLinked ==
  /\ Cyclic(Suspended, nxt, prv) /\ count = Cardinality(Suspended)
  /\ IF Suspended = {} THEN list = None ELSE list \in Suspended
  /\ \A t \in Threads : cleanup[t] <=> tstate[t] = "suspended"

(* What the walk has still to do while no packet is released: the waiters   *)
(* left are those that come from where it is.                               *)
DeleteGoesOn ==
  /\ \A t \in Suspended : prv[nxt[t]] = t
  /\ step = "loop" => Reaches(Suspended, walk, nxt) /\ count = Cardinality(Suspended)
  /\ step = "cleared" =>
       walk \in Suspended /\ Reaches(Suspended, walk, nxt) /\ count = Cardinality(Suspended)
  /\ step = "moved" =>
       /\ prv[walk] \in Suspended /\ nxt[prv[walk]] = walk
       /\ Reaches(Suspended, prv[walk], nxt)
       /\ status[prv[walk]] = "POOL_DELETED" /\ count = Cardinality(Suspended)
  /\ step = "resumed" =>
       Reaches(Suspended, walk, nxt) /\ count = Cardinality(Suspended) + 1
  /\ step = "done" => Suspended = {}

PoolTyped ==
  /\ Pool!TypeOK /\ available + used = Total /\ (valid <=> step = "none")
  /\ step = "none" => released = 0
AloneInv ==
  /\ PoolTyped /\ released = 0
  /\ step = "none" => PoolLinked
  /\ step # "none" => DeleteGoesOn

(* And whatever is released: R is the ring as it is now, with its tail l, m *)
(* the links as they were when the walk began, and V those it has still to  *)
(* visit.  All who wait are among these, but for the one it is about to     *)
(* resume; and its turns, with the packets released, are enough for them.   *)
TurnsLeft(R, V, m, l) ==
  /\ Cyclic(R, nxt, prv) /\ Suspended \subseteq R
  /\ IF R = {} THEN list = None ELSE list \in R /\ prv[list] = l
  /\ Reaches(V, walk, m) /\ (\A x \in V : x # l => nxt[x] = m[x])
  /\ m[l] \in V => m[l] = walk
  /\ \A t \in Suspended : t \in V \/ (step = "moved" /\ t = prv[walk])
  /\ count + released >= Cardinality(V) + (IF step \in {"moved", "resumed"} THEN 1 ELSE 0)
  /\ step = "cleared" => count + released > 0
  /\ step = "done" => count = 0
  /\ walk = None => step \in {"loop", "done"} /\ list = None /\ count = 0

DeleteInv ==
  /\ PoolTyped /\ (released = 0 => AloneInv)
  /\ step # "none" =>
       \E R, V \in SUBSET Threads, m \in [Threads -> Threads], l \in Threads \cup {None} :
         TurnsLeft(R, V, m, l)

(* Waiters can be counted, and the count goes down by one.                  *)
LEMMA PoolFinite ==
  ASSUME Pool!DeleteAssumption, NEW W \in SUBSET Threads
  PROVE  /\ Cardinality(W) \in 0..Cardinality(Threads) /\ Cardinality(Threads) \in Nat
         /\ (Cardinality(W) = 0 <=> W = {})
         /\ \A t \in W : Cardinality(W \ {t}) = Cardinality(W) - 1
         /\ \A t \in Threads \ W : Cardinality(W \cup {t}) = Cardinality(W) + 1
<1>1. IsFiniteSet(Threads) BY PoolCardinality DEF Pool!DeleteAssumption
<1>2. IsFiniteSet(W) /\ Cardinality(W) <= Cardinality(Threads)
  BY <1>1, FS_Subset
<1>3. Cardinality(W) \in Nat /\ Cardinality(Threads) \in Nat
  BY <1>1, <1>2, FS_CardinalityType
<1>4. Cardinality(W) = 0 <=> W = {}
  BY <1>2, FS_EmptySet
<1>5. \A t \in W : Cardinality(W \ {t}) = Cardinality(W) - 1
  BY <1>2, FS_RemoveElement
<1>6. \A t \in Threads \ W : Cardinality(W \cup {t}) = Cardinality(W) + 1
  BY <1>2, FS_AddElement
<1> QED BY <1>3, <1>2, <1>4, <1>5, <1>6

LEMMA DownIs ==
  ASSUME Pool!DeleteAssumption, NEW n \in 0..ULongMax
  PROVE  Pool!Down(n) = IF n = 0 THEN ULongMax ELSE n - 1
<1>1. ULongMax \in Nat /\ n <= ULongMax /\ n \in Nat BY DEF Pool!DeleteAssumption
<1>2. PICK U : U = ULongMax + 1 OBVIOUS
<1>3. PICK x : x = n + ULongMax OBVIOUS
<1>4. U \in Nat /\ U > 0 /\ x \in Nat /\ x < 2 * U BY <1>1, <1>2, <1>3
<1>5. CASE n = 0
  <2>1. x % U = x BY <1>1, <1>2, <1>3, <1>4, <1>5
  <2> QED BY <1>1, <1>2, <1>3, <1>5, <2>1 DEF Pool!Down
<1>6. CASE n # 0
  <2>1. U <= x /\ x - U = n - 1 BY <1>1, <1>2, <1>3, <1>6
  <2>2. x % U = x - U BY <1>4, <2>1
  <2> QED BY <1>2, <1>3, <1>6, <2>1, <2>2 DEF Pool!Down
<1> QED BY <1>5, <1>6

(* The count does not wrap while it counts who waits.                       *)
LEMMA PoolFits ==
  ASSUME Pool!DeleteAssumption
  PROVE  /\ 0..Cardinality(Threads) \subseteq 0..ULongMax
         /\ Cardinality(Threads) <= ULongMax /\ ULongMax \in Nat
<1>1. Cardinality(Threads) \in Nat BY PoolFinite
<1>2. ULongMax \in Nat /\ ULongMax >= Cardinality(Threads)
  BY PoolCardinality DEF Pool!DeleteAssumption
<1> QED BY <1>1, <1>2

(* A waiter leaves the ring: released to, or timed out.                     *)
LEMMA UnlinkKeeps ==
  ASSUME Pool!DeleteAssumption, Pool!TypeOK, PoolLinked, NEW t \in Suspended, Pool!Unlink(t),
         count' = Pool!Down(count), cleanup' = [cleanup EXCEPT ![t] = FALSE],
         tstate' = [tstate EXCEPT ![t] = "running"]
  PROVE  /\ PoolLinked' /\ count' \in 0..Cardinality(Threads)
         /\ list' \in Threads \cup {None}
         /\ nxt' \in [Threads -> Threads] /\ prv' \in [Threads -> Threads]
<1> DEFINE W == Suspended
<1>1. /\ nxt \in [Threads -> Threads] /\ prv \in [Threads -> Threads] /\ W \subseteq Threads
      /\ tstate \in [Threads -> {"running", "suspended"}] /\ cleanup \in [Threads -> BOOLEAN]
      /\ list \in Threads \cup {None} /\ None \notin Threads /\ t \in W /\ t \in Threads
      /\ count = Cardinality(W) /\ Cyclic(W, nxt, prv)
  BY PoolCardinality DEF Pool!TypeOK, Suspended, Pool!DeleteAssumption, PoolLinked
<1>2. Suspended' = W \ {t}
  BY <1>1 DEF Suspended
<1>3. count' = Cardinality(W \ {t}) /\ count' \in 0..Cardinality(Threads)
  <2>1. /\ Cardinality(W) \in 0..Cardinality(Threads) /\ Cardinality(Threads) \in Nat
        /\ Cardinality(W) # 0 /\ Cardinality(W \ {t}) = Cardinality(W) - 1
    BY <1>1, PoolFinite
  <2>2. count \in 0..ULongMax /\ count # 0 BY <1>1, <2>1 DEF Pool!TypeOK
  <2>3. Pool!Down(count) = count - 1 BY <2>2, DownIs
  <2> QED BY <1>1, <2>1, <2>2, <2>3
<1>4. \A u \in Threads : cleanup'[u] <=> tstate'[u] = "suspended"
  <2>1. \A u \in Threads : u # t =>
          (cleanup'[u] <=> cleanup[u]) /\ tstate'[u] = tstate[u]
    BY <1>1
  <2>2. ~ cleanup'[t] /\ tstate'[t] # "suspended" BY <1>1
  <2> QED BY <2>1, <2>2 DEF PoolLinked
<1>5. CASE nxt[t] = t
  <2>1. list' = None /\ nxt' = nxt /\ prv' = prv BY <1>5 DEF Pool!Unlink
  <2>2. W = {t} BY <1>1, <1>5, AloneCyclic
  <2>3. Suspended' = {} BY <1>2, <2>2
  <2> QED BY <1>1, <1>2, <1>3, <1>4, <2>1, <2>3, EmptyCyclic DEF PoolLinked
<1>6. CASE nxt[t] # t
  <2>1. /\ list' = IF list = t THEN nxt[t] ELSE list
        /\ nxt' = [nxt EXCEPT ![prv[t]] = nxt[t]] /\ prv' = [prv EXCEPT ![nxt[t]] = prv[t]]
    BY <1>6 DEF Pool!Unlink
  <2>2. nxt[t] \in W /\ prv[t] \in W BY <1>1 DEF Cyclic
  <2>3. Unlinked(W, t, nxt, prv, nxt', prv')
    <3> HIDE DEF W
    <3> QED BY <1>1, <2>1, <2>2 DEF Unlinked
  <2>4. Cyclic(W \ {t}, nxt', prv') /\ nxt[t] \in W \ {t}
    BY <1>1, <1>6, <2>3, RemoveCyclic
  <2>5. list' \in W \ {t}
    <3>1. list \in W BY <1>1 DEF PoolLinked
    <3> QED BY <2>1, <2>4, <3>1
  <2>6. nxt' \in [Threads -> Threads] /\ prv' \in [Threads -> Threads]
    BY <1>1, <2>1, <2>2
  <2> QED BY <1>1, <1>2, <1>3, <1>4, <2>4, <2>5, <2>6 DEF PoolLinked
<1> QED BY <1>5, <1>6

(* A thread finds no packet and joins the ring, at its end.                 *)
LEMMA AllocateWaitKeeps ==
  ASSUME Pool!DeleteAssumption, AloneInv, NEW t \in Threads, Pool!AllocateWait(t)
  PROVE  AloneInv'
<1> DEFINE W == Suspended
<1>1. /\ Pool!DeleteAssumption /\ Pool!TypeOK /\ step = "none" /\ valid /\ PoolLinked
      /\ available + used = Total
  BY DEF Pool!AllocateWait, AloneInv, PoolTyped
<1>2. /\ nxt \in [Threads -> Threads] /\ prv \in [Threads -> Threads] /\ W \subseteq Threads
      /\ tstate \in [Threads -> {"running", "suspended"}] /\ cleanup \in [Threads -> BOOLEAN]
      /\ list \in Threads \cup {None} /\ None \notin Threads /\ t \notin W
      /\ count = Cardinality(W) /\ Cyclic(W, nxt, prv)
  BY <1>1, PoolCardinality DEF Pool!TypeOK, Suspended, Pool!DeleteAssumption, PoolLinked, Pool!AllocateWait
<1>3. /\ count' = count + 1 /\ cleanup' = [cleanup EXCEPT ![t] = TRUE]
      /\ tstate' = [tstate EXCEPT ![t] = "suspended"]
      /\ valid' = valid /\ available' = available /\ used' = used /\ status' = status
      /\ step' = step /\ walk' = walk /\ released' = released
  BY DEF Pool!AllocateWait, Pool!poolVars, Pool!deleteVars
<1>4. Suspended' = W \cup {t} BY <1>2, <1>3 DEF Suspended
<1>5. count' = Cardinality(W \cup {t}) /\ count' \in 0..Cardinality(Threads)
  <2>1. /\ Cardinality(W \cup {t}) = Cardinality(W) + 1 /\ W \cup {t} \in SUBSET Threads
    BY <1>1, <1>2, PoolFinite
  <2>2. Cardinality(W \cup {t}) \in 0..Cardinality(Threads) BY <1>1, <2>1, PoolFinite
  <2> QED BY <1>2, <1>3, <2>1, <2>2
<1>6. \A u \in Threads : cleanup'[u] <=> tstate'[u] = "suspended"
  <2>1. \A u \in Threads : u # t =>
          (cleanup'[u] <=> cleanup[u]) /\ tstate'[u] = tstate[u]
    BY <1>2, <1>3
  <2>2. cleanup'[t] /\ tstate'[t] = "suspended" BY <1>2, <1>3
  <2> QED BY <1>1, <2>1, <2>2 DEF PoolLinked
<1>7. /\ Cyclic(W \cup {t}, nxt', prv') /\ list' \in W \cup {t}
      /\ nxt' \in [Threads -> Threads] /\ prv' \in [Threads -> Threads]
  <2>1. CASE list = None
    <3>1. list' = t /\ nxt' = [nxt EXCEPT ![t] = t] /\ prv' = [prv EXCEPT ![t] = t]
      BY <2>1 DEF Pool!AllocateWait
    <3>2. W = {} BY <1>1, <1>2, <2>1 DEF PoolLinked
    <3>3. Cyclic({t}, nxt', prv') BY <1>2, <3>1, OneCyclic
    <3> QED BY <1>2, <3>1, <3>2, <3>3
  <2>2. CASE list # None
    <3>1. /\ list' = list
          /\ nxt' = [nxt EXCEPT ![t] = list, ![prv[list]] = t]
          /\ prv' = [prv EXCEPT ![t] = prv[list], ![list] = t]
      BY <2>2 DEF Pool!AllocateWait
    <3>2. list \in W BY <1>1, <2>2 DEF PoolLinked
    <3>3. prv[list] \in W BY <1>2, <3>2 DEF Cyclic
    <3>4. Cyclic(W \cup {t}, nxt', prv')
      <4>1. DOMAIN prv = Threads BY <1>2
      <4> HIDE DEF W
      <4> QED BY <1>2, <3>1, <3>2, <4>1, InsertCyclic, Zenon
    <3> QED BY <1>2, <3>1, <3>2, <3>3, <3>4
  <2> QED BY <2>1, <2>2
<1>8. PoolLinked' BY <1>4, <1>5, <1>6, <1>7 DEF PoolLinked
<1>9. Pool!TypeOK'
  <2>1. /\ tstate' \in [Threads -> {"running", "suspended"}] /\ cleanup' \in [Threads -> BOOLEAN]
        /\ count' \in 0..ULongMax
    BY <1>2, <1>3, <1>5, PoolFits
  <2> QED BY <1>1, <1>2, <1>3, <1>5, <1>7, <2>1, PoolCardinality DEF Pool!TypeOK
<1> QED BY <1>1, <1>3, <1>8, <1>9 DEF AloneInv, PoolTyped

(* Who leaves changes nothing else.                                         *)
LEMMA LeavesKeeps ==
  ASSUME Pool!DeleteAssumption, AloneInv, step = "none", NEW t \in Suspended, Pool!Unlink(t),
         count' = Pool!Down(count), cleanup' = [cleanup EXCEPT ![t] = FALSE],
         tstate' = [tstate EXCEPT ![t] = "running"], NEW x \in {"SUCCESS", "NO_PACKET"},
         status' = [status EXCEPT ![t] = x], UNCHANGED <<Pool!poolVars, Pool!deleteVars>>
  PROVE  AloneInv'
<1>1. /\ Pool!DeleteAssumption /\ Pool!TypeOK /\ valid /\ PoolLinked /\ t \in Threads
      /\ available + used = Total
  BY DEF AloneInv, PoolTyped, Suspended
<1>2. /\ valid' = valid /\ available' = available /\ used' = used
      /\ step' = step /\ walk' = walk /\ released' = released
  BY DEF Pool!poolVars, Pool!deleteVars
<1>3. /\ PoolLinked' /\ count' \in 0..Cardinality(Threads) /\ list' \in Threads \cup {None}
      /\ nxt' \in [Threads -> Threads] /\ prv' \in [Threads -> Threads]
  BY <1>1, UnlinkKeeps
<1>4. /\ tstate' \in [Threads -> {"running", "suspended"}] /\ cleanup' \in [Threads -> BOOLEAN]
      /\ status' \in [Threads -> {"SUCCESS", "NO_PACKET", "POOL_DELETED"}]
  BY <1>1, PoolCardinality DEF Pool!TypeOK
<1>6. count' \in 0..ULongMax BY <1>3, PoolFits
<1>5. Pool!TypeOK' BY <1>1, <1>2, <1>3, <1>4, <1>6, PoolCardinality DEF Pool!TypeOK
<1> QED BY <1>1, <1>2, <1>3, <1>5 DEF AloneInv, PoolTyped

LEMMA PoolTimeoutKeeps ==
  ASSUME Pool!DeleteAssumption, AloneInv, NEW t \in Threads, Pool!Timeout(t)
  PROVE  AloneInv'
<1>1. step = "none" /\ t \in Suspended
  BY DEF Pool!Timeout, AloneInv, PoolTyped, PoolLinked, Suspended
<1> QED BY <1>1, LeavesKeeps DEF Pool!Timeout

LEMMA PoolReleaseKeeps ==
  ASSUME Pool!DeleteAssumption, AloneInv, Pool!Release, released' = 0
  PROVE  AloneInv'
<1>1. Pool!TypeOK /\ available + used = Total /\ used > 0 /\ released = 0 /\ step # "done"
  BY DEF Pool!Release, AloneInv, PoolTyped
<1>2. CASE list = None
  <2>1. /\ available' = available + 1 /\ used' = used - 1
        /\ UNCHANGED <<valid, Pool!listVars, Pool!threadVars, Pool!deleteVars>>
    BY <1>2 DEF Pool!Release, Pool!deleteVars
  <2>2. PoolLinked <=> PoolLinked'
    BY <2>1 DEF PoolLinked, Suspended, Pool!listVars, Pool!threadVars
  <2>3. DeleteGoesOn <=> DeleteGoesOn'
    BY <2>1 DEF DeleteGoesOn, Suspended, Pool!listVars, Pool!threadVars, Pool!deleteVars
  <2>4. Total \in Nat BY DEF Pool!DeleteAssumption
  <2>5. available' \in 0..Total /\ used' \in 0..Total /\ available' + used' = Total
    BY <1>1, <2>1, <2>4 DEF Pool!TypeOK
  <2>6. Pool!TypeOK'
    BY <1>1, <2>1, <2>5, PoolCardinality
       DEF Pool!TypeOK, Pool!listVars, Pool!threadVars, Pool!deleteVars
  <2> QED BY <2>1, <2>2, <2>3, <2>5, <2>6 DEF AloneInv, PoolTyped, Pool!deleteVars
<1>3. CASE list # None
  <2>0. step = "none" BY <1>1, <1>3 DEF Pool!Release
  <2>1. list \in Suspended BY <1>3, <2>0 DEF PoolLinked, AloneInv
  <2>2. PICK t \in Suspended : t = list BY <2>1
  <2>3. /\ Pool!Unlink(t) /\ count' = Pool!Down(count) /\ cleanup' = [cleanup EXCEPT ![t] = FALSE]
        /\ tstate' = [tstate EXCEPT ![t] = "running"]
        /\ status' = [status EXCEPT ![t] = "SUCCESS"]
        /\ UNCHANGED <<Pool!poolVars, Pool!deleteVars>>
    BY <1>1, <1>3, <2>0, <2>2 DEF Pool!Release, Pool!poolVars, Pool!deleteVars
  <2> QED BY <2>0, <2>3, LeavesKeeps
<1> QED BY <1>2, <1>3

(* The walk: it begins, is at a waiter, moves on, resumes the one behind,   *)
(* and counts.                                                              *)
LEMMA WalkKeeps ==
  ASSUME Pool!DeleteAssumption, AloneInv, Pool!Delete
  PROVE  AloneInv'
<1> DEFINE W == Suspended
<1>1. /\ Pool!DeleteAssumption /\ Pool!TypeOK /\ W \subseteq Threads /\ available + used = Total
      /\ Cardinality(W) \in 0..Cardinality(Threads) /\ Cardinality(Threads) \in Nat
      /\ (Cardinality(W) = 0 <=> W = {}) /\ None \notin Threads
  <2>1. Pool!DeleteAssumption /\ Pool!TypeOK /\ W \subseteq Threads /\ available + used = Total
    BY DEF AloneInv, PoolTyped, Suspended
  <2> QED BY <2>1, PoolFinite, PoolCardinality DEF Pool!DeleteAssumption
<1>2. CASE Pool!DeleteStart
  <2>1. /\ step = "none" /\ valid' = FALSE /\ walk' = list /\ step' = "loop"
        /\ available' = available /\ used' = used /\ list' = list /\ count' = count
        /\ nxt' = nxt /\ prv' = prv /\ cleanup' = cleanup /\ tstate' = tstate /\ status' = status
        /\ released' = released
    BY <1>2 DEF Pool!DeleteStart, Pool!listVars, Pool!threadVars
  <2>2. PoolLinked BY <2>1 DEF AloneInv, PoolTyped
  <2>3. Pool!TypeOK' BY <1>1, <2>1 DEF Pool!TypeOK
  <2>4. Suspended' = W BY <2>1 DEF Suspended
  <2>5. Reaches(W, list, nxt) BY <2>2, CyclicReaches DEF PoolLinked
  <2>6. \A t \in W : prv[nxt[t]] = t BY <2>2 DEF PoolLinked, Cyclic
  <2>7. DeleteGoesOn' BY <2>1, <2>2, <2>4, <2>5, <2>6 DEF DeleteGoesOn, PoolLinked
  <2> QED BY <1>1, <2>1, <2>3, <2>7 DEF AloneInv, PoolTyped
<1>3. CASE Pool!DeleteLoop
  <2>1. /\ step = "loop" /\ valid' = valid /\ available' = available /\ used' = used
        /\ list' = list /\ count' = count /\ nxt' = nxt /\ prv' = prv /\ tstate' = tstate
        /\ status' = status /\ walk' = walk /\ released' = released
    BY <1>3 DEF Pool!DeleteLoop, Pool!listVars, Pool!poolVars
  <2>2. DeleteGoesOn /\ ~ valid BY <2>1 DEF AloneInv, PoolTyped
  <2>3. Suspended' = W BY <2>1 DEF Suspended
  <2>4. Reaches(W, walk, nxt) /\ count = Cardinality(W) BY <2>1, <2>2 DEF DeleteGoesOn
  <2>5. CASE count = 0
    <3>1. step' = "done" /\ cleanup' = cleanup BY <1>3, <2>5 DEF Pool!DeleteLoop
    <3>2. W = {} BY <1>1, <2>4, <2>5
    <3>3. DeleteGoesOn' BY <2>1, <2>2, <2>3, <3>1, <3>2 DEF DeleteGoesOn
    <3>4. Pool!TypeOK' BY <1>1, <2>1, <3>1 DEF Pool!TypeOK
    <3> QED BY <1>1, <2>1, <2>2, <3>1, <3>3, <3>4 DEF AloneInv, PoolTyped
  <2>6. CASE count # 0
    <3>1. W # {} BY <1>1, <2>4, <2>6
    <3>2. walk \in W BY <2>4, <3>1, ReachesOn
    <3>3. walk # None BY <1>1, <3>2
    <3>4. step' = "cleared" /\ cleanup' = [cleanup EXCEPT ![walk] = FALSE]
      BY <1>3, <2>6, <3>3 DEF Pool!DeleteLoop
    <3>5. DeleteGoesOn' BY <2>1, <2>2, <2>3, <2>4, <3>2, <3>4 DEF DeleteGoesOn
    <3>6. cleanup' \in [Threads -> BOOLEAN] BY <1>1, <3>4 DEF Pool!TypeOK
    <3>7. Pool!TypeOK' BY <1>1, <2>1, <3>4, <3>6 DEF Pool!TypeOK
    <3> QED BY <1>1, <2>1, <2>2, <3>4, <3>5, <3>7 DEF AloneInv, PoolTyped
  <2> QED BY <2>5, <2>6
<1>4. CASE Pool!DeleteMove
  <2>1. /\ step = "cleared" /\ status' = [status EXCEPT ![walk] = "POOL_DELETED"]
        /\ walk' = nxt[walk] /\ step' = "moved" /\ valid' = valid
        /\ available' = available /\ used' = used /\ list' = list /\ count' = count
        /\ nxt' = nxt /\ prv' = prv /\ tstate' = tstate /\ cleanup' = cleanup
        /\ released' = released
    BY <1>4 DEF Pool!DeleteMove, Pool!listVars, Pool!poolVars
  <2>2. DeleteGoesOn /\ ~ valid BY <2>1 DEF AloneInv, PoolTyped
  <2>3. Suspended' = W BY <2>1 DEF Suspended
  <2>4. walk \in W /\ walk \in Threads /\ Reaches(W, walk, nxt) /\ count = Cardinality(W)
    BY <1>1, <2>1, <2>2 DEF DeleteGoesOn
  <2>5. prv[nxt[walk]] = walk BY <2>2, <2>4 DEF DeleteGoesOn
  <2>6. /\ status' \in [Threads -> {"SUCCESS", "NO_PACKET", "POOL_DELETED"}]
        /\ status'[walk] = "POOL_DELETED" /\ walk' \in Threads
    BY <1>1, <2>1, <2>4, PoolCardinality DEF Pool!TypeOK
  <2>7. DeleteGoesOn' BY <2>1, <2>2, <2>3, <2>4, <2>5, <2>6 DEF DeleteGoesOn
  <2>8. Pool!TypeOK' BY <1>1, <2>1, <2>6, PoolCardinality DEF Pool!TypeOK
  <2> QED BY <1>1, <2>1, <2>2, <2>7, <2>8 DEF AloneInv, PoolTyped
<1>5. CASE Pool!DeleteResume
  <2>1. /\ step = "moved" /\ tstate' = [tstate EXCEPT ![prv[walk]] = "running"]
        /\ step' = "resumed" /\ valid' = valid /\ walk' = walk /\ status' = status
        /\ available' = available /\ used' = used /\ list' = list /\ count' = count
        /\ nxt' = nxt /\ prv' = prv /\ cleanup' = cleanup /\ released' = released
    BY <1>5 DEF Pool!DeleteResume, Pool!listVars, Pool!poolVars
  <2>2. DeleteGoesOn /\ ~ valid BY <2>1 DEF AloneInv, PoolTyped
  <2>3. PICK t : t = prv[walk] OBVIOUS
  <2>4. t \in W /\ t \in Threads /\ nxt[t] = walk /\ Reaches(W, t, nxt) /\ count = Cardinality(W)
    BY <1>1, <2>1, <2>2, <2>3 DEF DeleteGoesOn
  <2>5. Suspended' = W \ {t} BY <1>1, <2>1, <2>3 DEF Suspended, Pool!TypeOK
  <2>6. Reaches(W \ {t}, walk, nxt) BY <2>4, ReachesOn
  <2>7. count = Cardinality(W \ {t}) + 1
    <3>1. Cardinality(W \ {t}) = Cardinality(W) - 1 BY <1>1, <2>4, PoolFinite
    <3> QED BY <1>1, <2>4, <3>1
  <2>8. \A u \in W \ {t} : prv[nxt[u]] = u BY <2>2 DEF DeleteGoesOn
  <2>9. DeleteGoesOn' BY <2>1, <2>5, <2>6, <2>7, <2>8 DEF DeleteGoesOn
  <2>10. tstate' \in [Threads -> {"running", "suspended"}] BY <1>1, <2>1 DEF Pool!TypeOK
  <2>11. Pool!TypeOK' BY <1>1, <2>1, <2>10, PoolCardinality DEF Pool!TypeOK
  <2> QED BY <1>1, <2>1, <2>2, <2>9, <2>11 DEF AloneInv, PoolTyped
<1>6. CASE Pool!DeleteCount
  <2>1. /\ step = "resumed" /\ count' = Pool!Down(count) /\ step' = "loop" /\ valid' = valid
        /\ walk' = walk /\ status' = status /\ available' = available /\ used' = used
        /\ list' = list /\ nxt' = nxt /\ prv' = prv /\ cleanup' = cleanup /\ tstate' = tstate
        /\ released' = released
    BY <1>6 DEF Pool!DeleteCount, Pool!threadVars, Pool!poolVars
  <2>2. DeleteGoesOn /\ ~ valid BY <2>1 DEF AloneInv, PoolTyped
  <2>3. Suspended' = W BY <2>1 DEF Suspended
  <2>4. Reaches(W, walk, nxt) /\ count = Cardinality(W) + 1 BY <2>1, <2>2 DEF DeleteGoesOn
  <2>5. count' = Cardinality(W) /\ count' \in 0..Cardinality(Threads)
    <3>1. count \in 0..ULongMax /\ count # 0 BY <1>1, <2>4 DEF Pool!TypeOK
    <3>2. Pool!Down(count) = count - 1 BY <1>1, <3>1, DownIs
    <3> QED BY <1>1, <2>1, <2>4, <3>2
  <2>6. DeleteGoesOn' BY <2>1, <2>2, <2>3, <2>4, <2>5 DEF DeleteGoesOn
  <2>8. count' \in 0..ULongMax BY <2>5, PoolFits
  <2>7. Pool!TypeOK' BY <1>1, <2>1, <2>8, PoolCardinality DEF Pool!TypeOK
  <2> QED BY <1>1, <2>1, <2>2, <2>6, <2>7 DEF AloneInv, PoolTyped
<1> QED BY <1>2, <1>3, <1>4, <1>5, <1>6 DEF Pool!Delete

LEMMA AloneStepKeeps ==
  ASSUME Pool!DeleteAssumption, AloneInv, [Pool!Next]_(Pool!vars), released' = 0
  PROVE  AloneInv'
<1>1. ASSUME NEW t \in Threads, Pool!Allocate(t) PROVE AloneInv'
  <2>1. /\ available > 0 /\ available' = available - 1 /\ used' = used + 1
        /\ UNCHANGED <<valid, Pool!listVars, Pool!threadVars, Pool!deleteVars>> /\ valid
    BY <1>1 DEF Pool!Allocate
  <2>2. step = "none" /\ PoolLinked /\ Pool!TypeOK /\ available + used = Total
    BY <2>1 DEF AloneInv, PoolTyped
  <2>3. PoolLinked' BY <2>1, <2>2 DEF PoolLinked, Suspended, Pool!listVars, Pool!threadVars
  <2>4. Total \in Nat BY DEF Pool!DeleteAssumption
  <2>5. available' \in 0..Total /\ used' \in 0..Total /\ available' + used' = Total
    BY <2>1, <2>2, <2>4 DEF Pool!TypeOK
  <2>6. Pool!TypeOK'
    BY <2>1, <2>2, <2>5, PoolCardinality
       DEF Pool!TypeOK, Pool!listVars, Pool!threadVars, Pool!deleteVars
  <2> QED BY <2>1, <2>2, <2>3, <2>5, <2>6 DEF AloneInv, PoolTyped, Pool!deleteVars
<1>2. ASSUME NEW t \in Threads, Pool!AllocateWait(t) PROVE AloneInv'
  BY <1>2, AllocateWaitKeeps
<1>3. ASSUME NEW t \in Threads, Pool!Timeout(t) PROVE AloneInv'
  BY <1>3, PoolTimeoutKeeps
<1>4. CASE Pool!Release BY <1>4, PoolReleaseKeeps
<1>5. CASE Pool!Delete BY <1>5, WalkKeeps
<1>6. CASE UNCHANGED Pool!vars
  BY <1>6, PoolCardinality
  DEF AloneInv, PoolTyped, PoolLinked, DeleteGoesOn, Suspended, Pool!TypeOK, Pool!vars,
      Pool!poolVars, Pool!listVars, Pool!threadVars, Pool!deleteVars
<1> QED BY <1>1, <1>2, <1>3, <1>4, <1>5, <1>6 DEF Pool!Next

(* When the walk begins it has a turn for each who waits.                   *)
LEMMA TurnsBegin ==
  ASSUME Pool!DeleteAssumption, AloneInv, Pool!DeleteStart
  PROVE  \E R, V \in SUBSET Threads, m \in [Threads -> Threads], l \in Threads \cup {None} :
           TurnsLeft(R, V, m, l)'
<1> DEFINE W == Suspended
           l == IF W = {} THEN None ELSE prv[list]
<1>1. /\ step = "none" /\ walk' = list /\ step' = "loop" /\ list' = list /\ count' = count
      /\ nxt' = nxt /\ prv' = prv /\ tstate' = tstate /\ released' = 0
  BY DEF Pool!DeleteStart, Pool!listVars, Pool!threadVars, AloneInv
<1>2. /\ PoolLinked /\ W \in SUBSET Threads /\ Suspended' = W
      /\ nxt \in [Threads -> Threads] /\ prv \in [Threads -> Threads] /\ None \notin Threads
      /\ Cardinality(W) \in Nat /\ (W = {} => Cardinality(W) = 0)
  <2>1. /\ PoolLinked /\ W \in SUBSET Threads /\ Suspended' = W
        /\ nxt \in [Threads -> Threads] /\ prv \in [Threads -> Threads] /\ None \notin Threads
    BY <1>1 DEF AloneInv, PoolTyped, Pool!TypeOK, Suspended, Pool!DeleteAssumption
  <2> QED BY <2>1, PoolFinite
<1> HIDE DEF W
<1>3. /\ Cyclic(W, nxt, prv) /\ count = Cardinality(W) /\ IF W = {} THEN list = None ELSE list \in W
  BY <1>2 DEF PoolLinked, W
<1>4. Reaches(W, list, nxt) BY <1>3, CyclicReaches
<1>5. l \in Threads \cup {None} /\ (nxt[l] \in W => nxt[l] = list)
  <2>1. CASE W = {} BY <2>1
  <2>2. CASE W # {}
    <3>1. list \in W /\ nxt[prv[list]] = list BY <1>3, <2>2 DEF Cyclic
    <3> QED BY <1>2, <2>2, <3>1
  <2> QED BY <2>1, <2>2
<1>6. W # {} => list # None BY <1>2, <1>3
<1>7. IF W = {} THEN list = None ELSE list \in W /\ prv[list] = l BY <1>3
<1> HIDE DEF l
<1>8. PICK V \in SUBSET Threads, m \in [Threads -> Threads], e \in Threads \cup {None} :
        V = W /\ m = nxt /\ e = l
  BY <1>2, <1>5
<1>9. TurnsLeft(V, V, m, e)'
  <2>1. /\ Cyclic(V, nxt', prv') /\ Suspended' \subseteq V
        /\ IF V = {} THEN list' = None ELSE list' \in V /\ prv'[list'] = e
    BY <1>1, <1>2, <1>3, <1>7, <1>8
  <2>2. /\ Reaches(V, walk', m) /\ (\A x \in V : x # e => nxt'[x] = m[x])
        /\ (m[e] \in V => m[e] = walk')
    BY <1>1, <1>4, <1>5, <1>8
  <2>3. /\ \A t \in Suspended' : t \in V \/ (step' = "moved" /\ t = prv'[walk'])
        /\ count' + released' >= Cardinality(V) + (IF step' \in {"moved", "resumed"} THEN 1 ELSE 0)
        /\ ~ step' = "cleared" /\ ~ step' = "done"
    BY <1>1, <1>2, <1>3, <1>8
  <2>4. walk' = None => step' \in {"loop", "done"} /\ list' = None /\ count' = 0
    BY <1>1, <1>2, <1>3, <1>6
  <2> QED BY <2>1, <2>2, <2>3, <2>4 DEF TurnsLeft
<1> QED BY <1>9

(* A packet released meanwhile takes a turn and is counted for it.          *)
LEMMA TurnsReleased ==
  ASSUME Pool!DeleteAssumption, Pool!TypeOK, step # "none", Pool!Release,
         NEW R \in SUBSET Threads, NEW V \in SUBSET Threads, NEW m \in [Threads -> Threads],
         NEW l \in Threads \cup {None}, TurnsLeft(R, V, m, l)
  PROVE  \E Q \in SUBSET Threads : TurnsLeft(Q, V, m, l)'
<1>1. /\ nxt \in [Threads -> Threads] /\ prv \in [Threads -> Threads] /\ None \notin Threads
      /\ tstate \in [Threads -> {"running", "suspended"}] /\ count \in 0..ULongMax
      /\ released \in Nat /\ walk \in Threads \cup {None} /\ step # "done"
  BY DEF Pool!TypeOK, Pool!DeleteAssumption, Pool!Release
<1>2. CASE list = None
  <2>1. UNCHANGED <<Pool!listVars, Pool!threadVars, Pool!deleteVars>>
    BY <1>2 DEF Pool!Release, Pool!deleteVars
  <2>2. TurnsLeft(R, V, m, l)'
    BY <2>1 DEF TurnsLeft, Suspended, Pool!listVars, Pool!threadVars, Pool!deleteVars
  <2> QED BY <2>2
<1>3. CASE list # None
  <2> DEFINE h == list
  <2>1. /\ Pool!Unlink(h) /\ released' = released + 1 /\ walk' = walk /\ step' = step
        /\ count' = Pool!Down(count) \/ count' = count
        /\ tstate' = [tstate EXCEPT ![h] = "running"]
    BY <1>3 DEF Pool!Release
  <2>2. h \in R /\ h \in Threads /\ prv[h] = l /\ Cyclic(R, nxt, prv) /\ Suspended \subseteq R
    BY <1>3 DEF TurnsLeft
  <2> HIDE DEF h
  <2>15. PICK Q \in SUBSET Threads : Q = R \ {h} OBVIOUS
  <2>3. Suspended' = Suspended \ {h} BY <1>1, <2>1, <2>2 DEF Suspended
  <2>4. /\ Cyclic(Q, nxt', prv')
        /\ IF Q = {} THEN list' = None ELSE list' \in Q /\ prv'[list'] = l
        /\ \A x \in Threads : x # l => nxt'[x] = nxt[x]
        /\ \A x \in Threads : prv[x] # h => prv'[x] = prv[x]
    <3>1. CASE nxt[h] = h
      <4>1. list' = None /\ nxt' = nxt /\ prv' = prv BY <2>1, <3>1 DEF Pool!Unlink
      <4>2. R = {h} BY <2>2, <3>1, AloneCyclic
      <4> QED BY <2>15, <4>1, <4>2, EmptyCyclic
    <3>2. CASE nxt[h] # h
      <4>1. /\ list' = nxt[h]
            /\ nxt' = [nxt EXCEPT ![prv[h]] = nxt[h]] /\ prv' = [prv EXCEPT ![nxt[h]] = prv[h]]
        BY <2>1, <3>2 DEF Pool!Unlink, h
      <4>2. nxt[h] \in R /\ prv[h] \in R /\ prv[nxt[h]] = h BY <2>2 DEF Cyclic
      <4>3. Unlinked(R, h, nxt, prv, nxt', prv')
        BY <1>1, <2>2, <4>1, <4>2 DEF Unlinked
      <4>4. Cyclic(R \ {h}, nxt', prv') /\ nxt[h] \in R \ {h}
        BY <2>2, <3>2, <4>3, RemoveCyclic
      <4>5. prv'[nxt[h]] = l BY <1>1, <2>2, <4>1, <4>2
      <4>6. \A x \in Threads : x # l => nxt'[x] = nxt[x] BY <1>1, <2>2, <4>1
      <4>7. \A x \in Threads : prv[x] # h => prv'[x] = prv[x] BY <1>1, <4>1, <4>2
      <4> QED BY <2>15, <4>1, <4>4, <4>5, <4>6, <4>7
    <3> QED BY <3>1, <3>2
  <2>5. \A t \in Suspended' : t \in V \/ (step' = "moved" /\ t = prv'[walk'])
    <3> SUFFICES ASSUME NEW t \in Suspended', t \notin V PROVE step' = "moved" /\ t = prv'[walk']
      OBVIOUS
    <3>1. t \in Suspended /\ t # h BY <2>3
    <3>2. step = "moved" /\ t = prv[walk] BY <3>1 DEF TurnsLeft
    <3>3. walk \in Threads BY <1>1, <3>2 DEF TurnsLeft
    <3> QED BY <2>1, <2>4, <3>1, <3>2, <3>3
  <2>6. count' + released' >= count + released \/ count' + released' >= Cardinality(Threads) + 1
    <3>1. count' = count \/ (count # 0 /\ count' = count - 1) \/ (count = 0 /\ count' = ULongMax)
      BY <1>1, <2>1, DownIs
    <3>2. Cardinality(Threads) \in Nat BY PoolFinite
    <3> QED BY <1>1, <2>1, <3>1, <3>2, PoolFits
  <2>7. Cardinality(V) \in Nat /\ Cardinality(Threads) \in Nat /\ Cardinality(V) <= Cardinality(Threads)
    BY PoolFinite
  <2>8. count' + released' >= Cardinality(V) + (IF step' \in {"moved", "resumed"} THEN 1 ELSE 0)
    <3>1. count + released >= Cardinality(V) + (IF step \in {"moved", "resumed"} THEN 1 ELSE 0)
      BY DEF TurnsLeft
    <3>2. count' \in Nat /\ released' \in Nat
      BY <1>1, <2>1, DownIs, PoolFits
    <3>3. step' = step /\ count \in Nat /\ released \in Nat BY <1>1, <2>1
    <3>4. PICK d \in {0, 1} : d = IF step' \in {"moved", "resumed"} THEN 1 ELSE 0 OBVIOUS
    <3>5. count + released >= Cardinality(V) + d BY <3>1, <3>3, <3>4
    <3>6. Cardinality(Threads) + 1 >= Cardinality(V) + d BY <2>7, <3>4
    <3>7. PICK a \in Nat : a = count + released BY <3>3
    <3>13. \A x, y \in Nat : x + y \in Nat OBVIOUS
    <3>9. PICK b \in Nat : b = count' + released'
      <4>1. count' + released' \in Nat BY <3>2, <3>13
      <4> QED BY <4>1
    <3>10. PICK c \in Nat : c = Cardinality(V) + d BY <2>7, <3>4
    <3>11. PICK e \in Nat : e = Cardinality(Threads) + 1 BY <2>7
    <3>12. a >= c /\ e >= c /\ (b >= a \/ b >= e)
      BY <2>6, <3>5, <3>6, <3>7, <3>9, <3>10, <3>11
    <3>8. b >= c BY <3>12
    <3> QED BY <3>4, <3>8, <3>9, <3>10
  <2>9. step' = "cleared" => count' + released' > 0
    <3>1. count' \in Nat BY <1>1, <2>1, DownIs, PoolFits
    <3>2. released' \in Nat /\ released' > 0 BY <1>1, <2>1
    <3>3. \A x, y \in Nat : y > 0 => x + y > 0 OBVIOUS
    <3> QED BY <3>1, <3>2, <3>3
  <2>10. Suspended' \subseteq Q BY <2>2, <2>3, <2>15
  <2>11. \A x \in V : x # l => nxt'[x] = m[x] BY <2>4 DEF TurnsLeft
  <2>12. walk # None /\ Reaches(V, walk, m) /\ (m[l] \in V => m[l] = walk)
    BY <1>3 DEF TurnsLeft
  <2>13. walk' # None /\ ~ step' = "done" /\ Reaches(V, walk', m) /\ (m[l] \in V => m[l] = walk')
    BY <1>1, <2>1, <2>12
  <2>14. TurnsLeft(Q, V, m, l)'
    BY <2>4, <2>5, <2>8, <2>9, <2>10, <2>11, <2>13 DEF TurnsLeft
  <2> QED BY <2>14
<1> QED BY <1>2, <1>3

(* Each step of the walk leaves it turns enough.                            *)
LEMMA TurnsTaken ==
  ASSUME Pool!DeleteAssumption, Pool!TypeOK, step # "none", Pool!Delete,
         NEW R \in SUBSET Threads, NEW V \in SUBSET Threads, NEW m \in [Threads -> Threads],
         NEW l \in Threads \cup {None}, TurnsLeft(R, V, m, l)
  PROVE  \E X \in SUBSET Threads : TurnsLeft(R, X, m, l)'
<1>1. /\ nxt \in [Threads -> Threads] /\ prv \in [Threads -> Threads] /\ None \notin Threads
      /\ tstate \in [Threads -> {"running", "suspended"}] /\ count \in 0..ULongMax
      /\ released \in Nat /\ walk \in Threads \cup {None} /\ ULongMax \in Nat
      /\ Cardinality(V) \in Nat /\ Cardinality(Threads) \in Nat
      /\ Cardinality(V) <= Cardinality(Threads) /\ Cardinality(Threads) <= ULongMax
  BY PoolFinite, PoolFits DEF Pool!TypeOK, Pool!DeleteAssumption
<1>2. CASE Pool!DeleteLoop
  <2>1. /\ step = "loop" /\ list' = list /\ count' = count /\ nxt' = nxt /\ prv' = prv
        /\ tstate' = tstate /\ walk' = walk /\ released' = released /\ Suspended' = Suspended
    BY <1>2 DEF Pool!DeleteLoop, Pool!listVars, Suspended
  <2>2. \/ step' = "done" /\ count = 0
        \/ step' = "cleared" /\ count # 0 /\ walk # None
    BY <1>2 DEF Pool!DeleteLoop, TurnsLeft
  <2>3. TurnsLeft(R, V, m, l)'
    BY <1>1, <2>1, <2>2 DEF TurnsLeft
  <2> QED BY <2>3
<1>3. CASE Pool!DeleteMove
  <2>10. PICK X \in SUBSET Threads : X = V \ {walk} OBVIOUS
  <2>1. /\ step = "cleared" /\ walk' = nxt[walk] /\ step' = "moved" /\ list' = list /\ count' = count
        /\ nxt' = nxt /\ prv' = prv /\ tstate' = tstate /\ released' = released
        /\ Suspended' = Suspended
    BY <1>3 DEF Pool!DeleteMove, Pool!listVars, Suspended
  <2>2. walk \in Threads /\ walk' \in Threads
    BY <1>1, <2>1 DEF TurnsLeft
  <2>3. /\ Cyclic(R, nxt, prv) /\ Suspended \subseteq R /\ Suspended \subseteq V
        /\ Reaches(V, walk, m) /\ (\A x \in V : x # l => nxt[x] = m[x])
        /\ (m[l] \in V => m[l] = walk)
    BY <2>1 DEF TurnsLeft
  <2>4. Reaches(X, walk', m) /\ (m[l] \in X => m[l] = walk')
    <3>1. CASE V = {} BY <2>10, <3>1 DEF Reaches
    <3>2. CASE V # {}
      <4>1. walk \in V /\ Reaches(X, m[walk], m) BY <2>3, <2>10, <3>2, ReachesOn
      <4>2. m[l] \notin X BY <2>3, <2>10
      <4>3. CASE walk = l
        <5>1. X = {} BY <4>1, <4>2, <4>3 DEF Reaches
        <5> QED BY <5>1 DEF Reaches
      <4>4. CASE walk # l BY <2>1, <2>3, <4>1, <4>2, <4>4
      <4> QED BY <4>3, <4>4
    <3> QED BY <3>1, <3>2
  <2>5. \A t \in Suspended : t \in X \/ t = prv[walk']
    BY <2>1, <2>3, <2>10 DEF Cyclic
  <2>6. count + released >= Cardinality(X) + 1
    <3>1. CASE walk \in V
      <4>1. Cardinality(X) = Cardinality(V) - 1 BY <2>10, <3>1, PoolFinite
      <4>2. count + released >= Cardinality(V) BY <1>1, <2>1 DEF TurnsLeft
      <4> QED BY <1>1, <4>1, <4>2
    <3>2. CASE walk \notin V
      <4>1. V = {} BY <2>3, <3>2 DEF Reaches
      <4>2. Cardinality(X) = 0 BY <2>10, <4>1, FS_EmptySet
      <4>3. count + released > 0 BY <2>1 DEF TurnsLeft
      <4> QED BY <1>1, <4>2, <4>3
    <3> QED BY <3>1, <3>2
  <2>7. walk' # None /\ \A x \in X : x # l => nxt[x] = m[x] BY <1>1, <2>2, <2>3, <2>10
  <2>8. IF R = {} THEN list = None ELSE list \in R /\ prv[list] = l BY DEF TurnsLeft
  <2>9. TurnsLeft(R, X, m, l)'
    BY <2>1, <2>3, <2>4, <2>5, <2>6, <2>7, <2>8 DEF TurnsLeft
  <2> QED BY <2>9
<1>4. CASE Pool!DeleteResume
  <2>1. /\ step = "moved" /\ tstate' = [tstate EXCEPT ![prv[walk]] = "running"] /\ step' = "resumed"
        /\ list' = list /\ count' = count /\ nxt' = nxt /\ prv' = prv /\ walk' = walk
        /\ released' = released
    BY <1>4 DEF Pool!DeleteResume, Pool!listVars
  <2>2. walk \in Threads BY <1>1, <2>1 DEF TurnsLeft
  <2>3. Suspended' = Suspended \ {prv[walk]} BY <1>1, <2>1, <2>2 DEF Suspended
  <2>4. Suspended' \subseteq V /\ Suspended' \subseteq R BY <2>1, <2>3 DEF TurnsLeft
  <2>5. TurnsLeft(R, V, m, l)'
    BY <1>1, <2>1, <2>2, <2>4 DEF TurnsLeft
  <2> QED BY <2>5
<1>5. CASE Pool!DeleteCount
  <2>1. /\ step = "resumed" /\ count' = Pool!Down(count) /\ step' = "loop" /\ walk' = walk
        /\ list' = list /\ nxt' = nxt /\ prv' = prv /\ tstate' = tstate /\ released' = released
        /\ Suspended' = Suspended
    BY <1>5 DEF Pool!DeleteCount, Pool!threadVars, Suspended
  <2>2. count' + released' >= Cardinality(V)
    <3>1. count + released >= Cardinality(V) + 1 BY <2>1 DEF TurnsLeft
    <3>2. (count # 0 /\ count' = count - 1) \/ (count = 0 /\ count' = ULongMax)
      BY <1>1, <2>1, DownIs
    <3> QED BY <1>1, <2>1, <3>1, <3>2
  <2>3. walk # None /\ Suspended \subseteq V BY <2>1 DEF TurnsLeft
  <2>4. TurnsLeft(R, V, m, l)'
    BY <1>1, <2>1, <2>2, <2>3 DEF TurnsLeft
  <2> QED BY <2>4
<1> QED BY <1>2, <1>3, <1>4, <1>5 DEF Pool!Delete, Pool!DeleteStart

(* And the types are kept, a count that wraps included.                     *)
LEMMA MeanwhileTyped ==
  ASSUME Pool!DeleteAssumption, PoolTyped, step # "none", Pool!Release \/ Pool!Delete,
         walk = None => step \in {"loop", "done"} /\ list = None /\ count = 0
  PROVE  PoolTyped'
<1>1. /\ Pool!TypeOK /\ available + used = Total /\ ~ valid /\ Total \in Nat
      /\ None \notin Threads /\ Pool!Down(count) \in 0..ULongMax
  <2>1. Pool!TypeOK /\ available + used = Total /\ ~ valid /\ Total \in Nat /\ None \notin Threads
    BY DEF PoolTyped, Pool!DeleteAssumption
  <2>2. count \in 0..ULongMax BY <2>1 DEF Pool!TypeOK
  <2> QED BY <2>1, <2>2, DownIs, PoolFits
<1>2. CASE Pool!Release /\ list = None
  <2>1. /\ used > 0 /\ available' = available + 1 /\ used' = used - 1
        /\ UNCHANGED <<valid, Pool!listVars, Pool!threadVars, Pool!deleteVars>>
    BY <1>2 DEF Pool!Release, Pool!deleteVars
  <2>2. available' \in 0..Total /\ used' \in 0..Total /\ available' + used' = Total
    BY <1>1, <2>1 DEF Pool!TypeOK
  <2> QED
    BY <1>1, <2>1, <2>2
    DEF PoolTyped, Pool!TypeOK, Pool!listVars, Pool!threadVars, Pool!deleteVars
<1>3. CASE Pool!Release /\ list # None
  <2>1. /\ Pool!Unlink(list) /\ (count' = Pool!Down(count) \/ count' = count)
        /\ released' = released + 1 /\ cleanup' = [cleanup EXCEPT ![list] = FALSE]
        /\ tstate' = [tstate EXCEPT ![list] = "running"]
        /\ status' = [status EXCEPT ![list] = "SUCCESS"]
        /\ UNCHANGED <<valid, available, used, step, walk>>
    BY <1>3 DEF Pool!Release
  <2>2. list \in Threads BY <1>1, <1>3 DEF Pool!TypeOK
  <2>3. /\ list' \in Threads \cup {None}
        /\ nxt' \in [Threads -> Threads] /\ prv' \in [Threads -> Threads]
    BY <1>1, <2>1, <2>2 DEF Pool!TypeOK, Pool!Unlink
  <2>4. /\ cleanup' \in [Threads -> BOOLEAN] /\ tstate' \in [Threads -> {"running", "suspended"}]
        /\ status' \in [Threads -> {"SUCCESS", "NO_PACKET", "POOL_DELETED"}]
        /\ count' \in 0..ULongMax /\ released' \in Nat
    BY <1>1, <2>1, <2>2 DEF Pool!TypeOK
  <2> QED BY <1>1, <2>1, <2>3, <2>4 DEF PoolTyped, Pool!TypeOK
<1>4. CASE Pool!DeleteLoop
  <2>1. /\ UNCHANGED <<Pool!poolVars, Pool!listVars, tstate, status, walk, released>>
        /\ step' \in {"done", "cleared"}
        /\ cleanup' = cleanup \/ cleanup' = [cleanup EXCEPT ![walk] = FALSE]
    BY <1>4 DEF Pool!DeleteLoop
  <2>2. cleanup' \in [Threads -> BOOLEAN] BY <1>1, <2>1 DEF Pool!TypeOK
  <2> QED BY <1>1, <2>1, <2>2 DEF PoolTyped, Pool!TypeOK, Pool!poolVars, Pool!listVars
<1>5. CASE Pool!DeleteMove
  <2>1. /\ step = "cleared" /\ status' = [status EXCEPT ![walk] = "POOL_DELETED"]
        /\ walk' = nxt[walk] /\ step' = "moved"
        /\ UNCHANGED <<Pool!poolVars, Pool!listVars, cleanup, tstate, released>>
    BY <1>5 DEF Pool!DeleteMove
  <2>2. walk \in Threads BY <1>1, <2>1 DEF Pool!TypeOK
  <2>3. walk' \in Threads /\ status' \in [Threads -> {"SUCCESS", "NO_PACKET", "POOL_DELETED"}]
    BY <1>1, <2>1, <2>2 DEF Pool!TypeOK
  <2> QED BY <1>1, <2>1, <2>3 DEF PoolTyped, Pool!TypeOK, Pool!poolVars, Pool!listVars
<1>6. CASE Pool!DeleteResume
  <2>1. /\ tstate' = [tstate EXCEPT ![prv[walk]] = "running"] /\ step' = "resumed"
        /\ UNCHANGED <<Pool!poolVars, Pool!listVars, cleanup, status, walk, released>>
    BY <1>6 DEF Pool!DeleteResume
  <2>2. tstate' \in [Threads -> {"running", "suspended"}] BY <1>1, <2>1 DEF Pool!TypeOK
  <2> QED BY <1>1, <2>1, <2>2 DEF PoolTyped, Pool!TypeOK, Pool!poolVars, Pool!listVars
<1>7. CASE Pool!DeleteCount
  <2>1. /\ count' = Pool!Down(count) /\ step' = "loop"
        /\ UNCHANGED <<Pool!poolVars, list, nxt, prv, Pool!threadVars, walk, released>>
    BY <1>7 DEF Pool!DeleteCount
  <2> QED BY <1>1, <2>1 DEF PoolTyped, Pool!TypeOK, Pool!poolVars, Pool!threadVars
<1> QED BY <1>2, <1>3, <1>4, <1>5, <1>6, <1>7 DEF Pool!Delete, Pool!DeleteStart

LEMMA DeleteStepKeeps ==
  ASSUME Pool!DeleteAssumption, DeleteInv, [Pool!Next]_(Pool!vars)
  PROVE  DeleteInv'
<1>1. CASE step = "none"
  <2>1. AloneInv /\ released = 0 BY <1>1 DEF DeleteInv, PoolTyped
  <2>2. released' = 0
    BY <1>1, <2>1
    DEF Pool!Next, Pool!Allocate, Pool!AllocateWait, Pool!Timeout, Pool!Release, Pool!Delete,
        Pool!DeleteStart, Pool!DeleteLoop, Pool!DeleteMove, Pool!DeleteResume, Pool!DeleteCount,
        Pool!deleteVars, Pool!vars
  <2>3. AloneInv' BY <2>1, <2>2, AloneStepKeeps
  <2>4. CASE Pool!DeleteStart BY <2>1, <2>3, <2>4, TurnsBegin DEF DeleteInv, AloneInv
  <2>5. CASE ~ Pool!DeleteStart
    <3>1. step' = "none"
      BY <1>1, <2>5
      DEF Pool!Next, Pool!Allocate, Pool!AllocateWait, Pool!Timeout, Pool!Release, Pool!Delete,
          Pool!DeleteLoop, Pool!DeleteMove, Pool!DeleteResume, Pool!DeleteCount,
          Pool!deleteVars, Pool!vars
    <3> QED BY <2>3, <3>1 DEF DeleteInv, AloneInv
  <2> QED BY <2>4, <2>5
<1>2. CASE step # "none"
  <2>1. PICK R \in SUBSET Threads, V \in SUBSET Threads, m \in [Threads -> Threads],
             l \in Threads \cup {None} : TurnsLeft(R, V, m, l)
    BY <1>2 DEF DeleteInv
  <2>2. PoolTyped /\ Pool!TypeOK /\ ~ valid BY <1>2 DEF DeleteInv, PoolTyped
  <2>3. CASE UNCHANGED Pool!vars
    <3>1. TurnsLeft(R, V, m, l)'
      BY <2>1, <2>3
      DEF TurnsLeft, Suspended, Pool!vars, Pool!listVars, Pool!threadVars, Pool!deleteVars
    <3>2. PoolTyped'
      BY <2>2, <2>3
      DEF PoolTyped, Pool!TypeOK, Pool!vars, Pool!poolVars, Pool!listVars, Pool!threadVars,
          Pool!deleteVars
    <3>3. released' = 0 => AloneInv'
      BY <2>3, AloneStepKeeps DEF DeleteInv, Pool!vars, Pool!deleteVars
    <3> QED BY <3>1, <3>2, <3>3 DEF DeleteInv
  <2>4. CASE Pool!Next
    <3>1. Pool!Release \/ Pool!Delete
      BY <2>2, <2>4 DEF Pool!Next, Pool!Allocate, Pool!AllocateWait, Pool!Timeout
    <3>2. PoolTyped' BY <1>2, <2>1, <2>2, <3>1, MeanwhileTyped DEF TurnsLeft
    <3>3. released' = 0 => released = 0
      <4>1. released \in Nat BY <2>2 DEF Pool!TypeOK
      <4>2. released' = released \/ released' = released + 1
        BY <1>2, <3>1
        DEF Pool!Release, Pool!Delete, Pool!DeleteStart, Pool!DeleteLoop, Pool!DeleteMove,
            Pool!DeleteResume, Pool!DeleteCount
      <4> QED BY <4>1, <4>2
    <3>4. released' = 0 => AloneInv'
      BY <2>4, <3>3, AloneStepKeeps DEF DeleteInv
    <3>5. \E Q, X \in SUBSET Threads : TurnsLeft(Q, X, m, l)'
      <4>1. CASE Pool!Release BY <1>2, <2>1, <2>2, <4>1, TurnsReleased
      <4>2. CASE Pool!Delete BY <1>2, <2>1, <2>2, <4>2, TurnsTaken
      <4> QED BY <3>1, <4>1, <4>2
    <3> QED BY <3>2, <3>4, <3>5 DEF DeleteInv
  <2> QED BY <2>3, <2>4
<1> QED BY <1>1, <1>2

LEMMA DeleteInit == ASSUME Pool!DeleteAssumption, Pool!Init PROVE DeleteInv
<1>1. Suspended = {} BY DEF Pool!Init, Suspended
<1>2. Cardinality({}) = 0 /\ Cardinality(Threads) \in Nat
  BY FS_EmptySet, FS_CardinalityType, PoolCardinality DEF Pool!DeleteAssumption
<1>3. PoolLinked BY <1>1, <1>2, EmptyCyclic DEF Pool!Init, PoolLinked
<1>4. Pool!TypeOK BY DEF Pool!Init, Pool!TypeOK, Pool!DeleteAssumption
<1>5. PoolTyped BY <1>4 DEF Pool!Init, PoolTyped, Pool!DeleteAssumption
<1> QED BY <1>3, <1>5 DEF Pool!Init, DeleteInv, AloneInv

(* What the invariant says, and what it says of a step.                     *)
LEMMA DeleteSays ==
  ASSUME Pool!DeleteAssumption, DeleteInv
  PROVE  Pool!TypeOK /\ Pool!WalkCounts /\ Pool!DeleteWakesAll
<1>0. Pool!Suspended = Suspended BY DEF Pool!Suspended, Suspended
<1>1. Pool!TypeOK BY DEF DeleteInv, PoolTyped
<1>2. Pool!WalkCounts
  <2>1. ASSUME released = 0, step \in {"none", "loop"} PROVE count = Cardinality(Suspended)
    BY <2>1 DEF DeleteInv, AloneInv, PoolLinked, DeleteGoesOn
  <2>2. ASSUME released = 0, step = "loop", Suspended # {} PROVE walk \in Suspended
    <3>1. Reaches(Suspended, walk, nxt) BY <2>2 DEF DeleteInv, AloneInv, DeleteGoesOn
    <3> QED BY <2>2, <3>1, ReachesOn
  <2> QED BY <1>0, <2>1, <2>2, PoolCardinality DEF Pool!WalkCounts
<1>3. Pool!DeleteWakesAll
  <2> SUFFICES ASSUME step = "done" PROVE Cardinality(Suspended) <= released
    BY <1>0, PoolCardinality DEF Pool!DeleteWakesAll
  <2>1. PICK R \in SUBSET Threads, V \in SUBSET Threads, m \in [Threads -> Threads],
             l \in Threads \cup {None} : TurnsLeft(R, V, m, l)
    BY DEF DeleteInv
  <2>2. count = 0 /\ Suspended \subseteq V /\ count + released >= Cardinality(V)
    BY <2>1, PoolFinite DEF TurnsLeft
  <2>3. IsFiniteSet(V) BY FS_Subset, PoolCardinality DEF Pool!DeleteAssumption
  <2>4. Cardinality(Suspended) <= Cardinality(V) /\ Cardinality(V) \in Nat /\ Cardinality(Suspended) \in Nat
    BY <2>2, <2>3, FS_Subset, FS_CardinalityType
  <2>5. released \in Nat BY <1>1 DEF Pool!TypeOK
  <2> QED BY <2>2, <2>4, <2>5
<1> QED BY <1>1, <1>2, <1>3

LEMMA DeleteTells ==
  ASSUME Pool!DeleteAssumption, DeleteInv, [Pool!Next]_(Pool!vars), NEW t \in Threads
  PROVE  Pool!Told(t)
<1> SUFFICES ASSUME step = "moved", released' = 0, tstate[t] = "suspended", tstate'[t] = "running"
    PROVE status'[t] = "POOL_DELETED"
  BY DEF Pool!Told
<1>1. ~ valid /\ Pool!TypeOK /\ tstate' # tstate BY DEF DeleteInv, PoolTyped
<1>2. Pool!DeleteResume \/ (Pool!Release /\ released' = released + 1)
  BY <1>1 DEF Pool!Next, Pool!Allocate, Pool!AllocateWait, Pool!Timeout, Pool!Release,
    Pool!Delete, Pool!DeleteStart, Pool!DeleteLoop,
    Pool!DeleteMove, Pool!DeleteCount, Pool!vars, Pool!threadVars
<1>3. Pool!DeleteResume /\ released = 0
  BY <1>1, <1>2 DEF Pool!TypeOK, Pool!DeleteResume
<1>4. t = prv[walk] /\ status' = status
  BY <1>1, <1>3 DEF Pool!DeleteResume, Pool!TypeOK
<1> QED BY <1>3, <1>4 DEF DeleteInv, AloneInv, DeleteGoesOn

(* The invariant of a pool that is deleted while threads wait in it and     *)
(* interrupts release its packets holds in every reachable state            *)
(* (nx_packet_pool_delete.c).                                               *)
THEOREM PoolDeleteInvariant == Pool!DeleteAssumption => (Pool!Spec => []DeleteInv)
<1> SUFFICES ASSUME Pool!DeleteAssumption PROVE Pool!Spec => []DeleteInv
  OBVIOUS
<1>1. Pool!Init => DeleteInv BY DeleteInit
<1>2. DeleteInv /\ [Pool!Next]_(Pool!vars) => DeleteInv' BY DeleteStepKeeps
<1> QED BY <1>1, <1>2, PTL DEF Pool!Spec

(* When the walk is done no more threads are left suspended in the pool     *)
(* than packets were handed out meanwhile; and if none was, the walk's      *)
(* count is right all along and each who was is told of the deletion.       *)
THEOREM PoolDeleteWakesAll ==
  Pool!DeleteAssumption =>
    (Pool!Spec =>
       /\ [](Pool!DeleteWakesAll /\ Pool!WalkCounts)
       /\ [][\A t \in Threads : Pool!Told(t)]_(Pool!vars))
<1> SUFFICES ASSUME Pool!DeleteAssumption
    PROVE Pool!Spec =>
            /\ [](Pool!DeleteWakesAll /\ Pool!WalkCounts)
            /\ [][\A t \in Threads : Pool!Told(t)]_(Pool!vars)
  OBVIOUS
<1>1. DeleteInv => Pool!DeleteWakesAll /\ Pool!WalkCounts BY DeleteSays
<1>2. DeleteInv /\ [Pool!Next]_(Pool!vars) => [\A t \in Threads : Pool!Told(t)]_(Pool!vars)
  BY DeleteTells
<1> QED BY <1>1, <1>2, PoolDeleteInvariant, PTL DEF Pool!Spec
=============================================================================
