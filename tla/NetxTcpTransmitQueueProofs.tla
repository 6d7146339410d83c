--------------------- MODULE NetxTcpTransmitQueueProofs ---------------------
(***************************************************************************)
(* Proofs about NetxTcpTransmitQueue, for every set of packets, every      *)
(* depth of the queue and any number of writers: the two words of a queued *)
(* packet tell the truth, the count is right and exceeds the maximum by no *)
(* more than the writers that found room, and the last user of a packet    *)
(* frees it, once; then, that the queue and the driver implement           *)
(* NetxSharedPacket.                                                       *)
(*                                                                         *)
(* The second part, in a section of its own, are the proofs about the      *)
(* other driver, NetxWifiOffload, which is the instance Wifi there.        *)
(***************************************************************************)
EXTENDS NetxTcpTransmitQueue, FiniteSetTheorems, SequenceTheorems, WellFoundedInduction, TLAPS

NoneTwice(s) == \A i, j \in 1..Len(s) : s[i] = s[j] => i = j

(* Where the walk of the IP thread stands in relation to the queue.         *)
WalkShape ==
  /\ NoneTwice(queue) /\ NoneTwice(walk)
  /\ pc = "idle" => walk = <<>>
  /\ pc \in {"ackMark", "ackTest", "ackLeave"} => \A p \in Packets : ~ (In(p, queue) /\ In(p, walk))
  /\ pc \in {"ackTest", "ackLeave"} => walk # <<>>
  /\ pc = "retransmit" => \A p \in Packets : In(p, walk) => In(p, queue)
  /\ pc = "flush" => queue = <<>>

(* A packet that is off the queue is with the application, in the pool, or  *)
(* marked so that the driver's completion will release it.                  *)
UnqueuedOwned ==
  /\ \A p \in Packets : p \in free => p \notin app
  /\ \A p \in Packets : p \in free \cup app => ~ Queued(p) /\ p \notin driver
  /\ \A p \in Packets : p \in app => mark[p] = "ALLOCATED" /\ ~ txDone[p]
  /\ \A p \in Packets : p \in driver /\ ~ Queued(p) => mark[p] = "ALLOCATED" /\ ~ txDone[p]

(* A packet the ACK walk is about to release is nobody else's.              *)
TestedOwned ==
  pc = "ackTest" /\ txDone[Head(walk)]
    => mark[Head(walk)] = "ALLOCATED" /\ Head(walk) \notin driver \cup free \cup app

(* A send has the application's packet until it is queued; those that have  *)
(* found room and are still to queue count towards the excess.              *)
SendsCounted ==
  /\ \A p \in Packets : sending[p] # "no" => p \in app
  /\ Cardinality(Sending) <= Writers
  /\ sentCount + Cardinality(Sending) <= QueueMaximum + Writers - 1

IInv ==
  /\ TypeOK /\ HandshakeTrue /\ CountTrue
  /\ WalkShape /\ UnqueuedOwned /\ TestedOwned /\ SendsCounted

------------------------------------------------------------------------------
(* A sequence holds its head and what its tail holds.                       *)
LEMMA InTail ==
  ASSUME NEW S, NEW s \in Seq(S), s # <<>>
  PROVE  /\ Head(s) \in S /\ Tail(s) \in Seq(S) /\ Len(s) \in Nat \ {0}
         /\ Len(Tail(s)) = Len(s) - 1
         /\ \A p : In(p, s) <=> p = Head(s) \/ In(p, Tail(s))
         /\ NoneTwice(s) => NoneTwice(Tail(s)) /\ ~ In(Head(s), Tail(s))
<1>1. /\ Len(s) \in Nat \ {0} /\ Head(s) = s[1] /\ Head(s) \in S
      /\ Tail(s) \in Seq(S) /\ Len(Tail(s)) = Len(s) - 1
      /\ \A i \in 1..(Len(s) - 1) : Tail(s)[i] = s[i + 1]
  BY HeadTailProperties, EmptySeq
<1>2. ASSUME NEW p, In(p, s), p # Head(s) PROVE In(p, Tail(s))
  <2>1. PICK i \in 1..Len(s) : s[i] = p
    BY <1>2 DEF In
  <2>2. i - 1 \in 1..(Len(s) - 1) /\ (i - 1) + 1 = i
    BY <1>1, <1>2, <2>1
  <2> QED BY <1>1, <2>1, <2>2 DEF In
<1>3. ASSUME NEW p, In(p, Tail(s)) PROVE In(p, s)
  <2>1. PICK i \in 1..(Len(s) - 1) : Tail(s)[i] = p
    BY <1>1, <1>3 DEF In
  <2>2. i + 1 \in 1..Len(s)
    BY <1>1
  <2> QED BY <1>1, <2>1, <2>2 DEF In
<1>4. In(Head(s), s)
  BY <1>1 DEF In
<1>5. NoneTwice(s) => NoneTwice(Tail(s)) /\ ~ In(Head(s), Tail(s))
  BY <1>1 DEF NoneTwice, In
<1> QED BY <1>1, <1>2, <1>3, <1>4, <1>5

(* A sequence with one more element at its end.                             *)
LEMMA InAppend ==
  ASSUME NEW S, NEW s \in Seq(S), NEW e \in S
  PROVE  /\ Append(s, e) \in Seq(S) /\ Len(Append(s, e)) = Len(s) + 1
         /\ \A p : In(p, Append(s, e)) <=> p = e \/ In(p, s)
         /\ NoneTwice(s) /\ ~ In(e, s) => NoneTwice(Append(s, e))
<1>1. /\ Len(s) \in Nat /\ Append(s, e) \in Seq(S) /\ Len(Append(s, e)) = Len(s) + 1
      /\ \A i \in 1..Len(s) : Append(s, e)[i] = s[i]
      /\ Append(s, e)[Len(s) + 1] = e
  BY AppendProperties
<1>2. \A i : i \in 1..(Len(s) + 1) <=> i \in 1..Len(s) \/ i = Len(s) + 1
  BY <1>1
<1> QED BY <1>1, <1>2 DEF In, NoneTwice

(* A sequence cut in two.                                                   *)
LEMMA InSplit ==
  ASSUME NEW S, NEW s \in Seq(S), NEW n \in 1..Len(s)
  PROVE  /\ SubSeq(s, 1, n) \in Seq(S) /\ SubSeq(s, n + 1, Len(s)) \in Seq(S)
         /\ Len(SubSeq(s, n + 1, Len(s))) = Len(s) - n
         /\ \A p : In(p, s) <=> In(p, SubSeq(s, 1, n)) \/ In(p, SubSeq(s, n + 1, Len(s)))
         /\ NoneTwice(s) =>
              /\ NoneTwice(SubSeq(s, 1, n)) /\ NoneTwice(SubSeq(s, n + 1, Len(s)))
              /\ \A p : ~ (In(p, SubSeq(s, 1, n)) /\ In(p, SubSeq(s, n + 1, Len(s))))
<1> DEFINE a == SubSeq(s, 1, n)  b == SubSeq(s, n + 1, Len(s))
<1>1. Len(s) \in Nat /\ n \in Nat /\ n <= Len(s) /\ \A i \in 1..Len(s) : s[i] \in S
  BY LenProperties, ElementOfSeq
<1>2. a \in Seq(S) /\ Len(a) = n /\ \A i \in 1..n : a[i] = s[i]
  BY <1>1, SubSeqProperties
<1>3. b \in Seq(S) /\ Len(b) = Len(s) - n /\ \A i \in 1..(Len(s) - n) : b[i] = s[n + i]
  BY <1>1, SubSeqProperties
<1>4. ASSUME NEW p, In(p, s) PROVE In(p, a) \/ In(p, b)
  <2>1. PICK i \in 1..Len(s) : s[i] = p
    BY <1>4 DEF In
  <2>2. CASE i <= n
    BY <1>1, <1>2, <2>1, <2>2 DEF In
  <2>3. CASE i > n
    <3>1. i - n \in 1..(Len(s) - n) /\ n + (i - n) = i
      BY <1>1, <2>3
    <3> QED BY <1>3, <2>1, <3>1 DEF In
  <2> QED BY <1>1, <2>2, <2>3
<1>5. ASSUME NEW p, In(p, a) \/ In(p, b) PROVE In(p, s)
  BY <1>1, <1>2, <1>3, <1>5 DEF In
<1>6. NoneTwice(s) => NoneTwice(a) /\ NoneTwice(b) /\ \A p : ~ (In(p, a) /\ In(p, b))
  <2> SUFFICES ASSUME NoneTwice(s)
               PROVE  NoneTwice(a) /\ NoneTwice(b) /\ \A p : ~ (In(p, a) /\ In(p, b))
    OBVIOUS
  <2>1. NoneTwice(a)
    BY <1>1, <1>2 DEF NoneTwice
  <2>2. NoneTwice(b)
    <3> SUFFICES ASSUME NEW i \in 1..(Len(s) - n), NEW j \in 1..(Len(s) - n), b[i] = b[j]
                 PROVE  i = j
      BY <1>3 DEF NoneTwice
    <3>1. n + i \in 1..Len(s) /\ n + j \in 1..Len(s) /\ s[n + i] = s[n + j]
      BY <1>1, <1>3
    <3> QED BY <1>1, <3>1 DEF NoneTwice
  <2>3. ASSUME NEW i \in 1..n, NEW j \in 1..(Len(s) - n) PROVE a[i] # b[j]
    <3>1. i \in 1..Len(s) /\ n + j \in 1..Len(s) /\ i # n + j
      BY <1>1
    <3> QED BY <1>2, <1>3, <3>1 DEF NoneTwice
  <2> QED BY <1>2, <1>3, <2>1, <2>2, <2>3 DEF In
<1> QED BY <1>2, <1>3, <1>4, <1>5, <1>6

------------------------------------------------------------------------------
(* A walk's element is a packet.                                            *)
LEMMA InPackets == ASSUME NEW s \in Seq(Packets), NEW p, In(p, s) PROVE p \in Packets
BY ElementOfSeq DEF In

(* The pool, the queue and the walk start empty.                            *)
LEMMA InitIInv == Init => IInv
<1> SUFFICES ASSUME Init PROVE IInv
  OBVIOUS
<1>1. queue = <<>> /\ walk = <<>> /\ Len(queue) = 0 /\ \A p : ~ In(p, queue)
  BY DEF Init, In
<1>2. <<>> \in Seq(Packets)
  BY EmptySeq
<1>3. \A p \in Packets : ~ Queued(p)
  BY <1>1 DEF Init, Queued
<1>4. SendsCounted
  <2>1. Sending = {} /\ Cardinality(Sending) = 0
    BY FS_EmptySet DEF Init, Sending
  <2> QED BY <2>1, QueueAssumption DEF Init, SendsCounted
<1> QED BY <1>1, <1>2, <1>3, <1>4, QueueAssumption
    DEF Init, IInv, TypeOK, HandshakeTrue, CountTrue, WalkShape, NoneTwice, UnqueuedOwned, TestedOwned

(* The sends under way can be counted.                                      *)
LEMMA SendsNumber ==
  ASSUME NEW S \in SUBSET Packets
  PROVE  /\ Cardinality(S) \in Nat
         /\ \A e \in Packets : /\ e \notin S => Cardinality(S \cup {e}) = Cardinality(S) + 1
                              /\ e \in S => Cardinality(S \ {e}) = Cardinality(S) - 1
<1>1. IsFiniteSet(S)
  BY QueueAssumption, FS_Subset
<1> QED BY <1>1, FS_CardinalityType, FS_AddElement, FS_RemoveElement

(* Steps that no send takes: an acknowledged packet only lowers the count.  *)
LEMMA SendsStay ==
  ASSUME IInv, sending' = sending, app \subseteq app', sentCount' \in 0..sentCount
  PROVE  SendsCounted' /\ sentCount' \in 0..(QueueMaximum + Writers - 1)
<1>1. Sending' = Sending /\ Cardinality(Sending) \in Nat /\ Sending \subseteq Packets
  BY SendsNumber DEF Sending
<1>2. sentCount \in 0..(QueueMaximum + Writers - 1) /\ QueueMaximum \in Nat /\ Writers \in Nat \ {0}
  BY QueueAssumption DEF IInv, TypeOK
<1> QED BY <1>1, <1>2 DEF IInv, SendsCounted

(* Steps that leave the queue, the walk and the walk's place alone.         *)
Apart == UNCHANGED <<queue, ipVars>>

(* What is queued is told by the queue, the walk and its place alone.       *)
LEMMA ApartQueued ==
  Apart => /\ \A p \in Packets : Queued(p)' <=> Queued(p)
           /\ WalkShape => WalkShape'
BY DEF Apart, ipVars, Queued, WalkShape

(* How each step changes what is queued, and that the walk keeps its place. *)
LEMMA SendQueued ==
  ASSUME IInv, NEW e \in Packets, Send(e)
  PROVE  WalkShape' /\ \A p \in Packets : Queued(p)' <=> Queued(p) \/ p = e
<1>1. /\ queue \in Seq(Packets) /\ queue' = Append(queue, e) /\ pc' = pc /\ walk' = walk /\ pc = "idle"
  BY DEF IInv, TypeOK, Send, ipVars
<1>2. \A p \in Packets : In(p, queue)' <=> p = e \/ In(p, queue)
  BY <1>1, InAppend
<1>3. ~ In(e, queue)
  BY DEF Send, IInv, UnqueuedOwned, SendsCounted, Queued
<1>4. NoneTwice(queue)'
  BY <1>1, <1>3, InAppend DEF IInv, WalkShape
<1>5. \A p \in Packets : Queued(p)' <=> Queued(p) \/ p = e
  BY <1>1, <1>2 DEF Queued
<1> QED BY <1>1, <1>4, <1>5 DEF IInv, WalkShape

(* An ACK moves packets from the queue to the walk: all are still queued.   *)
LEMMA AckStartQueued ==
  ASSUME IInv, AckStart
  PROVE  WalkShape' /\ \A p \in Packets : Queued(p)' <=> Queued(p)
<1>1. PICK n \in 1..Len(queue) :
        walk' = SubSeq(queue, 1, n) /\ queue' = SubSeq(queue, n + 1, Len(queue))
  BY DEF AckStart
<1>2. queue \in Seq(Packets) /\ NoneTwice(queue) /\ pc = "idle" /\ pc' = "ackMark"
  BY DEF IInv, TypeOK, WalkShape, AckStart
<1>3. \A p \in Packets : In(p, queue) <=> In(p, walk)' \/ In(p, queue)'
  BY <1>1, <1>2, InSplit
<1>4. NoneTwice(walk)' /\ NoneTwice(queue)' /\ \A p \in Packets : ~ (In(p, queue)' /\ In(p, walk)')
  BY <1>1, <1>2, InSplit
<1>5. \A p \in Packets : Queued(p)' <=> Queued(p)
  BY <1>2, <1>3 DEF Queued
<1> QED BY <1>2, <1>4, <1>5 DEF WalkShape

(* The walk's own head and tail.                                            *)
LEMMA WalkHead ==
  ASSUME IInv, walk # <<>>
  PROVE  /\ Head(walk) \in Packets /\ Tail(walk) \in Seq(Packets)
         /\ Len(walk) \in Nat \ {0} /\ Len(Tail(walk)) = Len(walk) - 1
         /\ \A p : In(p, walk) <=> p = Head(walk) \/ In(p, Tail(walk))
         /\ NoneTwice(Tail(walk)) /\ ~ In(Head(walk), Tail(walk))
BY InTail DEF IInv, TypeOK, WalkShape

(* Marking the walk's head takes it, and it alone, out of what is queued.   *)
LEMMA AckMarkQueued ==
  ASSUME IInv, AckMark
  PROVE  /\ WalkShape' /\ \A p \in Packets : Queued(p)' <=> Queued(p) /\ p # Head(walk)
         /\ Queued(Head(walk))
<1>1. pc = "ackMark" /\ pc' = "ackTest" /\ walk # <<>> /\ walk' = walk /\ queue' = queue
  BY DEF AckMark, socketVars
<1>2. \A p \in Packets : Queued(p)' <=> In(p, queue) \/ In(p, Tail(walk))
  BY <1>1 DEF Queued
<1>3. \A p \in Packets : Queued(p) <=> In(p, queue) \/ In(p, walk)
  BY <1>1 DEF Queued
<1>4. Head(walk) \in Packets /\ ~ In(Head(walk), queue)
  BY <1>1, WalkHead DEF IInv, WalkShape
<1>5. WalkShape'
  BY <1>1 DEF IInv, WalkShape
<1> QED BY <1>1, <1>2, <1>3, <1>4, <1>5, WalkHead

(* The head was taken out by the mark: test and leave change nothing.       *)
LEMMA AckTestQueued ==
  ASSUME IInv, AckTest \/ AckLeave
  PROVE  /\ WalkShape' /\ \A p \in Packets : Queued(p)' <=> Queued(p)
         /\ walk # <<>> /\ Head(walk) \in Packets /\ ~ Queued(Head(walk))
<1>1. /\ pc \in {"ackTest", "ackLeave"} /\ queue' = queue /\ walk # <<>>
      /\ \/ pc' = "ackMark" /\ walk' = Tail(walk)
         \/ pc' = "ackLeave" /\ walk' = walk
  BY DEF AckTest, AckLeave, socketVars, IInv, WalkShape
<1>2. \A p \in Packets : Queued(p) <=> In(p, queue) \/ In(p, Tail(walk))
  BY <1>1 DEF Queued
<1>3. \A p \in Packets : Queued(p)' <=> In(p, queue) \/ In(p, Tail(walk))
  BY <1>1 DEF Queued
<1>4. /\ Head(walk) \in Packets /\ NoneTwice(Tail(walk)) /\ ~ In(Head(walk), Tail(walk))
      /\ \A p : In(p, walk) <=> p = Head(walk) \/ In(p, Tail(walk))
  BY <1>1, WalkHead
<1>5. NoneTwice(queue) /\ NoneTwice(walk) /\ \A p \in Packets : ~ (In(p, queue) /\ In(p, walk))
  BY <1>1 DEF IInv, WalkShape
<1>6. WalkShape'
  BY <1>1, <1>4, <1>5 DEF WalkShape
<1> QED BY <1>1, <1>2, <1>3, <1>4, <1>5, <1>6

(* A retransmission takes nothing off the queue.                            *)
LEMMA RetransmitQueued ==
  ASSUME IInv, RetransmitStart \/ RetransmitOne \/ RetransmitEnd
  PROVE  WalkShape' /\ \A p \in Packets : Queued(p)' <=> Queued(p)
<1>1. queue' = queue /\ pc \in {"idle", "retransmit"} /\ pc' \in {"idle", "retransmit"}
  BY DEF RetransmitStart, RetransmitOne, RetransmitEnd, socketVars
<1>2. \A p \in Packets : Queued(p)' <=> Queued(p)
  BY <1>1 DEF Queued
<1>3. CASE RetransmitStart
  BY <1>2, <1>3 DEF RetransmitStart, socketVars, IInv, WalkShape
<1>4. CASE RetransmitOne
  <2>1. walk # <<>> /\ walk' = Tail(walk) /\ pc = "retransmit" /\ pc' = "retransmit"
    BY <1>4 DEF RetransmitOne
  <2>2. NoneTwice(walk)' /\ \A p \in Packets : In(p, walk)' => In(p, walk)
    BY <2>1, WalkHead
  <2> QED BY <1>1, <1>2, <2>1, <2>2 DEF IInv, WalkShape
<1>5. CASE RetransmitEnd
  BY <1>2, <1>5 DEF RetransmitEnd, socketVars, IInv, WalkShape, NoneTwice
<1> QED BY <1>2, <1>3, <1>4, <1>5

(* A flush moves the whole queue to the walk.                               *)
LEMMA FlushStartQueued ==
  ASSUME IInv, FlushStart
  PROVE  WalkShape' /\ \A p \in Packets : Queued(p)' <=> Queued(p)
<1>1. pc = "idle" /\ pc' = "flush" /\ walk' = queue /\ queue' = <<>> /\ NoneTwice(queue)
  BY DEF FlushStart, IInv, WalkShape
<1>2. \A p : ~ In(p, <<>>)
  BY DEF In
<1>3. NoneTwice(<<>>)
  BY DEF NoneTwice
<1> QED BY <1>1, <1>2, <1>3 DEF Queued, WalkShape

(* The flush takes the walk's head out of what is queued; there is one.     *)
LEMMA FlushOneQueued ==
  ASSUME IInv, FlushOne
  PROVE  /\ WalkShape' /\ \A p \in Packets : Queued(p)' <=> Queued(p) /\ p # Head(walk)
         /\ walk # <<>> /\ Head(walk) \in Packets /\ Queued(Head(walk))
<1>1. pc = "flush" /\ pc' = "flush" /\ walk' = Tail(walk) /\ queue = <<>> /\ queue' = queue
  BY DEF FlushOne, IInv, WalkShape
<1>2. walk # <<>>
  <2>1. sentCount > 0 /\ sentCount = Len(queue) + Len(walk) /\ Len(queue) = 0
    BY <1>1 DEF FlushOne, IInv, CountTrue
  <2> QED BY <2>1
<1>3. \A p : ~ In(p, <<>>)
  BY DEF In
<1>4. \A p \in Packets : (Queued(p) <=> In(p, walk)) /\ (Queued(p)' <=> In(p, Tail(walk)))
  BY <1>1, <1>3 DEF Queued
<1>5. WalkShape'
  BY <1>1, <1>2, WalkHead DEF IInv, WalkShape
<1> QED BY <1>2, <1>4, <1>5, WalkHead

(* When a walk ends, it has visited every packet it took.                   *)
LEMMA WalkEndQueued ==
  ASSUME IInv, WalkEnd
  PROVE  WalkShape' /\ walk = <<>> /\ \A p \in Packets : Queued(p)' <=> Queued(p)
<1>1. /\ pc \in {"ackMark", "flush"} /\ pc' = "idle" /\ walk' = walk /\ queue' = queue
  BY DEF WalkEnd, socketVars
<1>2. walk = <<>>
  <2>1. CASE pc = "ackMark"
    BY <2>1 DEF WalkEnd
  <2>2. CASE pc = "flush"
    <3>1. sentCount = 0 /\ sentCount = Len(queue) + Len(walk)
      BY <2>2 DEF WalkEnd, IInv, CountTrue
    <3>2. Len(queue) \in Nat /\ Len(walk) \in Nat /\ walk \in Seq(Packets)
      BY LenProperties DEF IInv, TypeOK
    <3> QED BY <3>1, <3>2, EmptySeq
  <2> QED BY <1>1, <2>1, <2>2
<1>3. \A p : ~ In(p, <<>>)
  BY DEF In
<1>4. \A p \in Packets : Queued(p)' <=> Queued(p)
  BY <1>1, <1>2, <1>3 DEF Queued
<1> QED BY <1>1, <1>2, <1>4 DEF IInv, WalkShape

------------------------------------------------------------------------------
(* Every step keeps the invariant, one lemma for each actor's steps: first  *)
(* the application.                                                         *)
LEMMA AllocateIInv ==
  ASSUME IInv, NEW e \in Packets, AppAllocate(e)
  PROVE  IInv'
<1>1. /\ e \in free /\ free' = free \ {e} /\ app' = app \cup {e} /\ driver' = driver
      /\ sending' = sending
      /\ sentCount' = sentCount /\ open' = open /\ queue' = queue /\ pc' = pc /\ walk' = walk
  BY DEF AppAllocate, socketVars, ipVars
<1>2. /\ mark' \in [Packets -> {"FREE", "ALLOCATED", "QUEUED"}] /\ txDone' \in [Packets -> BOOLEAN]
      /\ mark'[e] = "ALLOCATED" /\ txDone'[e] = FALSE
      /\ \A p \in Packets : p # e => mark'[p] = mark[p] /\ txDone'[p] = txDone[p]
  BY DEF AppAllocate, IInv, TypeOK
<1>3. WalkShape' /\ \A p \in Packets : Queued(p)' <=> Queued(p)
  BY <1>1, ApartQueued DEF Apart, ipVars, IInv
<1>4. TypeOK'
  BY <1>1, <1>2 DEF IInv, TypeOK
<1>5. HandshakeTrue'
  BY <1>1, <1>2, <1>3 DEF IInv, HandshakeTrue, UnqueuedOwned
<1>6. CountTrue'
  BY <1>1 DEF IInv, CountTrue
<1>7. UnqueuedOwned'
  BY <1>1, <1>2, <1>3 DEF IInv, UnqueuedOwned
<1>8. TestedOwned'
  <2> SUFFICES ASSUME pc = "ackTest", txDone'[Head(walk)]
               PROVE  /\ mark'[Head(walk)] = "ALLOCATED"
                      /\ Head(walk) \notin driver' \cup free' \cup app'
    BY <1>1 DEF TestedOwned
  <2>1. Head(walk) \in Packets /\ Head(walk) # e
    BY <1>2, WalkHead DEF IInv, WalkShape
  <2> QED BY <1>1, <1>2, <2>1 DEF IInv, TestedOwned
<1>9. SendsCounted'
  BY <1>1, SendsStay DEF IInv, TypeOK
<1> QED BY <1>3, <1>4, <1>5, <1>6, <1>7, <1>8, <1>9 DEF IInv

(* The sent packet joins the queue and the driver in one section.           *)
LEMMA SendIInv ==
  ASSUME IInv, NEW e \in Packets, Send(e)
  PROVE  IInv'
<1>1. /\ pc = "idle" /\ e \in app /\ app' = app \ {e}
      /\ queue' = Append(queue, e) /\ sentCount' = sentCount + 1 /\ driver' = driver \cup {e}
      /\ txDone' = txDone /\ free' = free /\ open' = open /\ pc' = pc /\ walk' = walk
  BY DEF Send, ipVars, IInv, SendsCounted
<1>2. /\ mark' \in [Packets -> {"FREE", "ALLOCATED", "QUEUED"}] /\ mark'[e] = "QUEUED"
      /\ \A p \in Packets : p # e => mark'[p] = mark[p]
  BY DEF Send, IInv, TypeOK
<1>3. WalkShape' /\ \A p \in Packets : Queued(p)' <=> Queued(p) \/ p = e
  BY SendQueued
<1>4. queue' \in Seq(Packets) /\ Len(queue') = Len(queue) + 1 /\ Len(queue) \in Nat
  BY <1>1, InAppend, LenProperties DEF IInv, TypeOK
<1>9. /\ sending' \in [Packets -> {"no", "prepared", "numbered", "outdated"}]
      /\ SendsCounted' /\ sentCount' \in 0..(QueueMaximum + Writers - 1)
  <2>1. /\ sending \in [Packets -> {"no", "prepared", "numbered", "outdated"}]
        /\ sending[e] = "numbered"
        /\ sending' = [p \in Packets |-> IF p = e THEN "no"
                                         ELSE IF sending[p] = "numbered" THEN "outdated" ELSE sending[p]]
    BY DEF Send, Outdated, IInv, TypeOK
  <2>2. Sending' = Sending \ {e} /\ e \in Sending /\ Sending \subseteq Packets
    BY <2>1 DEF Sending
  <2>3. Cardinality(Sending) \in Nat /\ Cardinality(Sending') = Cardinality(Sending) - 1
    BY <2>2, SendsNumber
  <2>4. /\ sentCount \in Nat /\ QueueMaximum \in Nat /\ Writers \in Nat \ {0}
        /\ Cardinality(Sending) <= Writers
        /\ sentCount + Cardinality(Sending) <= QueueMaximum + Writers - 1
    BY QueueAssumption DEF IInv, TypeOK, SendsCounted
  <2>5. \A p \in Packets : sending'[p] # "no" => p \in app'
    BY <1>1, <2>1 DEF IInv, SendsCounted
  <2>6. Cardinality(Sending') \in Nat
    BY <2>2, SendsNumber
  <2> QED BY <1>1, <2>1, <2>3, <2>4, <2>5, <2>6 DEF SendsCounted
<1>5. TypeOK'
  BY <1>1, <1>2, <1>4, <1>9 DEF IInv, TypeOK
<1>6. HandshakeTrue'
  BY <1>1, <1>2, <1>3 DEF IInv, HandshakeTrue, UnqueuedOwned
<1>7. CountTrue'
  BY <1>1, <1>4 DEF IInv, CountTrue
<1>8. UnqueuedOwned'
  BY <1>1, <1>2, <1>3 DEF IInv, UnqueuedOwned
<1> QED BY <1>1, <1>3, <1>5, <1>6, <1>7, <1>8, <1>9 DEF IInv, TestedOwned

(* A release of a packet that is marked ALLOCATED frees it.                 *)
LEMMA ReleaseFrees ==
  ASSUME TypeOK, NEW e \in Packets,
         NEW m \in [Packets -> {"FREE", "ALLOCATED", "QUEUED"}], m[e] = "ALLOCATED",
         PacketRelease(e, m)
  PROVE  /\ free' = free \cup {e}
         /\ mark' \in [Packets -> {"FREE", "ALLOCATED", "QUEUED"}]
         /\ txDone' \in [Packets -> BOOLEAN] /\ txDone'[e] = FALSE
         /\ \A p \in Packets : p # e => mark'[p] = m[p] /\ txDone'[p] = txDone[p]
BY DEF PacketRelease, TypeOK

(* A send that does not queue: the packet stays or the copy is released.    *)
LEMMA SendFailsIInv ==
  ASSUME IInv, NEW e \in Packets, SendFails(e)
  PROVE  /\ IInv' /\ UNCHANGED <<driver, queue, pc, walk>>
         /\ e \in app /\ \A p \in Packets : Queued(p)' <=> Queued(p)
         /\ \A p \in Packets : p # e => txDone'[p] = txDone[p]
         /\ UNCHANGED <<mark, txDone, free, app>> \/ (free' = free \cup {e} /\ app' = app \ {e})
<1>1. /\ pc = "idle" /\ pc' = pc /\ walk' = walk /\ queue' = queue /\ driver' = driver
      /\ sentCount' = sentCount /\ open' = open
  BY DEF SendFails, socketVars, ipVars
<1>2. WalkShape' /\ \A p \in Packets : Queued(p)' <=> Queued(p)
  BY <1>1, ApartQueued DEF Apart, ipVars, IInv
<1>3. /\ sending \in [Packets -> {"no", "prepared", "numbered", "outdated"}] /\ sending[e] # "no"
      /\ sending' \in [Packets -> {"no", "prepared", "numbered", "outdated"}]
      /\ sending'[e] = "no" /\ \A p \in Packets : p # e => sending'[p] = sending[p]
  BY DEF SendFails, IInv, TypeOK
<1>4. e \in app /\ e \notin free /\ ~ Queued(e) /\ e \notin driver /\ ~ txDone[e]
  BY <1>3 DEF IInv, SendsCounted, UnqueuedOwned
<1>5. /\ mark' \in [Packets -> {"FREE", "ALLOCATED", "QUEUED"}]
      /\ txDone' \in [Packets -> BOOLEAN] /\ ~ txDone'[e]
      /\ \A p \in Packets : p # e => mark'[p] = mark[p] /\ txDone'[p] = txDone[p]
      /\ UNCHANGED <<mark, txDone, free, app>> \/ (free' = free \cup {e} /\ app' = app \ {e})
  <2>1. CASE UNCHANGED <<mark, txDone, free, app>>
    BY <1>4, <2>1 DEF IInv, TypeOK
  <2>2. CASE PacketRelease(e, mark) /\ app' = app \ {e}
    <3>1. mark[e] = "ALLOCATED"
      BY <1>4 DEF IInv, UnqueuedOwned
    <3>2. mark \in [Packets -> {"FREE", "ALLOCATED", "QUEUED"}] /\ TypeOK
      BY DEF IInv, TypeOK
    <3> QED BY <2>2, <3>1, <3>2, ReleaseFrees
  <2> QED BY <2>1, <2>2 DEF SendFails
<1>6. TypeOK'
  BY <1>1, <1>3, <1>5 DEF IInv, TypeOK
<1>7. HandshakeTrue'
  BY <1>1, <1>2, <1>4, <1>5 DEF IInv, HandshakeTrue
<1>8. CountTrue' /\ TestedOwned'
  BY <1>1 DEF IInv, CountTrue, TestedOwned
<1>9. UnqueuedOwned'
  BY <1>1, <1>2, <1>4, <1>5 DEF IInv, UnqueuedOwned
<1>10. SendsCounted'
  <2>1. Sending' = Sending \ {e} /\ e \in Sending /\ Sending \subseteq Packets
    BY <1>3 DEF Sending
  <2>2. /\ Cardinality(Sending) \in Nat /\ Cardinality(Sending') \in Nat
        /\ Cardinality(Sending') = Cardinality(Sending) - 1
    BY <2>1, SendsNumber
  <2>3. \A p \in Packets : sending'[p] # "no" => p \in app'
    BY <1>3, <1>5 DEF IInv, SendsCounted
  <2>4. sentCount \in Nat /\ QueueMaximum \in Nat /\ Writers \in Nat \ {0}
    BY QueueAssumption DEF IInv, TypeOK
  <2> QED BY <1>1, <2>2, <2>3, <2>4 DEF IInv, SendsCounted
<1> QED BY <1>1, <1>2, <1>4, <1>5, <1>6, <1>7, <1>8, <1>9, <1>10 DEF IInv

(* The driver's completion of a packet on the queue, and of any other.      *)
LEMMA DriverMarks ==
  ASSUME IInv, NEW e \in Packets, DriverDone(e)
  PROVE  IF Queued(e)
           THEN /\ mark' = mark /\ free' = free
                /\ txDone' = [txDone EXCEPT ![e] = TRUE]
           ELSE mark[e] = "ALLOCATED" /\ ~ txDone[e] /\ PacketRelease(e, mark)
<1>1. e \in driver
  BY DEF DriverDone
<1>2. CASE Queued(e)
  <2>1. mark[e] = "QUEUED"
    BY <1>2 DEF IInv, HandshakeTrue
  <2> QED BY <1>2, <2>1 DEF DriverDone
<1>3. CASE ~ Queued(e)
  <2>1. mark[e] = "ALLOCATED" /\ ~ txDone[e]
    BY <1>1, <1>3 DEF IInv, UnqueuedOwned
  <2> QED BY <1>3, <2>1 DEF DriverDone
<1> QED BY <1>2, <1>3

(* The driver's completion, which may fall inside any walk.                 *)
LEMMA DriverIInv ==
  ASSUME IInv, NEW e \in Packets, DriverDone(e)
  PROVE  IInv'
<1>1. /\ e \in driver /\ driver' = driver \ {e} /\ app' = app /\ sending' = sending
      /\ sentCount' = sentCount /\ open' = open /\ queue' = queue /\ pc' = pc /\ walk' = walk
  BY DEF DriverDone, appVars, socketVars, ipVars
<1>2. WalkShape' /\ \A p \in Packets : Queued(p)' <=> Queued(p)
  BY <1>1, ApartQueued DEF Apart, ipVars, IInv
<1>3. CountTrue'
  BY <1>1 DEF IInv, CountTrue
<1>4. e \notin free /\ e \notin app
  BY <1>1 DEF IInv, UnqueuedOwned
<1>7. SendsCounted'
  BY <1>1, SendsStay DEF IInv, TypeOK
<1>5. CASE Queued(e)
  <2>1. /\ mark' = mark /\ free' = free /\ txDone' \in [Packets -> BOOLEAN] /\ txDone'[e] = TRUE
        /\ \A p \in Packets : p # e => txDone'[p] = txDone[p]
    BY <1>5, DriverMarks DEF IInv, TypeOK
  <2>2. TypeOK'
    BY <1>1, <2>1 DEF IInv, TypeOK
  <2>3. HandshakeTrue'
    BY <1>1, <1>2, <2>1 DEF IInv, HandshakeTrue
  <2>4. UnqueuedOwned'
    BY <1>1, <1>2, <1>4, <1>5, <2>1 DEF IInv, UnqueuedOwned
  <2>5. TestedOwned'
    <3> SUFFICES ASSUME pc = "ackTest" PROVE TestedOwned'
      BY <1>1 DEF TestedOwned
    <3>1. Head(walk) \in Packets /\ ~ Queued(Head(walk))
      <4>1. walk # <<>> /\ \A p \in Packets : ~ (In(p, queue) /\ In(p, walk))
        BY DEF IInv, WalkShape
      <4> QED BY <4>1, WalkHead DEF Queued
    <3> QED BY <1>1, <1>5, <2>1, <3>1 DEF IInv, TestedOwned
  <2> QED BY <1>2, <1>3, <1>7, <2>2, <2>3, <2>4, <2>5 DEF IInv
<1>6. CASE ~ Queued(e)
  <2>1. mark[e] = "ALLOCATED" /\ ~ txDone[e] /\ PacketRelease(e, mark)
    BY <1>6, DriverMarks
  <2>2. /\ free' = free \cup {e}
        /\ mark' \in [Packets -> {"FREE", "ALLOCATED", "QUEUED"}]
        /\ txDone' \in [Packets -> BOOLEAN] /\ txDone'[e] = FALSE
        /\ \A p \in Packets : p # e => mark'[p] = mark[p] /\ txDone'[p] = txDone[p]
    BY <2>1, ReleaseFrees DEF IInv, TypeOK
  <2>3. TypeOK'
    BY <1>1, <2>2 DEF IInv, TypeOK
  <2>4. HandshakeTrue'
    BY <1>1, <1>2, <1>6, <2>2 DEF IInv, HandshakeTrue
  <2>5. UnqueuedOwned'
    BY <1>1, <1>2, <1>4, <1>6, <2>2 DEF IInv, UnqueuedOwned
  <2>6. TestedOwned'
    <3> SUFFICES ASSUME pc = "ackTest", txDone'[Head(walk)] PROVE TestedOwned'
      BY <1>1 DEF TestedOwned
    <3>1. Head(walk) \in Packets
      BY WalkHead DEF IInv, WalkShape
    <3> QED BY <1>1, <2>2, <3>1 DEF IInv, TestedOwned
  <2> QED BY <1>2, <1>3, <1>7, <2>3, <2>4, <2>5, <2>6 DEF IInv
<1> QED BY <1>5, <1>6

(* Steps that move the walk along and touch no packet.                      *)
WalkMoves == AckStart \/ RetransmitStart \/ RetransmitEnd \/ FlushStart \/ WalkEnd

(* Starting and ending a walk.                                              *)
LEMMA WalkMovesIInv ==
  ASSUME IInv, WalkMoves
  PROVE  IInv' /\ UNCHANGED <<packetVars, app>> /\ pc' # "ackTest"
         /\ \A p \in Packets : Queued(p)' <=> Queued(p)
<1>1. WalkShape' /\ \A p \in Packets : Queued(p)' <=> Queued(p)
  BY AckStartQueued, RetransmitQueued, FlushStartQueued, WalkEndQueued DEF WalkMoves
<1>2. UNCHANGED <<packetVars, app, sending>> /\ pc' \in {"idle", "ackMark", "retransmit", "flush"}
  BY DEF WalkMoves, AckStart, RetransmitStart, RetransmitEnd, FlushStart, WalkEnd, appVars
<1>3. mark' = mark /\ txDone' = txDone /\ free' = free /\ driver' = driver /\ app' = app
  BY <1>2 DEF packetVars
<1>4. HandshakeTrue' /\ UnqueuedOwned' /\ TestedOwned'
  <2>1. HandshakeTrue'
    BY <1>1, <1>3 DEF IInv, HandshakeTrue
  <2>2. UnqueuedOwned'
    BY <1>1, <1>3 DEF IInv, UnqueuedOwned
  <2> QED BY <1>2, <2>1, <2>2 DEF TestedOwned
<1>5. /\ queue \in Seq(Packets) /\ walk \in Seq(Packets) /\ Len(queue) \in Nat
      /\ <<>> \in Seq(Packets) /\ Len(<<>>) = 0
  BY LenProperties, EmptySeq DEF IInv, TypeOK
<1>6. /\ queue' \in Seq(Packets) /\ walk' \in Seq(Packets) /\ open' \in BOOLEAN
      /\ sentCount' \in 0..sentCount /\ CountTrue'
  <2>1. CASE AckStart
    <3>1. PICK n \in 1..Len(queue) :
            /\ walk' = SubSeq(queue, 1, n) /\ queue' = SubSeq(queue, n + 1, Len(queue))
            /\ sentCount' = sentCount - n
      BY <2>1 DEF AckStart
    <3>2. pc = "idle" /\ pc' = "ackMark" /\ sentCount = Len(queue) /\ open' = open
      BY <2>1 DEF AckStart, IInv, CountTrue
    <3>3. queue' \in Seq(Packets) /\ walk' \in Seq(Packets) /\ Len(queue') = Len(queue) - n
      BY <1>5, <3>1, InSplit
    <3> QED BY <1>5, <3>1, <3>2, <3>3 DEF IInv, TypeOK, CountTrue
  <2>2. CASE RetransmitStart \/ RetransmitEnd
    <3>1. /\ queue' = queue /\ sentCount' = sentCount /\ open' = open /\ walk' \in {queue, <<>>}
          /\ pc # "flush" /\ pc' # "flush"
      BY <2>2 DEF RetransmitStart, RetransmitEnd, socketVars
    <3>2. sentCount \in 0..sentCount
      BY DEF IInv, TypeOK
    <3>3. CountTrue'
      BY <3>1 DEF IInv, CountTrue
    <3> QED BY <1>5, <3>1, <3>2, <3>3 DEF IInv, TypeOK
  <2>3. CASE FlushStart
    <3>1. /\ pc = "idle" /\ pc' = "flush" /\ walk' = queue /\ queue' = <<>>
          /\ sentCount' = sentCount /\ open' = FALSE
      BY <2>3 DEF FlushStart
    <3>2. sentCount = Len(queue) /\ sentCount \in 0..sentCount
      BY <1>5, <3>1 DEF IInv, TypeOK, CountTrue
    <3>3. sentCount' = Len(queue') + Len(walk')
      BY <1>5, <3>1, <3>2
    <3>4. CountTrue'
      BY <3>1, <3>3 DEF CountTrue
    <3>5. open' \in BOOLEAN
      BY <3>1
    <3> QED BY <1>5, <3>1, <3>2, <3>4, <3>5
  <2>4. CASE WalkEnd
    <3>1. walk = <<>> /\ walk' = walk /\ queue' = queue /\ sentCount' = sentCount
          /\ open' = open /\ pc' = "idle"
      BY <2>4, WalkEndQueued DEF WalkEnd, socketVars
    <3>2. sentCount = Len(queue)
      BY <1>5, <3>1 DEF IInv, CountTrue
    <3> QED BY <1>5, <3>1, <3>2 DEF IInv, TypeOK, CountTrue
  <2> QED BY <2>1, <2>2, <2>3, <2>4 DEF WalkMoves
<1>8. SendsCounted' /\ sentCount' \in 0..(QueueMaximum + Writers - 1)
  BY <1>2, <1>6, SendsStay
<1>7. TypeOK'
  BY <1>2, <1>3, <1>6, <1>8 DEF IInv, TypeOK
<1> QED BY <1>1, <1>2, <1>4, <1>6, <1>7, <1>8 DEF IInv

(* The IP thread, acknowledging: the mark,                                  *)
LEMMA AckMarkIInv ==
  ASSUME IInv, AckMark
  PROVE  IInv'
<1>1. /\ pc = "ackMark" /\ pc' = "ackTest" /\ walk # <<>> /\ walk' = walk /\ queue' = queue
      /\ sentCount' = sentCount /\ open' = open /\ app' = app /\ sending' = sending
      /\ txDone' = txDone /\ free' = free /\ driver' = driver
  BY DEF AckMark, appVars, socketVars
<1>2. PICK e \in Packets : e = Head(walk)
  BY <1>1, WalkHead
<1>3. /\ mark' \in [Packets -> {"FREE", "ALLOCATED", "QUEUED"}] /\ mark'[e] = "ALLOCATED"
      /\ \A p \in Packets : p # e => mark'[p] = mark[p]
  BY <1>2 DEF AckMark, IInv, TypeOK
<1>4. WalkShape' /\ Queued(e) /\ \A p \in Packets : Queued(p)' <=> Queued(p) /\ p # e
  BY <1>2, AckMarkQueued
<1>5. e \notin free \cup app /\ (txDone[e] <=> e \notin driver)
  BY <1>4 DEF IInv, HandshakeTrue, UnqueuedOwned
<1>6. TypeOK'
  BY <1>1, <1>3 DEF IInv, TypeOK
<1>7. HandshakeTrue'
  BY <1>1, <1>3, <1>4 DEF IInv, HandshakeTrue
<1>8. CountTrue'
  BY <1>1 DEF IInv, CountTrue
<1>9. UnqueuedOwned'
  BY <1>1, <1>3, <1>4, <1>5 DEF IInv, UnqueuedOwned
<1>10. TestedOwned'
  BY <1>1, <1>2, <1>3, <1>5 DEF TestedOwned
<1>11. SendsCounted'
  BY <1>1, SendsStay DEF IInv, TypeOK
<1> QED BY <1>4, <1>6, <1>7, <1>8, <1>9, <1>10, <1>11 DEF IInv

(* the test of NX_DRIVER_TX_DONE and the release,                           *)
LEMMA AckTestIInv ==
  ASSUME IInv, AckTest
  PROVE  IInv'
<1>1. /\ pc = "ackTest" /\ pc' \in {"ackMark", "ackLeave"} /\ queue' = queue
      /\ sentCount' = sentCount /\ open' = open /\ app' = app /\ driver' = driver
      /\ sending' = sending
  BY DEF AckTest, appVars, socketVars
<1>2. /\ WalkShape' /\ walk # <<>> /\ ~ Queued(Head(walk))
      /\ \A p \in Packets : Queued(p)' <=> Queued(p)
  BY AckTestQueued
<1>3. PICK e \in Packets : e = Head(walk)
  BY <1>2, WalkHead
<1>4. walk' \in Seq(Packets)
  BY <1>2, WalkHead DEF AckTest, IInv, TypeOK
<1>5. CountTrue' /\ TestedOwned' /\ SendsCounted'
  BY <1>1, SendsStay DEF IInv, TypeOK, CountTrue, TestedOwned
<1>6. CASE txDone[e]
  <2>1. mark[e] = "ALLOCATED" /\ e \notin driver \cup free \cup app /\ PacketRelease(e, mark)
    BY <1>1, <1>3, <1>6 DEF AckTest, IInv, TestedOwned
  <2>2. /\ free' = free \cup {e}
        /\ mark' \in [Packets -> {"FREE", "ALLOCATED", "QUEUED"}]
        /\ txDone' \in [Packets -> BOOLEAN] /\ txDone'[e] = FALSE
        /\ \A p \in Packets : p # e => mark'[p] = mark[p] /\ txDone'[p] = txDone[p]
    BY <2>1, ReleaseFrees DEF IInv, TypeOK
  <2>3. TypeOK'
    BY <1>1, <1>4, <2>2 DEF IInv, TypeOK
  <2>4. HandshakeTrue'
    BY <1>1, <1>2, <1>3, <2>2 DEF IInv, HandshakeTrue
  <2>5. UnqueuedOwned'
    BY <1>1, <1>2, <1>3, <2>1, <2>2 DEF IInv, UnqueuedOwned
  <2> QED BY <1>2, <1>5, <2>3, <2>4, <2>5 DEF IInv
<1>7. CASE ~ txDone[e]
  <2>1. mark' = mark /\ txDone' = txDone /\ free' = free
    BY <1>3, <1>7 DEF AckTest
  <2>2. TypeOK'
    BY <1>1, <1>4, <2>1 DEF IInv, TypeOK
  <2>3. HandshakeTrue'
    BY <1>1, <1>2, <2>1 DEF IInv, HandshakeTrue
  <2>4. UnqueuedOwned'
    BY <1>1, <1>2, <2>1 DEF IInv, UnqueuedOwned
  <2> QED BY <1>2, <1>5, <2>2, <2>3, <2>4 DEF IInv
<1> QED BY <1>6, <1>7

(* and the second mark of a packet that is left to the driver.              *)
LEMMA AckLeaveIInv ==
  ASSUME IInv, AckLeave
  PROVE  IInv'
<1>1. /\ pc = "ackLeave" /\ pc' = "ackMark" /\ queue' = queue /\ walk' = Tail(walk)
      /\ sentCount' = sentCount /\ open' = open /\ app' = app /\ driver' = driver
      /\ txDone' = txDone /\ free' = free /\ sending' = sending
  BY DEF AckLeave, appVars, socketVars
<1>2. /\ WalkShape' /\ walk # <<>> /\ ~ Queued(Head(walk))
      /\ \A p \in Packets : Queued(p)' <=> Queued(p)
  BY AckTestQueued
<1>3. PICK e \in Packets : e = Head(walk)
  BY <1>2, WalkHead
<1>4. /\ mark' \in [Packets -> {"FREE", "ALLOCATED", "QUEUED"}] /\ mark'[e] = "ALLOCATED"
      /\ \A p \in Packets : p # e => mark'[p] = mark[p]
  BY <1>3 DEF AckLeave, IInv, TypeOK
<1>5. TypeOK'
  BY <1>1, <1>2, <1>4, WalkHead DEF IInv, TypeOK
<1>6. HandshakeTrue'
  BY <1>1, <1>2, <1>3, <1>4 DEF IInv, HandshakeTrue
<1>7. CountTrue' /\ TestedOwned' /\ SendsCounted'
  BY <1>1, SendsStay DEF IInv, TypeOK, CountTrue, TestedOwned
<1>8. UnqueuedOwned'
  BY <1>1, <1>2, <1>3, <1>4 DEF IInv, UnqueuedOwned
<1> QED BY <1>2, <1>5, <1>6, <1>7, <1>8 DEF IInv

(* A retransmitted packet was not with the driver.                          *)
LEMMA RetransmitOneIInv ==
  ASSUME IInv, RetransmitOne
  PROVE  /\ IInv' /\ Head(walk) \in Packets /\ Queued(Head(walk)) /\ Head(walk) \notin driver
         /\ \A p \in Packets : Queued(p)' <=> Queued(p)
<1>1. /\ pc = "retransmit" /\ pc' = "retransmit" /\ walk # <<>> /\ walk' = Tail(walk)
      /\ queue' = queue /\ sentCount' = sentCount /\ open' = open /\ app' = app
      /\ mark' = mark /\ free' = free /\ driver' = driver \cup {Head(walk)} /\ sending' = sending
  BY DEF RetransmitOne, appVars, socketVars
<1>2. WalkShape' /\ \A p \in Packets : Queued(p)' <=> Queued(p)
  BY RetransmitQueued
<1>3. PICK e \in Packets : e = Head(walk)
  BY <1>1, WalkHead
<1>4. Queued(e)
  BY <1>1, <1>3, WalkHead DEF IInv, WalkShape, Queued
<1>5. e \notin driver /\ e \notin free /\ e \notin app
  BY <1>3, <1>4 DEF RetransmitOne, IInv, HandshakeTrue, UnqueuedOwned
<1>6. /\ txDone' \in [Packets -> BOOLEAN] /\ txDone'[e] = FALSE
      /\ \A p \in Packets : p # e => txDone'[p] = txDone[p]
  BY <1>3 DEF RetransmitOne, IInv, TypeOK
<1>7. TypeOK'
  BY <1>1, <1>3, <1>6, WalkHead DEF IInv, TypeOK
<1>8. HandshakeTrue'
  BY <1>1, <1>2, <1>3, <1>6 DEF IInv, HandshakeTrue
<1>9. CountTrue' /\ TestedOwned' /\ SendsCounted'
  BY <1>1, SendsStay DEF IInv, TypeOK, CountTrue, TestedOwned
<1>10. UnqueuedOwned'
  BY <1>1, <1>2, <1>3, <1>4, <1>5, <1>6 DEF IInv, UnqueuedOwned
<1> QED BY <1>2, <1>3, <1>4, <1>5, <1>7, <1>8, <1>9, <1>10 DEF IInv

(* One packet of a flush, which marks and tests in one section.             *)
LEMMA FlushOneIInv ==
  ASSUME IInv, FlushOne
  PROVE  IInv'
<1>1. /\ pc = "flush" /\ pc' = "flush" /\ queue' = queue /\ walk' = Tail(walk)
      /\ sentCount' = sentCount - 1 /\ sentCount > 0 /\ open' = open
      /\ app' = app /\ driver' = driver /\ sending' = sending
  BY DEF FlushOne, appVars
<1>2. /\ WalkShape' /\ walk # <<>> /\ Queued(Head(walk))
      /\ \A p \in Packets : Queued(p)' <=> Queued(p) /\ p # Head(walk)
  BY FlushOneQueued
<1>3. PICK e \in Packets : e = Head(walk)
  BY <1>2, WalkHead
<1>4. /\ walk' \in Seq(Packets) /\ Len(walk') = Len(walk) - 1 /\ Len(walk) \in Nat /\ Len(queue) \in Nat
  BY <1>1, <1>2, WalkHead, LenProperties DEF IInv, TypeOK
<1>5. CountTrue' /\ TestedOwned' /\ SendsCounted' /\ sentCount' \in 0..(QueueMaximum + Writers - 1)
  <2>1. sentCount' \in 0..sentCount
    BY <1>1 DEF IInv, TypeOK
  <2> QED BY <1>1, <1>4, <2>1, SendsStay DEF IInv, TypeOK, CountTrue, TestedOwned
<1>6. e \notin free \cup app /\ (txDone[e] <=> e \notin driver)
  BY <1>2, <1>3 DEF IInv, HandshakeTrue, UnqueuedOwned
<1>7. PICK m \in [Packets -> {"FREE", "ALLOCATED", "QUEUED"}] :
        /\ m = [mark EXCEPT ![e] = "ALLOCATED"] /\ m[e] = "ALLOCATED"
        /\ \A p \in Packets : p # e => m[p] = mark[p]
  <2>1. DEFINE n == [mark EXCEPT ![e] = "ALLOCATED"]
  <2>2. n \in [Packets -> {"FREE", "ALLOCATED", "QUEUED"}]
    BY DEF IInv, TypeOK
  <2>3. n[e] = "ALLOCATED" /\ \A p \in Packets : p # e => n[p] = mark[p]
    BY DEF IInv, TypeOK
  <2> HIDE DEF n
  <2> QED BY <2>2, <2>3 DEF n
<1>8. /\ free' = IF txDone[e] THEN free \cup {e} ELSE free
      /\ mark' \in [Packets -> {"FREE", "ALLOCATED", "QUEUED"}]
      /\ txDone' \in [Packets -> BOOLEAN] /\ ~ txDone'[e]
      /\ ~ txDone[e] => mark'[e] = "ALLOCATED"
      /\ \A p \in Packets : p # e => mark'[p] = mark[p] /\ txDone'[p] = txDone[p]
  <2>1. CASE txDone[e]
    <3>1. PacketRelease(e, m)
      BY <1>3, <1>7, <2>1 DEF FlushOne
    <3>2. /\ free' = free \cup {e}
          /\ mark' \in [Packets -> {"FREE", "ALLOCATED", "QUEUED"}]
          /\ txDone' \in [Packets -> BOOLEAN] /\ txDone'[e] = FALSE
          /\ \A p \in Packets : p # e => mark'[p] = m[p] /\ txDone'[p] = txDone[p]
      BY ZenonT(60), <1>7, <3>1, ReleaseFrees DEF IInv
    <3> QED BY <1>7, <2>1, <3>2
  <2>2. CASE ~ txDone[e]
    <3>1. mark' = m /\ txDone' = txDone /\ free' = free
      BY <1>3, <1>7, <2>2 DEF FlushOne
    <3> QED BY <1>7, <2>2, <3>1 DEF IInv, TypeOK
  <2> QED BY <2>1, <2>2
<1>9. TypeOK'
  <2>1. free' \subseteq Packets
    BY <1>8 DEF IInv, TypeOK
  <2> QED BY <1>1, <1>4, <1>5, <1>8, <2>1 DEF IInv, TypeOK
<1>10. HandshakeTrue'
  BY <1>1, <1>2, <1>3, <1>8 DEF IInv, HandshakeTrue
<1>11. UnqueuedOwned'
  <2>1. CASE txDone[e]
    BY <1>1, <1>2, <1>3, <1>6, <1>8, <2>1 DEF IInv, UnqueuedOwned
  <2>2. CASE ~ txDone[e]
    BY <1>1, <1>2, <1>3, <1>6, <1>8, <2>2 DEF IInv, UnqueuedOwned
  <2> QED BY <2>1, <2>2
<1> QED BY <1>2, <1>5, <1>9, <1>10, <1>11 DEF IInv

(* Closing and reopening the socket, the beginnings of a send, stuttering.  *)
OpenMoves ==
  Close \/ Reopen \/ UNCHANGED vars \/ \E p \in Packets : Prepare(p) \/ Number(p)

(* A send that found room is one more towards the excess.                   *)
LEMMA OpenMovesCounted ==
  ASSUME IInv, OpenMoves
  PROVE  /\ sending' \in [Packets -> {"no", "prepared", "numbered", "outdated"}]
         /\ SendsCounted'
<1>1. sending \in [Packets -> {"no", "prepared", "numbered", "outdated"}] /\ sentCount' = sentCount
      /\ app' = app /\ sentCount \in Nat /\ QueueMaximum \in Nat /\ Writers \in Nat \ {0}
  BY QueueAssumption
     DEF IInv, TypeOK, OpenMoves, Close, Reopen, Prepare, Number, vars, appVars, socketVars
<1>2. CASE sending' = sending
  BY <1>1, <1>2, SendsStay
<1>3. CASE Reopen \/ \E p \in Packets : Number(p)
  <2>1. /\ sending' \in [Packets -> {"no", "prepared", "numbered", "outdated"}]
        /\ \A p \in Packets : sending'[p] = "no" <=> sending[p] = "no"
    BY <1>1, <1>3 DEF Reopen, Number, Outdated
  <2>2. Sending' = Sending
    BY <2>1 DEF Sending
  <2> QED BY <1>1, <2>1, <2>2 DEF IInv, SendsCounted
<1>4. ASSUME NEW p \in Packets, Prepare(p)
      PROVE  /\ sending' \in [Packets -> {"no", "prepared", "numbered", "outdated"}]
             /\ SendsCounted'
  <2>1. /\ sending' \in [Packets -> {"no", "prepared", "numbered", "outdated"}]
        /\ sending'[p] = "prepared" /\ \A k \in Packets : k # p => sending'[k] = sending[k]
        /\ p \in app /\ sending[p] = "no"
        /\ Cardinality(Sending) < Writers /\ sentCount < QueueMaximum
    BY <1>1, <1>4 DEF Prepare
  <2>2. Sending' = Sending \cup {p} /\ p \notin Sending /\ Sending \subseteq Packets
    BY <2>1 DEF Sending
  <2>3. Cardinality(Sending) \in Nat /\ Cardinality(Sending') = Cardinality(Sending) + 1
    BY <2>2, SendsNumber
  <2>4. \A k \in Packets : sending'[k] # "no" => k \in app'
    BY <1>1, <2>1 DEF IInv, SendsCounted
  <2> QED BY <1>1, <2>1, <2>3, <2>4 DEF SendsCounted
<1> QED BY <1>2, <1>3, <1>4 DEF OpenMoves, Close, vars, appVars

(* They touch no packet.                                                    *)
LEMMA OpenMovesIInv ==
  ASSUME IInv, OpenMoves
  PROVE  /\ IInv' /\ UNCHANGED <<mark, txDone, free, driver, app>>
         /\ Apart
<1>1. UNCHANGED <<mark, txDone, free, driver, app, sentCount, queue, pc, walk>> /\ open' \in BOOLEAN
  BY DEF OpenMoves, Close, Reopen, Prepare, Number, vars, packetVars, appVars, socketVars, ipVars,
         IInv, TypeOK
<1>2. Apart
  BY <1>1 DEF Apart, ipVars
<1>3. WalkShape' /\ \A p \in Packets : Queued(p)' <=> Queued(p)
  BY <1>2, ApartQueued DEF IInv
<1>4. TypeOK' /\ CountTrue' /\ TestedOwned' /\ SendsCounted'
  BY <1>1, OpenMovesCounted DEF IInv, TypeOK, CountTrue, TestedOwned
<1>5. HandshakeTrue'
  BY <1>1, <1>3 DEF IInv, HandshakeTrue
<1>6. UnqueuedOwned'
  BY <1>1, <1>3 DEF IInv, UnqueuedOwned
<1> QED BY <1>1, <1>2, <1>3, <1>4, <1>5, <1>6 DEF IInv

(* Every step is one of those.                                              *)
LEMMA QueueStepKinds ==
  [Next]_vars =>
    \/ \E p \in Packets : AppAllocate(p) \/ Send(p) \/ SendFails(p) \/ DriverDone(p)
    \/ WalkMoves \/ AckMark \/ AckTest \/ AckLeave \/ RetransmitOne \/ FlushOne \/ OpenMoves
BY DEF Next, IpThread, WalkMoves, OpenMoves

(* Every step keeps the invariant.                                          *)
LEMMA QueueStepIInv == IInv /\ [Next]_vars => IInv'
BY QueueStepKinds, AllocateIInv, SendIInv, SendFailsIInv, DriverIInv, WalkMovesIInv, AckMarkIInv,
   AckTestIInv, AckLeaveIInv, RetransmitOneIInv, FlushOneIInv, OpenMovesIInv

------------------------------------------------------------------------------
(* The invariant holds in every reachable state, for every set of packets   *)
(* and every depth of the transmit queue.                                   *)
THEOREM QueueInvariant == Spec => []IInv
BY InitIInv, QueueStepIInv, PTL DEF Spec

(* The transmit queue exceeds nx_tcp_socket_transmit_queue_maximum by no    *)
(* more than the writers but one, however sends, acknowledgments and        *)
(* flushes interleave: each found room once, and queues once.               *)
THEOREM QueueTypeCorrect == Spec => []TypeOK
<1>1. IInv => TypeOK
  BY DEF IInv
<1> QED BY <1>1, QueueInvariant, PTL

(* However the driver's completions fall between the steps of the ACK,      *)
(* retransmit and flush walks, NX_DRIVER_TX_DONE is in a queued packet      *)
(* exactly when the driver no longer has it.                                *)
THEOREM HandshakeStaysTrue == Spec => []HandshakeTrue
<1>1. IInv => HandshakeTrue
  BY DEF IInv
<1> QED BY <1>1, QueueInvariant, PTL

(* nx_tcp_socket_transmit_sent_count is the number of packets queued, so    *)
(* the flush, which counts, visits them all and follows no link too many.   *)
THEOREM CountStaysTrue == Spec => []CountTrue
<1>1. IInv => CountTrue
  BY DEF IInv
<1> QED BY <1>1, QueueInvariant, PTL

-----------------------------------------------------------------------------
(* The queue and the driver implement NetxSharedPacket: each step maps to   *)
(* one user taking or dropping one packet, or to a stutter.                 *)
UsersOf(p) ==
  (IF p \in app THEN {"app"} ELSE {})
    \cup (IF SocketUses(p) THEN {"socket"} ELSE {})
    \cup (IF p \in driver THEN {"driver"} ELSE {})

(* Nobody else's user changed.                                              *)
OthersKept(e) ==
  \A p \in Packets : p # e => /\ p \in app' <=> p \in app
                              /\ SocketUses(p)' <=> SocketUses(p)
                              /\ p \in driver' <=> p \in driver

(* A step that changes the users of one packet.                             *)
LEMMA OneUserChanges ==
  ASSUME NEW e \in Packets, OthersKept(e)
  PROVE  Users' = [Users EXCEPT ![e] = UsersOf(e)'] /\ Users[e] = UsersOf(e)
<1>1. Users = [p \in Packets |-> UsersOf(p)]
  BY DEF Users, UsersOf
<1>2. Users' = [p \in Packets |-> UsersOf(p)']
  BY DEF Users, UsersOf
<1>3. \A p \in Packets : p # e => UsersOf(p)' = UsersOf(p)
  BY DEF OthersKept, UsersOf
<1> QED BY <1>1, <1>2, <1>3

(* A step that changes nobody's users.                                      *)
LEMMA NoUserChanges ==
  ASSUME app' = app, driver' = driver, \A p \in Packets : SocketUses(p)' <=> SocketUses(p)
  PROVE  Users' = Users
BY DEF Users

(* Where the socket stands beside the pool, the application and the driver. *)
LEMMA SocketAlone ==
  ASSUME IInv, NEW p \in Packets
  PROVE  /\ p \in free \cup app => ~ SocketUses(p) /\ p \notin driver
         /\ p \in free => p \notin app
         /\ p \in driver /\ SocketUses(p) => Queued(p) /\ ~ txDone[p]
         /\ p \notin driver /\ SocketUses(p) => txDone[p]
BY DEF IInv, HandshakeTrue, UnqueuedOwned, TestedOwned, SocketUses

(* Nobody uses a packet of the pool at the start.                           *)
LEMMA SharedInit == Init => Shared!Init
<1> SUFFICES ASSUME Init PROVE Shared!Init
  OBVIOUS
<1>1. \A p \in Packets : ~ SocketUses(p)
  BY DEF Init, SocketUses, Queued, In
<1>2. Users = [p \in Packets |-> {}]
  BY <1>1 DEF Init, Users
<1> QED BY <1>2 DEF Init, Shared!Init

(* The application: nx_packet_allocate takes a packet nobody uses,          *)
LEMMA AllocateShares ==
  ASSUME IInv, NEW e \in Packets, AppAllocate(e)
  PROVE  Shared!Allocate(e)
<1>1. /\ e \in free /\ free' = free \ {e} /\ app' = app \cup {e} /\ driver' = driver
      /\ pc' = pc /\ walk' = walk /\ txDone' \in [Packets -> BOOLEAN] /\ ~ txDone'[e]
      /\ \A p \in Packets : p # e => txDone'[p] = txDone[p]
  BY DEF AppAllocate, ipVars, IInv, TypeOK
<1>2. \A p \in Packets : Queued(p)' <=> Queued(p)
  BY ApartQueued DEF AppAllocate, socketVars, Apart
<1>3. ~ SocketUses(e) /\ e \notin driver
  BY <1>1, SocketAlone
<1>4. OthersKept(e) /\ ~ SocketUses(e)'
  BY <1>1, <1>2, <1>3 DEF OthersKept, SocketUses
<1>5. UsersOf(e)' = {"app"}
  BY <1>1, <1>3, <1>4 DEF UsersOf
<1> QED BY <1>1, <1>4, <1>5, OneUserChanges DEF Shared!Allocate

(* and a send passes it from the application to the socket and the driver.  *)
LEMMA SendShares ==
  ASSUME IInv, NEW e \in Packets, Send(e)
  PROVE  Shared!Submit(e)
<1>1. /\ pc = "idle" /\ e \in app /\ app' = app \ {e} /\ driver' = driver \cup {e}
      /\ free' = free /\ pc' = pc
  BY DEF Send, ipVars, IInv, SendsCounted
<1>2. \A p \in Packets : Queued(p)' <=> Queued(p) \/ p = e
  BY SendQueued
<1>3. ~ SocketUses(e) /\ e \notin driver
  BY <1>1, SocketAlone
<1>4. OthersKept(e) /\ SocketUses(e)'
  BY <1>1, <1>2 DEF OthersKept, SocketUses
<1>5. UsersOf(e) = {"app"} /\ UsersOf(e)' = {"socket", "driver"}
  BY <1>1, <1>3, <1>4 DEF UsersOf
<1> QED BY <1>1, <1>4, <1>5, OneUserChanges DEF Shared!Submit

(* A send that fails keeps its packet, or drops it and it is free.          *)
LEMMA SendFailsShares ==
  ASSUME IInv, NEW e \in Packets, SendFails(e)
  PROVE  [Shared!Next]_<<Users, free>>
<1>1. /\ UNCHANGED <<driver, queue, pc, walk>> /\ pc # "ackTest" /\ e \in app
      /\ \A p \in Packets : Queued(p)' <=> Queued(p)
      /\ UNCHANGED <<txDone, free, app>> \/ (free' = free \cup {e} /\ app' = app \ {e})
  BY SendFailsIInv DEF SendFails
<1>2. \A p \in Packets : SocketUses(p)' <=> SocketUses(p)
  BY <1>1 DEF SocketUses
<1>3. CASE UNCHANGED <<txDone, free, app>>
  BY <1>1, <1>2, <1>3, NoUserChanges
<1>4. CASE free' = free \cup {e} /\ app' = app \ {e}
  <2>1. OthersKept(e)
    BY <1>1, <1>2, <1>4 DEF OthersKept
  <2>2. UsersOf(e) = {"app"} /\ UsersOf(e)' = {}
    BY <1>1, <1>2, <1>4, SocketAlone DEF UsersOf
  <2>3. Shared!Drop(e, "app")
    BY <1>4, <2>1, <2>2, OneUserChanges DEF Shared!Drop
  <2> QED BY <2>3 DEF Shared!Next
<1> QED BY <1>1, <1>3, <1>4

(* The driver's completion drops the driver, and frees the packet when the  *)
(* socket had dropped it before.                                            *)
LEMMA DriverShares ==
  ASSUME IInv, NEW e \in Packets, DriverDone(e)
  PROVE  Shared!Drop(e, "driver")
<1>1. /\ e \in driver /\ driver' = driver \ {e} /\ app' = app /\ pc' = pc /\ walk' = walk
  BY DEF DriverDone, appVars, ipVars
<1>2. \A p \in Packets : Queued(p)' <=> Queued(p)
  BY ApartQueued DEF DriverDone, socketVars, Apart
<1>3. e \notin app /\ (SocketUses(e) <=> Queued(e))
  BY <1>1, SocketAlone DEF SocketUses
<1>4. /\ free' = IF Queued(e) THEN free ELSE free \cup {e}
      /\ ~ Queued(e) => txDone'[e] = FALSE
      /\ \A p \in Packets : p # e => txDone'[p] = txDone[p]
  BY DriverMarks DEF PacketRelease, IInv, TypeOK
<1>5. OthersKept(e) /\ (SocketUses(e)' <=> Queued(e))
  BY <1>1, <1>2, <1>3, <1>4 DEF OthersKept, SocketUses
<1>6. UsersOf(e) = {"driver"} \cup UsersOf(e)' /\ "driver" \notin UsersOf(e)'
      /\ (UsersOf(e)' = {} <=> ~ Queued(e))
  BY <1>1, <1>3, <1>5 DEF UsersOf
<1>7. UsersOf(e)' = UsersOf(e) \ {"driver"} /\ (UsersOf(e) = {"driver"} <=> ~ Queued(e))
  BY <1>6
<1> QED BY <1>4, <1>5, <1>6, <1>7, OneUserChanges DEF Shared!Drop

(* The mark of an acknowledged packet drops the socket if the driver still  *)
(* has the packet; otherwise the socket is its last user until the test.    *)
LEMMA AckMarkShares ==
  ASSUME IInv, AckMark
  PROVE  [Shared!Next]_<<Users, free>>
<1>1. /\ pc = "ackMark" /\ pc' = "ackTest" /\ walk # <<>> /\ walk' = walk
      /\ txDone' = txDone /\ free' = free /\ driver' = driver /\ app' = app
  BY DEF AckMark, appVars
<1>2. PICK e \in Packets : e = Head(walk)
  BY <1>1, WalkHead
<1>3. Queued(e) /\ \A p \in Packets : Queued(p)' <=> Queued(p) /\ p # e
  BY <1>2, AckMarkQueued
<1>4. \A p \in Packets : SocketUses(p) <=> Queued(p)
  BY <1>1 DEF SocketUses
<1>5. \A p \in Packets : SocketUses(p)' <=> Queued(p) /\ (p = e => txDone[e])
  BY <1>1, <1>2, <1>3 DEF SocketUses
<1>6. CASE txDone[e]
  BY <1>1, <1>4, <1>5, <1>6, NoUserChanges
<1>7. CASE ~ txDone[e]
  <2>1. e \in driver /\ e \notin app /\ SocketUses(e) /\ ~ SocketUses(e)'
    BY <1>3, <1>4, <1>5, <1>7, SocketAlone
  <2>2. OthersKept(e)
    BY <1>1, <1>4, <1>5 DEF OthersKept
  <2>3. UsersOf(e) = {"socket", "driver"} /\ UsersOf(e)' = {"driver"}
    BY <1>1, <2>1 DEF UsersOf
  <2>4. Shared!Drop(e, "socket")
    BY <1>1, <2>2, <2>3, OneUserChanges DEF Shared!Drop
  <2> QED BY <2>4 DEF Shared!Next
<1> QED BY <1>6, <1>7

(* The test releases a packet whose last user is the socket.                *)
LEMMA AckTestShares ==
  ASSUME IInv, AckTest
  PROVE  [Shared!Next]_<<Users, free>>
<1>1. /\ pc = "ackTest" /\ pc' \in {"ackMark", "ackLeave"} /\ app' = app /\ driver' = driver
  BY DEF AckTest, appVars
<1>2. walk # <<>> /\ ~ Queued(Head(walk)) /\ \A p \in Packets : Queued(p)' <=> Queued(p)
  BY AckTestQueued
<1>3. PICK e \in Packets : e = Head(walk)
  BY <1>2, WalkHead
<1>4. \A p \in Packets : /\ SocketUses(p) <=> Queued(p) \/ (p = e /\ txDone[e])
                         /\ SocketUses(p)' <=> Queued(p)
  BY <1>1, <1>2, <1>3 DEF SocketUses
<1>5. CASE txDone[e]
  <2>1. mark[e] = "ALLOCATED" /\ e \notin driver \cup app /\ PacketRelease(e, mark)
    BY <1>1, <1>3, <1>5 DEF AckTest, IInv, TestedOwned
  <2>2. free' = free \cup {e}
    BY <2>1 DEF PacketRelease
  <2>3. OthersKept(e) /\ SocketUses(e) /\ ~ SocketUses(e)'
    BY <1>1, <1>2, <1>3, <1>4, <1>5 DEF OthersKept
  <2>4. UsersOf(e) = {"socket"} /\ UsersOf(e)' = {}
    BY <1>1, <2>1, <2>3 DEF UsersOf
  <2>5. Shared!Drop(e, "socket")
    BY <1>3, <2>2, <2>3, <2>4, OneUserChanges DEF Shared!Drop
  <2> QED BY <2>5 DEF Shared!Next
<1>6. CASE ~ txDone[e]
  BY <1>1, <1>3, <1>4, <1>6, NoUserChanges DEF AckTest
<1> QED BY <1>5, <1>6

(* A packet left to the driver has lost the socket at its mark.             *)
LEMMA AckLeaveShares == ASSUME IInv, AckLeave PROVE UNCHANGED <<Users, free>>
<1>1. pc = "ackLeave" /\ pc' = "ackMark" /\ app' = app /\ driver' = driver /\ free' = free
  BY DEF AckLeave, appVars
<1>2. \A p \in Packets : SocketUses(p)' <=> SocketUses(p)
  BY <1>1, AckTestQueued DEF SocketUses
<1> QED BY <1>1, <1>2, NoUserChanges

(* A retransmission gives a packet of the socket to the driver once more.   *)
LEMMA RetransmitShares ==
  ASSUME IInv, RetransmitOne
  PROVE  [Shared!Next]_<<Users, free>>
<1>1. /\ pc = "retransmit" /\ pc' = "retransmit" /\ app' = app /\ free' = free
      /\ driver' = driver \cup {Head(walk)}
  BY DEF RetransmitOne, appVars
<1>2. PICK e \in Packets : e = Head(walk)
  BY RetransmitOneIInv
<1>3. Queued(e) /\ e \notin driver /\ \A p \in Packets : Queued(p)' <=> Queued(p)
  BY <1>2, RetransmitOneIInv
<1>4. \A p \in Packets : (SocketUses(p) <=> Queued(p)) /\ (SocketUses(p)' <=> Queued(p))
  BY <1>1, <1>3 DEF SocketUses
<1>5. e \notin app /\ OthersKept(e)
  BY <1>1, <1>2, <1>3, <1>4, SocketAlone DEF OthersKept
<1>6. UsersOf(e) = {"socket"} /\ UsersOf(e)' = {"socket", "driver"}
  BY <1>1, <1>2, <1>3, <1>4, <1>5 DEF UsersOf
<1>7. Shared!Resend(e)
  BY <1>1, <1>5, <1>6, OneUserChanges DEF Shared!Resend
<1> QED BY <1>7 DEF Shared!Next

(* A flush drops the socket, and frees what the driver is done with.        *)
LEMMA FlushShares ==
  ASSUME IInv, FlushOne
  PROVE  [Shared!Next]_<<Users, free>>
<1>1. pc = "flush" /\ pc' = "flush" /\ app' = app /\ driver' = driver
  BY DEF FlushOne, appVars
<1>2. PICK e \in Packets : e = Head(walk)
  BY FlushOneQueued
<1>3. Queued(e) /\ \A p \in Packets : Queued(p)' <=> Queued(p) /\ p # e
  BY <1>2, FlushOneQueued
<1>4. \A p \in Packets : (SocketUses(p) <=> Queued(p)) /\ (SocketUses(p)' <=> Queued(p) /\ p # e)
  BY <1>1, <1>3 DEF SocketUses
<1>5. e \notin app /\ (txDone[e] <=> e \notin driver) /\ OthersKept(e)
  BY <1>1, <1>3, <1>4 DEF IInv, HandshakeTrue, UnqueuedOwned, OthersKept
<1>6. free' = IF txDone[e] THEN free \cup {e} ELSE free
  BY <1>2 DEF FlushOne, PacketRelease, IInv, TypeOK
<1>7. /\ UsersOf(e) = {"socket"} \cup UsersOf(e)' /\ "socket" \notin UsersOf(e)'
      /\ UsersOf(e)' = {} <=> txDone[e]
  BY <1>1, <1>3, <1>4, <1>5 DEF UsersOf
<1>8. UsersOf(e)' = UsersOf(e) \ {"socket"} /\ (UsersOf(e) = {"socket"} <=> txDone[e])
  BY <1>7
<1>9. Shared!Drop(e, "socket")
  BY <1>5, <1>6, <1>7, <1>8, OneUserChanges DEF Shared!Drop
<1> QED BY <1>9 DEF Shared!Next

(* No other step changes who uses a packet.                                 *)
LEMMA OthersShare == ASSUME IInv, WalkMoves \/ OpenMoves PROVE UNCHANGED <<Users, free>>
<1>1. CASE WalkMoves
  <2>1. app' = app /\ driver' = driver /\ free' = free /\ pc # "ackTest" /\ pc' # "ackTest"
    BY <1>1, WalkMovesIInv
    DEF packetVars, WalkMoves, AckStart, RetransmitStart, RetransmitEnd, FlushStart, WalkEnd, appVars
  <2>2. \A p \in Packets : SocketUses(p)' <=> SocketUses(p)
    BY <1>1, <2>1, WalkMovesIInv DEF SocketUses
  <2> QED BY <2>1, <2>2, NoUserChanges
<1>2. CASE OpenMoves
  <2>1. /\ app' = app /\ driver' = driver /\ free' = free /\ txDone' = txDone
        /\ pc' = pc /\ walk' = walk /\ \A p \in Packets : Queued(p)' <=> Queued(p)
    BY <1>2, OpenMovesIInv, ApartQueued DEF Apart, ipVars
  <2>2. \A p \in Packets : SocketUses(p)' <=> SocketUses(p)
    BY <2>1 DEF SocketUses
  <2> QED BY <2>1, <2>2, NoUserChanges
<1> QED BY <1>1, <1>2

(* Every step is a step of the sharing, or a stutter.                       *)
LEMMA SharedStep == IInv /\ [Next]_vars => [Shared!Next]_<<Users, free>>
<1> SUFFICES ASSUME IInv, [Next]_vars PROVE [Shared!Next]_<<Users, free>>
  OBVIOUS
<1>1. ASSUME NEW p \in Packets, AppAllocate(p) \/ Send(p) \/ DriverDone(p) PROVE Shared!Next
  BY <1>1, AllocateShares, SendShares, DriverShares DEF Shared!Next
<1> QED
  BY <1>1, QueueStepKinds, SendFailsShares, AckMarkShares, AckTestShares, AckLeaveShares,
     RetransmitShares, FlushShares, OthersShare

(* A packet goes back to the pool with its last user, be that the ACK, the  *)
(* flush or the driver's completion, and never while another still has it.  *)
THEOREM LastUserIsReleaser == Spec => LastUserFrees
<1> QED BY QueueInvariant, SharedInit, SharedStep, PTL DEF Spec, LastUserFrees, Shared!Spec

-----------------------------------------------------------------------------
(***************************************************************************)
(* Proofs about the Wi-Fi driver's table of module sockets, for any TCP    *)
(* and UDP sockets, ports and size of the table: a socket's slot is its    *)
(* own, the module has a connection exactly where a socket has one, and a  *)
(* listening socket has a server.                                          *)
(*                                                                         *)
(* They are about listen requests with a callback, services that wait for  *)
(* the disconnect, clients that do not use a server's port, and a table    *)
(* that does not overflow.  Without the first three the properties are     *)
(* false; without the last a UDP bind is undone in somebody else's slot.   *)
(* They hold until accept writes LISTEN over a socket that has gone on, and *)
(* so for ever where accept is not given a time to wait.                   *)
(***************************************************************************)
CONSTANTS
  Tcp, Udp, None, SlotCount, ClientPorts, ServerPorts, ListenCallback, OpenMayFail,
  AcceptWaits, Early
VARIABLES slot, context, state, port, bound, request, accept, struck, link, server, pending

Wifi == INSTANCE NetxWifiOffload

Plain == ListenCallback /\ Early = {} /\ ClientPorts \cap ServerPorts = {}
(* Only a UDP bind on a full table does harm; the slots a refused connect   *)
(* leaves behind could fill it.                                             *)
Room ==
  \/ Udp = {}
  \/ /\ ~ OpenMayFail /\ IsFiniteSet(Wifi!Sockets) /\ IsFiniteSet(ServerPorts)
     /\ SlotCount >= Cardinality(Wifi!Sockets) + Cardinality(ServerPorts)
Given == Wifi!OffloadAssumption /\ Plain /\ Room

-----------------------------------------------------------------------------
(* The inductive invariant.  A free slot has no server's port, no server    *)
(* and no connection, so no search by port finds it.                        *)
InUse(i) == slot[i].owner # None
FreeSlots ==
  \A i \in Wifi!Slots : ~ InUse(i) =>
    slot[i].lport \notin ServerPorts /\ ~ slot[i].conn /\ ~ server[i] /\ link[i] = "none"
(* The slots with a server's port are those where the module listens, each  *)
(* for a request; one marked connected is the slot of an established socket.*)
ServerSlots ==
  \A i \in Wifi!Slots :
    /\ InUse(i) /\ slot[i].lport \in ServerPorts =>
         /\ slot[i].proto = "TCP" /\ ~ slot[i].client /\ server[i]
         /\ request[slot[i].lport] # Wifi!NoRequest /\ slot[i].owner \in Tcp
    /\ server[i] => slot[i].lport \in ServerPorts
    /\ pending[i] => server[i] /\ link[i] = "none"
    /\ slot[i].conn => /\ slot[i].owner \in Tcp /\ context[slot[i].owner] = i
                       /\ state[slot[i].owner] = "ESTABLISHED"
                       /\ slot[i].lport \in ServerPorts
(* A request has one slot.                                                  *)
OneSlotEach ==
  \A i, j \in Wifi!Slots : slot[i].lport = slot[j].lport /\ slot[i].lport \in ServerPorts => i = j
RequestServed ==
  \A p \in ServerPorts : request[p] # Wifi!NoRequest => \E i \in Wifi!Slots : InUse(i) /\ slot[i].lport = p
(* A listening socket, a connected one and a bound UDP socket own the slot  *)
(* they remember.                                                           *)
Listeners ==
  /\ \A p \in ServerPorts : request[p] \in Tcp => Wifi!Listening(request[p]) /\ port[request[p]] = p
  /\ \A s \in Tcp : Wifi!Listening(s) =>
       /\ ~ bound[s] /\ port[s] \in ServerPorts /\ request[port[s]] = s
       /\ slot[context[s]].owner = s /\ slot[context[s]].lport = port[s]
       /\ ~ slot[context[s]].conn /\ link[context[s]] = "none"
Connections ==
  \A s \in Tcp : Wifi!Connected(s) =>
    /\ slot[context[s]].owner = s /\ slot[context[s]].proto = "TCP"
    /\ slot[context[s]].lport = port[s] /\ slot[context[s]].rport = 1
    /\ link[context[s]] # "none"
    /\ IF bound[s]
         THEN /\ port[s] \in ServerPorts /\ request[port[s]] = None
              /\ state[s] = "ESTABLISHED" => slot[context[s]].conn
         ELSE port[s] \in ClientPorts /\ slot[context[s]].client
UdpUsers ==
  \A u \in Udp : bound[u] =>
    /\ slot[context[u]].owner = u /\ slot[context[u]].lport \notin ServerPorts
    /\ slot[context[u]].rport = 0 <=> link[context[u]] = "none"
(* The owner of a slot uses it, unless it was refused or its request still  *)
(* stands; a connection of the module has a user.                           *)
Owners ==
  \A i \in Wifi!Slots :
    /\ slot[i].owner \in Udp => bound[slot[i].owner] /\ context[slot[i].owner] = i
    /\ slot[i].owner \in Tcp /\ slot[i].lport \notin ServerPorts /\ ~ OpenMayFail =>
          Wifi!Connected(slot[i].owner) /\ context[slot[i].owner] = i
Links ==
  \A i \in Wifi!Slots : link[i] # "none" => \E s \in Wifi!Sockets : Wifi!Uses(s, i)
ClosedKnown == \A s \in Tcp : state[s] = "CLOSE_WAIT" => link[context[s]] = "closed by peer"
Rest ==
  /\ FreeSlots /\ ServerSlots /\ OneSlotEach /\ RequestServed /\ Listeners
  /\ Connections /\ UdpUsers /\ Owners /\ Links /\ ClosedKnown
WifiInv == Wifi!TypeOK /\ Rest

(* Without a time to wait no thread stays in accept.                        *)
NeverWaits == ~ struck /\ \A s \in Tcp : accept[s] = "none"

(* What is left when accept's write has met a socket that had gone on.      *)
RequestsListen ==
  \A p \in ServerPorts : request[p] \in Tcp =>
    Wifi!Listening(request[p]) /\ ~ bound[request[p]] /\ port[request[p]] = p
OffloadInv ==
  Wifi!TypeOK /\ RequestsListen /\ (~ struck => Rest) /\ (~ AcceptWaits => NeverWaits)

SlotRecords == [owner : Wifi!Sockets \cup {None}, proto : {"none", "TCP", "UDP"},
                lport : Wifi!Ports \cup {0}, rport : {0, 1}, conn : BOOLEAN, client : BOOLEAN]

-----------------------------------------------------------------------------
(* A loop over the slots that ends at the first one of a set ends at one of *)
(* the set, unless it is empty.                                             *)
LEMMA FirstIs ==
  ASSUME Wifi!OffloadAssumption, NEW S \in SUBSET Wifi!Slots
  PROVE  IF S = {} THEN Wifi!First(S) = SlotCount ELSE Wifi!First(S) \in S
<1>1. CASE S = {} BY <1>1 DEF Wifi!First
<1>2. CASE S # {}
  <2>1. S \subseteq Nat BY DEF Wifi!Slots, Wifi!OffloadAssumption
  <2>2. PICK x \in S : \A y \in S : ~ (<<y, x>> \in OpToRel(<, Nat))
    <3>1. IsWellFoundedOn(OpToRel(<,Nat), Nat) BY NatLessThanWellFounded
    <3> QED BY <1>2, <2>1, <3>1, WFMin
  <2>3. \A y \in S : x <= y
    <3> SUFFICES ASSUME NEW y \in S PROVE x <= y
      OBVIOUS
    <3>1. x \in Nat /\ y \in Nat BY <2>1
    <3>2. ~ (y < x) BY <2>2, <3>1 DEF OpToRel
    <3> QED BY <3>1, <3>2
  <2>4. Wifi!First(S) = CHOOSE i \in S : \A j \in S : i <= j BY <1>2 DEF Wifi!First
  <2> QED BY <1>2, <2>3, <2>4
<1> QED BY <1>1, <1>2

(* The handler's search for a free slot finds one unless all are in use,    *)
LEMMA FreeSlotIs ==
  ASSUME Wifi!OffloadAssumption
  PROVE  IF Wifi!FreeSlot = SlotCount THEN \A i \in Wifi!Slots : InUse(i)
         ELSE Wifi!FreeSlot \in Wifi!Slots /\ ~ InUse(Wifi!FreeSlot)
<1> DEFINE S == {i \in Wifi!Slots : slot[i].owner = None}
<1>1. Wifi!FreeSlot = Wifi!First(S) BY DEF Wifi!FreeSlot
<1>2. SlotCount \notin Wifi!Slots BY DEF Wifi!Slots, Wifi!OffloadAssumption
<1>3. IF S = {} THEN Wifi!First(S) = SlotCount ELSE Wifi!First(S) \in S BY FirstIs
<1> QED BY <1>1, <1>2, <1>3 DEF InUse

(* and its search for the slot of a server's port finds one in use, unless  *)
(* no slot has the port: a free slot has none.                              *)
LEMMA TcpSlotIs ==
  ASSUME Wifi!OffloadAssumption, WifiInv, NEW p \in ServerPorts
  PROVE  LET d == Wifi!TcpSlot(slot, p)
         IN IF d = SlotCount THEN \A i \in Wifi!Slots : slot[i].lport # p
            ELSE d \in Wifi!Slots /\ slot[d].lport = p /\ InUse(d)
<1> DEFINE S == {i \in Wifi!Slots : slot[i].lport = p /\ slot[i].proto = "TCP"}
<1>1. Wifi!TcpSlot(slot, p) = Wifi!First(S) BY DEF Wifi!TcpSlot
<1>2. SlotCount \notin Wifi!Slots BY DEF Wifi!Slots, Wifi!OffloadAssumption
<1>3. IF S = {} THEN Wifi!First(S) = SlotCount ELSE Wifi!First(S) \in S BY FirstIs
<1>4. \A i \in Wifi!Slots : slot[i].lport = p => InUse(i) /\ slot[i].proto = "TCP"
  BY DEF WifiInv, Rest, FreeSlots, ServerSlots
<1> QED BY <1>1, <1>2, <1>3, <1>4

(* What the assumption says of sockets, ports and slots.                    *)
LEMMA Names ==
  ASSUME Given, Wifi!TypeOK
  PROVE  /\ \A t \in Wifi!Sockets : t # None /\ t # Wifi!NoRequest /\ context[t] \in Wifi!Slots
         /\ \A t \in Tcp : t \in Wifi!Sockets /\ t \notin Udp
         /\ \A u \in Udp : u \in Wifi!Sockets /\ u \notin Tcp
         /\ \A p \in ServerPorts : p \notin ClientPorts /\ p # 0
         /\ \A p \in ClientPorts : p \notin ServerPorts /\ p # 0
         /\ 0 \notin ServerPorts /\ None # Wifi!NoRequest
         /\ slot \in [Wifi!Slots -> SlotRecords]
BY DEF Wifi!TypeOK, Given, Wifi!OffloadAssumption, Plain, Wifi!Sockets, Wifi!Ports, SlotRecords

(* What the invariant says of the slot a connected or listening socket, or  *)
(* a bound UDP socket, remembers: it owns it.                               *)
LEMMA OwnSlots ==
  ASSUME Given, WifiInv
  PROVE  /\ \A t \in Tcp : Wifi!Connected(t) =>
              /\ context[t] \in Wifi!Slots /\ slot[context[t]].owner = t
              /\ slot[context[t]].rport = 1 /\ slot[context[t]].lport = port[t]
              /\ link[context[t]] # "none"
              /\ bound[t] => /\ port[t] \in ServerPorts /\ request[port[t]] = None
                             /\ ~ slot[context[t]].client
                             /\ state[t] = "ESTABLISHED" => slot[context[t]].conn
              /\ ~ bound[t] => port[t] \in ClientPorts /\ slot[context[t]].client
         /\ \A t \in Tcp : Wifi!Listening(t) =>
              /\ context[t] \in Wifi!Slots /\ slot[context[t]].owner = t
              /\ slot[context[t]].lport = port[t] /\ port[t] \in ServerPorts
              /\ request[port[t]] = t /\ ~ bound[t] /\ link[context[t]] = "none"
              /\ ~ slot[context[t]].conn
         /\ \A u \in Udp : bound[u] =>
              /\ context[u] \in Wifi!Slots /\ slot[context[u]].owner = u
              /\ slot[context[u]].lport \notin ServerPorts
              /\ (slot[context[u]].rport = 0 <=> link[context[u]] = "none")
<1>1. \A t \in Wifi!Sockets : t # None /\ context[t] \in Wifi!Slots
  BY Names DEF WifiInv
<1>2. ASSUME NEW t \in Tcp, Wifi!Connected(t)
      PROVE  /\ context[t] \in Wifi!Slots /\ slot[context[t]].owner = t
             /\ slot[context[t]].rport = 1 /\ slot[context[t]].lport = port[t]
             /\ link[context[t]] # "none"
             /\ bound[t] => /\ port[t] \in ServerPorts /\ request[port[t]] = None
                            /\ ~ slot[context[t]].client
                            /\ state[t] = "ESTABLISHED" => slot[context[t]].conn
             /\ ~ bound[t] => port[t] \in ClientPorts /\ slot[context[t]].client
  <2>1. context[t] \in Wifi!Slots /\ t # None BY <1>1 DEF Wifi!Sockets
  <2>2. slot[context[t]].owner = t /\ slot[context[t]].rport = 1
        /\ slot[context[t]].lport = port[t] /\ link[context[t]] # "none"
    BY <1>2 DEF WifiInv, Rest, Connections
  <2>3. CASE bound[t]
    <3>1. /\ port[t] \in ServerPorts /\ request[port[t]] = None
          /\ state[t] = "ESTABLISHED" => slot[context[t]].conn
      BY <1>2, <2>3 DEF WifiInv, Rest, Connections
    <3>2. ~ slot[context[t]].client
      BY <2>1, <2>2, <3>1 DEF WifiInv, Rest, ServerSlots, InUse
    <3> QED BY <2>1, <2>2, <2>3, <3>1, <3>2
  <2>4. CASE ~ bound[t]
    <3>1. port[t] \in ClientPorts /\ slot[context[t]].client
      BY <1>2, <2>4 DEF WifiInv, Rest, Connections
    <3> QED BY <2>1, <2>2, <2>4, <3>1
  <2> QED BY <2>3, <2>4
<1>3. ASSUME NEW t \in Tcp, Wifi!Listening(t)
      PROVE  /\ context[t] \in Wifi!Slots /\ slot[context[t]].owner = t
             /\ slot[context[t]].lport = port[t] /\ port[t] \in ServerPorts
             /\ request[port[t]] = t /\ ~ bound[t] /\ link[context[t]] = "none"
             /\ ~ slot[context[t]].conn
  BY <1>1, <1>3 DEF WifiInv, Rest, Listeners, Wifi!Sockets
<1>4. ASSUME NEW u \in Udp, bound[u]
      PROVE  /\ context[u] \in Wifi!Slots /\ slot[context[u]].owner = u
             /\ slot[context[u]].lport \notin ServerPorts
             /\ (slot[context[u]].rport = 0 <=> link[context[u]] = "none")
  BY <1>1, <1>4 DEF WifiInv, Rest, UdpUsers, Wifi!Sockets
<1> QED BY <1>2, <1>3, <1>4

(* A TCP socket whose slot has a connection of the module is connected, and *)
(* remembers the slot.                                                      *)
LEMMA LinkedTo ==
  ASSUME Given, WifiInv, NEW i \in Wifi!Slots, link[i] # "none", slot[i].owner \in Tcp
  PROVE  context[slot[i].owner] = i /\ Wifi!Connected(slot[i].owner)
<1>1. PICK t \in Wifi!Sockets : Wifi!Uses(t, i) BY DEF WifiInv, Rest, Links
<1>2. CASE t \in Tcp BY <1>1, <1>2, OwnSlots DEF Wifi!Uses
<1>3. CASE t \in Udp
  <2>1. slot[i].owner = t BY <1>1, <1>3, OwnSlots DEF Wifi!Uses
  <2> QED BY <1>3, <2>1, Names DEF WifiInv
<1> QED BY <1>2, <1>3 DEF Wifi!Sockets

(* A UDP socket that binds finds a free slot: of the slots in use, those    *)
(* with a server's port have a port each, and the others an owner each, who *)
(* is not the one that binds.                                               *)
LEMMA RoomForUdp ==
  ASSUME Given, WifiInv, NEW u \in Udp, ~ bound[u]
  PROVE  Wifi!FreeSlot \in Wifi!Slots /\ ~ InUse(Wifi!FreeSlot)
<1> SUFFICES ASSUME Wifi!FreeSlot = SlotCount PROVE FALSE
  BY FreeSlotIs DEF Given
<1>1. \A i \in Wifi!Slots : InUse(i)
  BY FreeSlotIs DEF Given
<1>2. /\ ~ OpenMayFail /\ IsFiniteSet(Wifi!Sockets) /\ IsFiniteSet(ServerPorts)
      /\ SlotCount >= Cardinality(Wifi!Sockets) + Cardinality(ServerPorts)
  BY DEF Given, Room
<1>3. slot \in [Wifi!Slots -> SlotRecords] /\ u \in Wifi!Sockets /\ \A t \in Udp : t \notin Tcp
  BY Names DEF WifiInv
<1> DEFINE A == {i \in Wifi!Slots : slot[i].lport \in ServerPorts}
           B == Wifi!Slots \ A
           users == Wifi!Sockets \ {u}
           a == [i \in A |-> slot[i].lport]
           b == [i \in B |-> slot[i].owner]
<1>4. SlotCount \in Nat /\ Wifi!Slots = 0..(SlotCount - 1)
  BY DEF Given, Wifi!OffloadAssumption, Wifi!Slots
<1>5. IsFiniteSet(Wifi!Slots) /\ Cardinality(Wifi!Slots) = SlotCount
  BY <1>4, FS_Interval
<1>6. a \in Injection(A, ServerPorts)
  <2>1. \A i, j \in A : a[i] = a[j] => i = j
    BY DEF WifiInv, Rest, OneSlotEach
  <2>2. a \in [A -> ServerPorts] OBVIOUS
  <2> QED BY <2>1, <2>2 DEF Injection, IsInjective
<1>7. b \in Injection(B, users)
  <2>1. ASSUME NEW i \in B PROVE b[i] \in users /\ context[b[i]] = i
    <3>1. slot[i].owner \in Wifi!Sockets
      BY <1>1, <1>3 DEF InUse, SlotRecords
    <3>2. CASE slot[i].owner \in Udp
      <4>1. bound[slot[i].owner] /\ context[slot[i].owner] = i
        BY <3>2 DEF WifiInv, Rest, Owners
      <4> QED BY <3>1, <4>1
    <3>3. CASE slot[i].owner \in Tcp
      <4>1. context[slot[i].owner] = i
        BY <1>2, <3>3 DEF WifiInv, Rest, Owners
      <4> QED BY <1>3, <3>1, <3>3, <4>1
    <3> QED BY <3>1, <3>2, <3>3 DEF Wifi!Sockets
  <2>2. b \in [B -> users] BY <2>1
  <2>3. \A i, j \in B : b[i] = b[j] => i = j BY <2>1
  <2> HIDE DEF b, users
  <2> QED BY <2>2, <2>3 DEF Injection, IsInjective
<1>8. IsFiniteSet(users) /\ Cardinality(users) = Cardinality(Wifi!Sockets) - 1
  BY <1>2, <1>3, FS_RemoveElement
<1> HIDE DEF a, b, users
<1>9. Cardinality(A) <= Cardinality(ServerPorts) /\ IsFiniteSet(A)
  BY <1>2, <1>6, FS_Injection
<1>10. Cardinality(B) <= Cardinality(users) /\ IsFiniteSet(B)
  BY <1>7, <1>8, FS_Injection
<1>11. Cardinality(B) = Cardinality(Wifi!Slots) - Cardinality(A)
  <2>1. Wifi!Slots \cap A = A OBVIOUS
  <2> QED BY <1>5, <2>1, FS_Difference
<1>12. /\ Cardinality(A) \in Nat /\ Cardinality(ServerPorts) \in Nat
       /\ Cardinality(Wifi!Sockets) \in Nat
  BY <1>2, <1>9, FS_CardinalityType
<1> QED BY <1>2, <1>4, <1>5, <1>8, <1>9, <1>10, <1>11, <1>12

-----------------------------------------------------------------------------
(* A service that the driver or the module refuses leaves the table as it   *)
(* was, or the socket's name in a free slot.                                *)
LEMMA RefusedKeeps ==
  ASSUME Given, WifiInv, Wifi!TypeOK', NEW s \in Tcp, NEW i \in Wifi!Slots,
         state[s] = "CLOSED", ~ bound[s],
         \/ UNCHANGED slot
         \/ slot' = [slot EXCEPT ![i].owner = s] /\ ~ InUse(i) /\ OpenMayFail,
         context' = [context EXCEPT ![s] = i],
         \A t \in Tcp \ {s} : port'[t] = port[t],
         UNCHANGED <<state, bound, request, link, server, pending>>
  PROVE  Rest'
<1>1. /\ \A t \in Wifi!Sockets : t # None /\ t # Wifi!NoRequest /\ context[t] \in Wifi!Slots
      /\ \A t \in Tcp : t \in Wifi!Sockets /\ t \notin Udp
      /\ \A v \in Udp : v \in Wifi!Sockets /\ v \notin Tcp
      /\ slot \in [Wifi!Slots -> SlotRecords]
  BY Names DEF WifiInv
<1>2. \A t \in Wifi!Sockets \ {s} : context'[t] = context[t]
  BY DEF WifiInv, Wifi!TypeOK
<1>3. /\ state' = state /\ bound' = bound /\ request' = request
      /\ link' = link /\ server' = server /\ pending' = pending
  OBVIOUS
<1>4. /\ \A j \in Wifi!Slots : slot'[j].lport = slot[j].lport /\ slot'[j].rport = slot[j].rport
      /\ \A j \in Wifi!Slots : slot'[j].proto = slot[j].proto
  BY <1>1 DEF SlotRecords
<1>5. \A j \in Wifi!Slots : slot'[j].conn = slot[j].conn /\ slot'[j].client = slot[j].client
  BY <1>1 DEF SlotRecords
<1>6. \A j \in Wifi!Slots :
        \/ slot'[j].owner = slot[j].owner
        \/ slot'[j].owner = s /\ ~ InUse(j) /\ OpenMayFail
  BY <1>1 DEF SlotRecords
<1>7. ~ Wifi!Connected(s) /\ ~ Wifi!Listening(s)
  BY DEF Wifi!Connected, Wifi!Listening
<1>8. \A t \in Tcp : (Wifi!Connected(t)' <=> Wifi!Connected(t)) /\ (Wifi!Listening(t)' <=> Wifi!Listening(t))
  BY <1>3 DEF Wifi!Connected, Wifi!Listening
<1>9. \A j \in Wifi!Slots : ~ InUse(j) =>
        slot[j].lport \notin ServerPorts /\ ~ slot[j].conn
  BY DEF WifiInv, Rest, FreeSlots
<1>10. \A j \in Wifi!Slots : InUse(j) => slot'[j].owner = slot[j].owner
  BY <1>6
<1>11. FreeSlots'
  BY <1>1, <1>3, <1>4, <1>5, <1>6 DEF WifiInv, Rest, FreeSlots, InUse
<1>12. ServerSlots'
  <2>1. ASSUME NEW j \in Wifi!Slots, InUse(j)', slot'[j].lport \in ServerPorts
        PROVE  /\ slot'[j].proto = "TCP" /\ ~ slot'[j].client /\ server'[j]
               /\ request'[slot'[j].lport] # Wifi!NoRequest /\ slot'[j].owner \in Tcp
    BY <1>3, <1>4, <1>5, <1>9, <1>10, <2>1 DEF WifiInv, Rest, ServerSlots
  <2>2. ASSUME NEW j \in Wifi!Slots
        PROVE  /\ server'[j] => slot'[j].lport \in ServerPorts
               /\ pending'[j] => server'[j] /\ link'[j] = "none"
    BY <1>3, <1>4 DEF WifiInv, Rest, ServerSlots
  <2>3. ASSUME NEW j \in Wifi!Slots, slot'[j].conn
        PROVE /\ slot'[j].owner \in Tcp /\ context'[slot'[j].owner] = j
              /\ state'[slot'[j].owner] = "ESTABLISHED"
              /\ slot'[j].lport \in ServerPorts
    <3>1. slot[j].conn /\ InUse(j) BY <1>5, <1>9, <2>3
    <3>2. slot'[j].owner = slot[j].owner BY <1>10, <3>1
    <3>3. /\ slot[j].owner \in Tcp /\ context[slot[j].owner] = j
          /\ state[slot[j].owner] = "ESTABLISHED" /\ slot[j].lport \in ServerPorts
      BY <3>1 DEF WifiInv, Rest, ServerSlots
    <3>4. slot[j].owner # s BY <3>3
    <3> QED BY <1>1, <1>2, <1>3, <1>4, <3>2, <3>3, <3>4
  <2> QED BY <2>1, <2>2, <2>3 DEF ServerSlots
<1>13. OneSlotEach'
  BY <1>4 DEF WifiInv, Rest, OneSlotEach
<1>14. RequestServed'
  BY <1>1, <1>3, <1>4, <1>6 DEF WifiInv, Rest, RequestServed, InUse
<1>15. Listeners'
  <2>1. ASSUME NEW q \in ServerPorts, request'[q] \in Tcp
        PROVE  Wifi!Listening(request[q])' /\ port'[request'[q]] = q
    <3>1. request[q] \in Tcp /\ Wifi!Listening(request[q]) /\ port[request[q]] = q
      BY <1>3, <2>1 DEF WifiInv, Rest, Listeners
    <3>2. request[q] # s BY <1>7, <3>1
    <3> QED BY <1>3, <3>1, <3>2 DEF Wifi!Listening
  <2>2. ASSUME NEW t \in Tcp, Wifi!Listening(t)'
        PROVE /\ ~ bound'[t] /\ port'[t] \in ServerPorts /\ request'[port'[t]] = t
              /\ slot'[context'[t]].owner = t /\ slot'[context'[t]].lport = port'[t]
              /\ ~ slot'[context'[t]].conn /\ link'[context'[t]] = "none"
    <3>1. t # s /\ Wifi!Listening(t) BY <1>7, <1>8, <2>2
    <3>2. context'[t] = context[t] /\ port'[t] = port[t] BY <1>1, <1>2, <3>1
    <3>3. InUse(context[t]) BY <1>1, <3>1, OwnSlots DEF InUse
    <3> QED BY <1>1, <1>3, <1>4, <1>5, <1>10, <3>1, <3>2, <3>3, OwnSlots
  <2> QED BY <2>1, <2>2 DEF Listeners
<1>16. Connections'
  <2> SUFFICES ASSUME NEW t \in Tcp, Wifi!Connected(t)'
               PROVE
    /\ slot'[context'[t]].owner = t /\ slot'[context'[t]].proto = "TCP"
    /\ slot'[context'[t]].lport = port'[t] /\ slot'[context'[t]].rport = 1
    /\ link'[context'[t]] # "none"
    /\ IF bound'[t]
         THEN /\ port'[t] \in ServerPorts /\ request'[port'[t]] = None
              /\ state'[t] = "ESTABLISHED" => slot'[context'[t]].conn
         ELSE port'[t] \in ClientPorts /\ slot'[context'[t]].client
    BY DEF Connections
  <2>1. t # s /\ Wifi!Connected(t) BY <1>7, <1>8
  <2>2. context'[t] = context[t] /\ port'[t] = port[t] BY <1>1, <1>2, <2>1
  <2>3. InUse(context[t]) /\ context[t] \in Wifi!Slots BY <1>1, <2>1, OwnSlots DEF InUse
  <2> QED BY <1>3, <1>4, <1>5, <1>10, <2>1, <2>2, <2>3 DEF WifiInv, Rest, Connections
<1>17. UdpUsers'
  <2> SUFFICES ASSUME NEW u \in Udp, bound'[u]
               PROVE
      /\ slot'[context'[u]].owner = u /\ slot'[context'[u]].lport \notin ServerPorts
      /\ slot'[context'[u]].rport = 0 <=> link'[context'[u]] = "none"
    BY DEF UdpUsers
  <2>1. context'[u] = context[u] /\ bound[u] BY <1>1, <1>2, <1>3
  <2>2. InUse(context[u]) /\ context[u] \in Wifi!Slots BY <1>1, <2>1, OwnSlots DEF InUse
  <2> QED BY <1>3, <1>4, <1>10, <2>1, <2>2 DEF WifiInv, Rest, UdpUsers
<1>18. Owners'
  <2>1. ASSUME NEW j \in Wifi!Slots, slot'[j].owner \in Udp
        PROVE  bound'[slot'[j].owner] /\ context'[slot'[j].owner] = j
    BY <1>1, <1>2, <1>3, <1>6, <2>1 DEF WifiInv, Rest, Owners
  <2>2. ASSUME NEW j \in Wifi!Slots, slot'[j].owner \in Tcp, slot'[j].lport \notin ServerPorts,
               ~ OpenMayFail
        PROVE  Wifi!Connected(slot[j].owner)' /\ context'[slot'[j].owner] = j
    BY <1>1, <1>2, <1>4, <1>6, <1>7, <1>8, <2>2 DEF WifiInv, Rest, Owners
  <2> QED BY <1>4, <1>6, <2>1, <2>2 DEF Owners
<1>19. Links'
  BY <1>1, <1>2, <1>3, <1>7 DEF WifiInv, Rest, Links, Wifi!Uses, Wifi!Connected
<1>20. ClosedKnown'
  BY <1>1, <1>2, <1>3 DEF WifiInv, Rest, ClosedKnown
<1> QED BY <1>11, <1>12, <1>13, <1>14, <1>15, <1>16, <1>17, <1>18, <1>19, <1>20 DEF Rest

(* A slot that nobody uses becomes the slot of a listening socket.          *)
LEMMA TakenKeeps ==
  ASSUME Given, WifiInv, Wifi!TypeOK', NEW s \in Tcp, NEW p \in ServerPorts, NEW d \in Wifi!Slots,
         state[s] = "CLOSED", ~ bound[s], request[p] \notin Tcp,
         \A t \in Tcp : (Wifi!Connected(t) => context[t] # d) /\ (Wifi!Listening(t) => context[t] # d),
         \A u \in Udp : bound[u] => context[u] # d,
         link[d] = "none",
         \A j \in Wifi!Slots \ {d} : slot'[j] = slot[j] /\ slot[j].lport # p,
         slot[d].lport = p \/ ~ InUse(d),
         slot'[d].owner = s, slot'[d].lport = p, slot'[d].proto = "TCP",
         ~ slot'[d].conn, ~ slot'[d].client,
         server' = [server EXCEPT ![d] = TRUE],
         context' = [context EXCEPT ![s] = d],
         port' = [port EXCEPT ![s] = p],
         state' = [state EXCEPT ![s] = "LISTEN"],
         request' = [request EXCEPT ![p] = s],
         UNCHANGED <<bound, link, pending>>
  PROVE  Rest'
<1>1. /\ \A t \in Wifi!Sockets : t # None /\ t # Wifi!NoRequest /\ context[t] \in Wifi!Slots
      /\ \A t \in Tcp : t \in Wifi!Sockets /\ t \notin Udp
      /\ \A v \in Udp : v \in Wifi!Sockets /\ v \notin Tcp
      /\ slot \in [Wifi!Slots -> SlotRecords]
  BY Names DEF WifiInv
<1>0. /\ DOMAIN context = Wifi!Sockets /\ DOMAIN port = Tcp /\ DOMAIN state = Tcp
      /\ DOMAIN request = ServerPorts /\ server \in [Wifi!Slots -> BOOLEAN]
  BY DEF WifiInv, Wifi!TypeOK
<1>2. /\ context'[s] = d /\ \A t \in Wifi!Sockets \ {s} : context'[t] = context[t]
      /\ port'[s] = p /\ \A t \in Tcp \ {s} : port'[t] = port[t]
      /\ state'[s] = "LISTEN" /\ \A t \in Tcp \ {s} : state'[t] = state[t]
  <2>1. context'[s] = d /\ \A t \in Wifi!Sockets \ {s} : context'[t] = context[t]
    BY <1>0, <1>1
  <2>2. port'[s] = p /\ \A t \in Tcp \ {s} : port'[t] = port[t]
    BY <1>0
  <2>3. state'[s] = "LISTEN" /\ \A t \in Tcp \ {s} : state'[t] = state[t]
    BY <1>0
  <2> QED BY <2>1, <2>2, <2>3
<1>3. /\ request'[p] = s /\ \A q \in ServerPorts \ {p} : request'[q] = request[q]
  BY <1>0
<1>4. server'[d] /\ \A j \in Wifi!Slots \ {d} : server'[j] = server[j]
  BY <1>0
<1>5. bound' = bound /\ link' = link /\ pending' = pending
  OBVIOUS
<1>6. ~ Wifi!Connected(s) /\ ~ Wifi!Listening(s)
  BY DEF Wifi!Connected, Wifi!Listening
<1>7. \A t \in Tcp \ {s} : (Wifi!Connected(t)' <=> Wifi!Connected(t)) /\ (Wifi!Listening(t)' <=> Wifi!Listening(t))
  BY <1>2 DEF Wifi!Connected, Wifi!Listening
<1>8. ~ Wifi!Connected(s)' /\ Wifi!Listening(s)'
  BY <1>2 DEF Wifi!Connected, Wifi!Listening
<1>9. FreeSlots'
  BY <1>1, <1>4, <1>5 DEF WifiInv, Rest, FreeSlots, InUse
<1>10. ServerSlots'
  <2> SUFFICES ASSUME NEW j \in Wifi!Slots
               PROVE
      /\ InUse(j)' /\ slot'[j].lport \in ServerPorts =>
         /\ slot'[j].proto = "TCP" /\ ~ slot'[j].client /\ server'[j]
         /\ request'[slot'[j].lport] # Wifi!NoRequest /\ slot'[j].owner \in Tcp
      /\ server'[j] => slot'[j].lport \in ServerPorts
      /\ pending'[j] => server'[j] /\ link'[j] = "none"
      /\ slot'[j].conn => /\ slot'[j].owner \in Tcp /\ context'[slot'[j].owner] = j
                         /\ state'[slot'[j].owner] = "ESTABLISHED"
                         /\ slot'[j].lport \in ServerPorts
    BY DEF ServerSlots
  <2>1. CASE j = d
    BY <1>1, <1>3, <1>4, <1>5, <2>1
  <2>2. CASE j # d
    <3>1. slot'[j] = slot[j] /\ server'[j] = server[j] /\ slot[j].lport # p
      BY <1>4, <2>2
    <3>2. slot[j].conn => /\ slot[j].owner \in Tcp /\ context[slot[j].owner] = j
                         /\ state[slot[j].owner] = "ESTABLISHED" /\ slot[j].owner # s
                         /\ slot[j].lport \in ServerPorts
      BY DEF WifiInv, Rest, ServerSlots
    <3>3. slot'[j].conn => /\ slot'[j].owner \in Tcp /\ context'[slot'[j].owner] = j
                          /\ state'[slot'[j].owner] = "ESTABLISHED"
                          /\ slot'[j].lport \in ServerPorts
      BY <1>1, <1>2, <3>1, <3>2
    <3>4. InUse(j)' /\ slot'[j].lport \in ServerPorts =>
         /\ slot'[j].proto = "TCP" /\ ~ slot'[j].client /\ server'[j]
         /\ request'[slot'[j].lport] # Wifi!NoRequest /\ slot'[j].owner \in Tcp
      BY <1>3, <3>1 DEF WifiInv, Rest, ServerSlots, InUse
    <3>5. /\ server'[j] => slot'[j].lport \in ServerPorts
          /\ pending'[j] => server'[j] /\ link'[j] = "none"
      BY <1>5, <3>1 DEF WifiInv, Rest, ServerSlots
    <3> QED BY <3>3, <3>4, <3>5
  <2> QED BY <2>1, <2>2
<1>11. OneSlotEach'
  BY DEF WifiInv, Rest, OneSlotEach
<1>12. RequestServed'
  <2> SUFFICES ASSUME NEW q \in ServerPorts, request'[q] # Wifi!NoRequest
               PROVE  \E j \in Wifi!Slots : InUse(j)' /\ slot'[j].lport = q
    BY DEF RequestServed
  <2>1. CASE q = p BY <1>1, <2>1 DEF InUse
  <2>2. CASE q # p
    <3>1. PICK j \in Wifi!Slots : InUse(j) /\ slot[j].lport = q
      BY <1>3, <2>2 DEF WifiInv, Rest, RequestServed
    <3>2. j # d BY <2>2, <3>1
    <3> QED BY <3>1, <3>2 DEF InUse
  <2> QED BY <2>1, <2>2
<1>13. Listeners'
  <2>1. ASSUME NEW q \in ServerPorts, request'[q] \in Tcp
        PROVE  Wifi!Listening(request[q])' /\ port'[request'[q]] = q
    <3>1. CASE q = p BY <1>2, <1>3, <3>1 DEF Wifi!Listening
    <3>2. CASE q # p
      <4>1. request[q] \in Tcp /\ Wifi!Listening(request[q]) /\ port[request[q]] = q
        BY <1>3, <2>1, <3>2 DEF WifiInv, Rest, Listeners
      <4>2. request[q] # s BY <1>6, <4>1
      <4> QED BY <1>2, <1>3, <3>2, <4>1, <4>2 DEF Wifi!Listening
    <3> QED BY <3>1, <3>2
  <2>2. ASSUME NEW t \in Tcp, Wifi!Listening(t)'
        PROVE /\ ~ bound'[t] /\ port'[t] \in ServerPorts /\ request'[port'[t]] = t
              /\ slot'[context'[t]].owner = t /\ slot'[context'[t]].lport = port'[t]
              /\ ~ slot'[context'[t]].conn /\ link'[context'[t]] = "none"
    <3>1. CASE t = s BY <1>2, <1>3, <1>5, <3>1
    <3>2. CASE t # s
      <4>1. Wifi!Listening(t) /\ context'[t] = context[t] /\ port'[t] = port[t]
        BY <1>1, <1>2, <1>7, <2>2, <3>2
      <4>2. context[t] \in Wifi!Slots \ {d} BY <1>1, <4>1
      <4>3. /\ ~ bound[t] /\ port[t] \in ServerPorts /\ request[port[t]] = t
            /\ slot[context[t]].owner = t /\ slot[context[t]].lport = port[t]
            /\ ~ slot[context[t]].conn /\ link[context[t]] = "none"
        BY <4>1, OwnSlots
      <4>4. port[t] # p BY <4>3
      <4> QED BY <1>3, <1>5, <4>1, <4>2, <4>3, <4>4
    <3> QED BY <3>1, <3>2
  <2> QED BY <2>1, <2>2 DEF Listeners
<1>14. Connections'
  <2> SUFFICES ASSUME NEW t \in Tcp, Wifi!Connected(t)'
               PROVE
    /\ slot'[context'[t]].owner = t /\ slot'[context'[t]].proto = "TCP"
    /\ slot'[context'[t]].lport = port'[t] /\ slot'[context'[t]].rport = 1
    /\ link'[context'[t]] # "none"
    /\ IF bound'[t]
         THEN /\ port'[t] \in ServerPorts /\ request'[port'[t]] = None
              /\ state'[t] = "ESTABLISHED" => slot'[context'[t]].conn
         ELSE port'[t] \in ClientPorts /\ slot'[context'[t]].client
    BY DEF Connections
  <2>1. t # s BY <1>8
  <2>2. Wifi!Connected(t) /\ context'[t] = context[t] /\ port'[t] = port[t] /\ state'[t] = state[t]
    BY <1>1, <1>2, <1>7, <2>1
  <2>3. context[t] \in Wifi!Slots \ {d} BY <1>1, <2>2
  <2>4. slot'[context[t]] = slot[context[t]] /\ slot[context[t]].lport # p BY <2>3
  <2>5. /\ slot[context[t]].owner = t /\ slot[context[t]].proto = "TCP"
        /\ slot[context[t]].lport = port[t] /\ slot[context[t]].rport = 1
        /\ link[context[t]] # "none"
        /\ IF bound[t]
             THEN /\ port[t] \in ServerPorts /\ request[port[t]] = None
                  /\ state[t] = "ESTABLISHED" => slot[context[t]].conn
             ELSE port[t] \in ClientPorts /\ slot[context[t]].client
    BY <2>2 DEF WifiInv, Rest, Connections
  <2>6. port[t] # p BY <2>4, <2>5
  <2> QED BY <1>3, <1>5, <2>2, <2>4, <2>5, <2>6
<1>15. UdpUsers'
  BY <1>1, <1>2, <1>5 DEF WifiInv, Rest, UdpUsers
<1>16. Owners'
  <2>1. ASSUME NEW j \in Wifi!Slots, slot'[j].owner \in Udp
        PROVE  bound'[slot'[j].owner] /\ context'[slot'[j].owner] = j
    BY <1>1, <1>2, <1>5, <2>1 DEF WifiInv, Rest, Owners
  <2>2. ASSUME NEW j \in Wifi!Slots, slot'[j].owner \in Tcp, slot'[j].lport \notin ServerPorts,
               ~ OpenMayFail
        PROVE  Wifi!Connected(slot[j].owner)' /\ context'[slot'[j].owner] = j
    <3>1. j # d BY <2>2
    <3>2. slot[j].owner \in Tcp /\ Wifi!Connected(slot[j].owner) /\ context[slot[j].owner] = j
      BY <2>2, <3>1 DEF WifiInv, Rest, Owners
    <3>3. slot[j].owner # s BY <1>6, <3>2
    <3> QED BY <1>1, <1>2, <3>1, <3>2, <3>3 DEF Wifi!Connected
  <2> QED BY <2>1, <2>2 DEF Owners
<1>17. Links'
  BY <1>1, <1>2, <1>5, <1>6, <1>7 DEF WifiInv, Rest, Links, Wifi!Uses
<1>18. ClosedKnown'
  <2> SUFFICES ASSUME NEW t \in Tcp, state'[t] = "CLOSE_WAIT"
               PROVE  link'[context'[t]] = "closed by peer"
    BY DEF ClosedKnown
  <2>1. t # s /\ state[t] = "CLOSE_WAIT" BY <1>2
  <2> QED BY <1>1, <1>2, <1>5, <2>1 DEF WifiInv, Rest, ClosedKnown
<1> QED BY <1>9, <1>10, <1>11, <1>12, <1>13, <1>14, <1>15, <1>16, <1>17, <1>18 DEF Rest

(* One lemma for each action: connect, which takes a free slot or is refused;*)
LEMMA ConnectKeeps ==
  ASSUME Given, WifiInv, Wifi!TypeOK', NEW s \in Tcp, NEW p \in ClientPorts, Wifi!Connect(s, p)
  PROVE  Rest'
<1> DEFINE i == Wifi!FreeSlot
<1>1. i \in Wifi!Slots /\ ~ InUse(i)
  BY FreeSlotIs DEF Wifi!Connect, Given
<1>2. /\ state[s] = "CLOSED" /\ ~ bound[s]
      /\ context' = [context EXCEPT ![s] = i] /\ port' = [port EXCEPT ![s] = p]
      /\ UNCHANGED <<bound, request, server, pending>>
      /\ \/ /\ slot' = [slot EXCEPT ![i].owner = s, ![i].lport = p, ![i].rport = 1,
                                     ![i].proto = "TCP", ![i].client = TRUE]
            /\ state' = [state EXCEPT ![s] = "ESTABLISHED"]
            /\ link' = [link EXCEPT ![i] = "open"]
         \/ /\ slot' = [slot EXCEPT ![i].owner = s] /\ UNCHANGED <<state, link>>
            /\ OpenMayFail
  BY DEF Wifi!Connect, Wifi!Outcomes
<1> HIDE DEF i
<1>3. /\ \A t \in Wifi!Sockets : t # None /\ t # Wifi!NoRequest /\ context[t] \in Wifi!Slots
      /\ \A t \in Tcp : t \in Wifi!Sockets /\ t \notin Udp
      /\ \A u \in Udp : u \in Wifi!Sockets /\ u \notin Tcp
      /\ p \notin ServerPorts /\ slot \in [Wifi!Slots -> SlotRecords]
  BY Names DEF WifiInv
<1>4. slot[i].lport \notin ServerPorts /\ ~ slot[i].conn /\ ~ server[i] /\ link[i] = "none"
  BY <1>1 DEF WifiInv, Rest, FreeSlots
<1>5. /\ context'[s] = i /\ \A t \in Wifi!Sockets \ {s} : context'[t] = context[t]
      /\ port'[s] = p /\ \A t \in Tcp \ {s} : port'[t] = port[t]
  <2>1. DOMAIN context = Wifi!Sockets /\ DOMAIN port = Tcp BY DEF WifiInv, Wifi!TypeOK
  <2>2. context'[s] = i /\ \A t \in Wifi!Sockets \ {s} : context'[t] = context[t]
    BY <1>2, <1>3, <2>1
  <2>3. port'[s] = p /\ \A t \in Tcp \ {s} : port'[t] = port[t]
    BY <1>2, <2>1
  <2> QED BY <2>2, <2>3
<1>6. /\ bound' = bound /\ request' = request
  BY <1>2
<1>7. /\ server' = server /\ pending' = pending
  BY <1>2
<1>0. \A t \in Tcp \ {s} :
        state[t] = "CLOSE_WAIT" => context[t] # i /\ link[context[t]] = "closed by peer"
  <2>1. ASSUME NEW t \in Tcp, state[t] = "CLOSE_WAIT" PROVE slot[context[t]].owner = t
    BY <2>1 DEF WifiInv, Rest, Connections, Wifi!Connected
  <2> QED BY <1>1, <1>3, <2>1 DEF WifiInv, Rest, ClosedKnown, InUse
<1>8. CASE /\ slot' = [slot EXCEPT ![i].owner = s, ![i].lport = p, ![i].rport = 1,
                                         ![i].proto = "TCP", ![i].client = TRUE]
           /\ state' = [state EXCEPT ![s] = "ESTABLISHED"]
           /\ link' = [link EXCEPT ![i] = "open"]
  <2>1. /\ slot'[i].owner = s /\ slot'[i].lport = p /\ slot'[i].rport = 1
        /\ slot'[i].proto = "TCP" /\ slot'[i].client
        /\ \A j \in Wifi!Slots \ {i} : slot'[j] = slot[j]
    BY <1>1, <1>3, <1>8 DEF SlotRecords
  <2>2. slot'[i].conn = slot[i].conn
    BY <1>1, <1>3, <1>8 DEF SlotRecords
  <2>3. /\ link'[i] = "open" /\ \A j \in Wifi!Slots \ {i} : link'[j] = link[j]
        /\ state'[s] = "ESTABLISHED" /\ \A t \in Tcp \ {s} : state'[t] = state[t]
    <3>1. link \in [Wifi!Slots -> {"none", "open", "closed by peer"}] /\ DOMAIN state = Tcp
      BY DEF WifiInv, Wifi!TypeOK
    <3> QED BY <1>1, <1>8, <3>1
  <2>4. FreeSlots'
    BY <2>1, <2>3, <1>3, <1>7 DEF WifiInv, Rest, FreeSlots, InUse
  <2>5. ServerSlots'
    BY <2>1, <2>2, <2>3, <1>2, <1>3, <1>4, <1>5, <1>6, <1>7
    DEF WifiInv, Rest, ServerSlots, InUse
  <2>6. OneSlotEach'
    BY <2>1, <1>3 DEF WifiInv, Rest, OneSlotEach
  <2>7. RequestServed'
    BY <2>1, <1>4, <1>6 DEF WifiInv, Rest, RequestServed, InUse
  <2>8. Listeners'
    BY <1>1, <1>2, <1>3, <1>5, <1>6, <2>1, <2>3 DEF WifiInv, Rest, Listeners, Wifi!Listening, InUse
  <2>9. Connections'
    BY <1>1, <1>2, <1>3, <1>5, <1>6, <2>1, <2>3 DEF WifiInv, Rest, Connections, Wifi!Connected, InUse
  <2>10. UdpUsers'
    BY <1>1, <1>3, <1>5, <1>6, <2>1, <2>3 DEF WifiInv, Rest, UdpUsers, InUse
  <2>11. Owners'
    <3>1. ASSUME NEW j \in Wifi!Slots, slot'[j].owner \in Udp
          PROVE  bound'[slot'[j].owner] /\ context'[slot'[j].owner] = j
      BY <1>3, <1>5, <1>6, <2>1, <3>1 DEF WifiInv, Rest, Owners
    <3>2. ASSUME NEW j \in Wifi!Slots, slot'[j].owner \in Tcp, slot'[j].lport \notin ServerPorts,
                 ~ OpenMayFail
          PROVE  Wifi!Connected(slot[j].owner)' /\ context'[slot'[j].owner] = j
      BY <1>2, <1>3, <1>5, <2>1, <2>3, <3>2 DEF WifiInv, Rest, Owners, Wifi!Connected
    <3> QED BY <3>1, <3>2 DEF Owners
  <2>12. Links'
    BY <1>1, <1>2, <1>3, <1>5, <1>6, <2>1, <2>3 DEF WifiInv, Rest, Links, Wifi!Uses, Wifi!Connected, InUse
  <2>13. ClosedKnown'
    <3> SUFFICES ASSUME NEW t \in Tcp, state'[t] = "CLOSE_WAIT"
                 PROVE  link'[context'[t]] = "closed by peer"
      BY DEF ClosedKnown
    <3>1. t \in Tcp \ {s} /\ state[t] = "CLOSE_WAIT" BY <2>3
    <3>2. context'[t] = context[t] /\ context[t] \in Wifi!Slots BY <1>3, <1>5, <3>1
    <3>3. context[t] # i /\ link[context[t]] = "closed by peer" BY <1>0, <3>1
    <3> QED BY <2>3, <3>2, <3>3
  <2> QED BY <2>4, <2>5, <2>6, <2>7, <2>8, <2>9, <2>10, <2>11, <2>12, <2>13 DEF Rest
<1>9. CASE slot' = [slot EXCEPT ![i].owner = s] /\ UNCHANGED <<state, link>> /\ OpenMayFail
  BY <1>1, <1>2, <1>5, <1>9, RefusedKeeps
<1> QED BY <1>2, <1>8, <1>9

(* listen: as there was no request no slot has the port, so a free one is   *)
(* taken, or the driver or the module refuses;                              *)
LEMMA ListenKeeps ==
  ASSUME Given, WifiInv, Wifi!TypeOK', NEW s \in Tcp, NEW p \in ServerPorts, Wifi!Listen(s, p)
  PROVE  Rest'
<1> DEFINE f == Wifi!FreeSlot
<1>1. /\ \A t \in Wifi!Sockets : t # None /\ t # Wifi!NoRequest /\ context[t] \in Wifi!Slots
      /\ \A t \in Tcp : t \in Wifi!Sockets /\ t \notin Udp
      /\ \A v \in Udp : v \in Wifi!Sockets /\ v \notin Tcp
      /\ slot \in [Wifi!Slots -> SlotRecords] /\ p # 0
  BY Names DEF WifiInv
<1>2. /\ state[s] = "CLOSED" /\ ~ bound[s] /\ request[p] = Wifi!NoRequest
      /\ port' = [port EXCEPT ![s] = p]
      /\ UNCHANGED <<bound, link, pending>>
  BY DEF Wifi!Listen
<1>3. \A i \in Wifi!Slots : slot[i].lport # p
  BY <1>2 DEF WifiInv, Rest, FreeSlots, ServerSlots
<1>4. Wifi!TcpSlot(slot, p) = SlotCount /\ SlotCount \notin Wifi!Slots
  BY <1>3, TcpSlotIs DEF Given, Wifi!OffloadAssumption, Wifi!Slots
<1>5. \A t \in Tcp \ {s} : port'[t] = port[t]
  BY <1>2 DEF WifiInv, Wifi!TypeOK
<1>6. PICK r \in Wifi!DriverListen(s, p) :
        /\ context' = [context EXCEPT ![s] = r.index]
        /\ IF r.ok
             THEN /\ slot' = r.slot /\ server' = r.server
                  /\ state' = [state EXCEPT ![s] = "LISTEN"]
                  /\ request' = [request EXCEPT ![p] = s]
             ELSE /\ slot' = Wifi!UnlistenSlot(r.slot, p)
                  /\ server' = Wifi!StopServer(r.slot, r.server, p)
                  /\ UNCHANGED <<state, request>>
  BY DEF Wifi!Listen
<1>7. \/ f = SlotCount /\ r = Wifi!ListenResult(FALSE, slot, context[s], FALSE)
      \/ /\ f # SlotCount
         /\ r = Wifi!ListenResult(TRUE,
                        [slot EXCEPT ![f] = [owner |-> s, proto |-> "TCP", lport |-> p,
                                             rport |-> 0, conn |-> FALSE, client |-> FALSE]],
                        f, TRUE)
      \/ /\ f # SlotCount /\ OpenMayFail
         /\ r = Wifi!ListenResult(FALSE, [slot EXCEPT ![f].owner = s], f, FALSE)
  BY <1>4, <1>6 DEF Wifi!DriverListen, Wifi!Outcomes
<1>8. f # SlotCount => f \in Wifi!Slots /\ ~ InUse(f)
  BY FreeSlotIs DEF Given
<1> HIDE DEF f
<1>9. CASE f = SlotCount /\ r = Wifi!ListenResult(FALSE, slot, context[s], FALSE)
  <2>1. ~ r.ok /\ r.slot = slot /\ r.index = context[s] /\ r.server = server
    BY <1>9 DEF Wifi!ListenResult
  <2>2. slot' = slot /\ server' = server
    BY <1>4, <1>6, <2>1 DEF Wifi!UnlistenSlot, Wifi!StopServer
  <2>3. context' = [context EXCEPT ![s] = context[s]] /\ UNCHANGED <<state, request>>
    BY <1>6, <2>1
  <2> QED BY <1>1, <1>2, <1>5, <2>2, <2>3, RefusedKeeps
<1>10. CASE /\ f # SlotCount
            /\ r = Wifi!ListenResult(TRUE,
                   [slot EXCEPT ![f] = [owner |-> s, proto |-> "TCP", lport |-> p,
                                        rport |-> 0, conn |-> FALSE, client |-> FALSE]],
                   f, TRUE)
  <2>1. /\ context' = [context EXCEPT ![s] = f]
        /\ slot' = [slot EXCEPT ![f] = [owner |-> s, proto |-> "TCP", lport |-> p,
                                        rport |-> 0, conn |-> FALSE, client |-> FALSE]]
        /\ server' = [server EXCEPT ![f] = TRUE]
        /\ state' = [state EXCEPT ![s] = "LISTEN"]
        /\ request' = [request EXCEPT ![p] = s]
    BY <1>6, <1>10 DEF Wifi!ListenResult
  <2>2. /\ \A j \in Wifi!Slots \ {f} : slot'[j] = slot[j]
        /\ slot'[f] = [owner |-> s, proto |-> "TCP", lport |-> p,
                        rport |-> 0, conn |-> FALSE, client |-> FALSE]
    BY <1>1, <1>8, <1>10, <2>1
  <2>3. /\ slot'[f].owner = s /\ slot'[f].lport = p /\ slot'[f].proto = "TCP"
        /\ ~ slot'[f].conn /\ ~ slot'[f].client
    BY <2>2
  <2>4. link[f] = "none"
    BY <1>8, <1>10 DEF WifiInv, Rest, FreeSlots
  <2>5. \A t \in Tcp : (Wifi!Connected(t) => context[t] # f) /\ (Wifi!Listening(t) => context[t] # f)
    BY <1>1, <1>8, <1>10, OwnSlots DEF InUse
  <2>6. \A u \in Udp : bound[u] => context[u] # f
    BY <1>1, <1>8, <1>10, OwnSlots DEF InUse
  <2>7. request[p] \notin Tcp /\ \A j \in Wifi!Slots \ {f} : slot[j].lport # p
    BY <1>1, <1>2, <1>3
  <2>8. f \in Wifi!Slots /\ ~ InUse(f) BY <1>8, <1>10
  <2> QED BY <1>2, <2>1, <2>2, <2>3, <2>4, <2>5, <2>6, <2>7, <2>8, TakenKeeps
<1>11. CASE /\ f # SlotCount /\ OpenMayFail
            /\ r = Wifi!ListenResult(FALSE, [slot EXCEPT ![f].owner = s], f, FALSE)
  <2> DEFINE w == [slot EXCEPT ![f].owner = s]
  <2>1. ~ r.ok /\ r.slot = w /\ r.index = f /\ r.server = server
    BY <1>11 DEF Wifi!ListenResult
  <2>2. Wifi!TcpSlot(w, p) = SlotCount
    <3>1. \A i \in Wifi!Slots : w[i].lport # p BY <1>1, <1>3, <1>8, <1>11 DEF SlotRecords
    <3>2. {i \in Wifi!Slots : w[i].lport = p /\ w[i].proto = "TCP"} = {} BY <3>1
    <3> HIDE DEF w
    <3> QED BY <3>2 DEF Wifi!TcpSlot, Wifi!First
  <2> HIDE DEF w
  <2>3. slot' = w /\ server' = server
    BY <1>6, <2>1, <2>2 DEF Wifi!UnlistenSlot, Wifi!StopServer
  <2>4. context' = [context EXCEPT ![s] = f] /\ UNCHANGED <<state, request>>
    BY <1>6, <2>1
  <2>5. slot' = [slot EXCEPT ![f].owner = s] BY <2>3 DEF w
  <2> QED BY <1>2, <1>5, <1>8, <1>11, <2>3, <2>4, <2>5, RefusedKeeps
<1> QED BY <1>7, <1>9, <1>10, <1>11

(* relisten: the request has its slot; the driver refuses while a connection*)
(* is there, and otherwise nobody uses it;                                  *)
LEMMA RelistenKeeps ==
  ASSUME Given, WifiInv, Wifi!TypeOK', NEW s \in Tcp, NEW p \in ServerPorts, Wifi!Relisten(s, p)
  PROVE  Rest'
<1> DEFINE d == Wifi!TcpSlot(slot, p)
<1>1. /\ \A t \in Wifi!Sockets : t # None /\ t # Wifi!NoRequest /\ context[t] \in Wifi!Slots
      /\ \A t \in Tcp : t \in Wifi!Sockets /\ t \notin Udp
      /\ \A v \in Udp : v \in Wifi!Sockets /\ v \notin Tcp
      /\ slot \in [Wifi!Slots -> SlotRecords] /\ None # Wifi!NoRequest /\ p \notin ClientPorts
  BY Names DEF WifiInv
<1>2. /\ state[s] = "CLOSED" /\ ~ bound[s] /\ request[p] = None
      /\ \A t \in Tcp : state[t] = "CLOSE_WAIT" => port[t] # p
      /\ UNCHANGED <<bound, link, pending>>
  BY DEF Wifi!Relisten, Given, Plain
<1>3. d # SlotCount /\ d \in Wifi!Slots /\ slot[d].lport = p /\ InUse(d)
  BY <1>1, <1>2, TcpSlotIs DEF WifiInv, Rest, RequestServed, Given
<1>4. \A j \in Wifi!Slots \ {d} : slot[j].lport # p
  BY <1>3 DEF WifiInv, Rest, OneSlotEach
<1>5. /\ slot[d].proto = "TCP" /\ ~ slot[d].client /\ server[d] /\ slot[d].owner \in Tcp
  BY <1>3 DEF WifiInv, Rest, ServerSlots
<1>6. PICK r \in Wifi!DriverListen(s, p) :
        /\ context' = [context EXCEPT ![s] = r.index]
        /\ slot' = r.slot /\ server' = r.server
        /\ IF r.ok
             THEN /\ state' = [state EXCEPT ![s] = "LISTEN"]
                  /\ port' = [port EXCEPT ![s] = p]
                  /\ request' = [request EXCEPT ![p] = s]
             ELSE UNCHANGED <<state, port, request>>
  BY DEF Wifi!Relisten
<1>7. IF slot[d].conn THEN r = Wifi!ListenResult(FALSE, slot, context[s], FALSE)
      ELSE r = Wifi!ListenResult(TRUE, [slot EXCEPT ![d].owner = s], d, FALSE)
  BY <1>3, <1>6 DEF Wifi!DriverListen
<1> HIDE DEF d
<1>8. CASE slot[d].conn
  <2>1. ~ r.ok /\ r.slot = slot /\ r.index = context[s] /\ r.server = server
    BY <1>7, <1>8 DEF Wifi!ListenResult
  <2>2. /\ slot' = slot /\ context' = [context EXCEPT ![s] = context[s]]
        /\ UNCHANGED <<state, request, server>> /\ port' = port
    BY <1>6, <2>1
  <2> QED BY <1>1, <1>2, <2>2, RefusedKeeps
<1>9. CASE ~ slot[d].conn
  <2>1. r.ok /\ r.slot = [slot EXCEPT ![d].owner = s] /\ r.index = d /\ r.server = server
    BY <1>7, <1>9 DEF Wifi!ListenResult
  <2>2. /\ slot' = [slot EXCEPT ![d].owner = s]
        /\ context' = [context EXCEPT ![s] = d]
        /\ state' = [state EXCEPT ![s] = "LISTEN"]
        /\ port' = [port EXCEPT ![s] = p]
        /\ request' = [request EXCEPT ![p] = s]
    BY <1>6, <2>1
  <2>3. server' = [server EXCEPT ![d] = TRUE]
    <3>1. server \in [Wifi!Slots -> BOOLEAN] /\ server' = server
      BY <1>6, <2>1 DEF WifiInv, Wifi!TypeOK
    <3>2. server[d] = TRUE BY <1>3, <1>5, <3>1
    <3>3. \A j \in Wifi!Slots : server[j] = [server EXCEPT ![d] = TRUE][j]
      BY <1>3, <3>1, <3>2
    <3>4. [server EXCEPT ![d] = TRUE] \in [Wifi!Slots -> BOOLEAN] BY <3>1
    <3> QED BY <3>1, <3>3, <3>4
  <2>4. /\ \A j \in Wifi!Slots \ {d} : slot'[j] = slot[j]
        /\ slot'[d].owner = s /\ slot'[d].lport = p /\ slot'[d].proto = "TCP"
    BY <1>1, <1>3, <1>5, <2>2 DEF SlotRecords
  <2>5. ~ slot'[d].conn /\ ~ slot'[d].client
    BY <1>1, <1>3, <1>5, <1>9, <2>2 DEF SlotRecords
  <2>6. ASSUME NEW t \in Tcp, Wifi!Connected(t) PROVE context[t] # d
    <3> SUFFICES ASSUME context[t] = d PROVE FALSE
      OBVIOUS
    <3>1. port[t] = p BY <1>3, <2>6, OwnSlots
    <3>2. bound[t] BY <1>1, <2>6, <3>1, OwnSlots
    <3>3. state[t] # "ESTABLISHED" BY <1>9, <2>6, <3>2 DEF WifiInv, Rest, Connections
    <3> QED BY <1>2, <2>6, <3>1, <3>3 DEF Wifi!Connected
  <2>7. ASSUME NEW t \in Tcp, Wifi!Listening(t) PROVE context[t] # d
    <3> SUFFICES ASSUME context[t] = d PROVE FALSE
      OBVIOUS
    <3>1. port[t] = p /\ request[port[t]] = t BY <1>3, <2>7, OwnSlots
    <3> QED BY <1>1, <1>2, <3>1
  <2>8. \A u \in Udp : bound[u] => context[u] # d
    BY <1>3, OwnSlots
  <2>9. link[d] = "none"
    BY <1>3, <1>5, <2>6, LinkedTo
  <2>10. request[p] \notin Tcp
    BY <1>1, <1>2
  <2>11. \A t \in Tcp : (Wifi!Connected(t) => context[t] # d) /\ (Wifi!Listening(t) => context[t] # d)
    BY <2>6, <2>7
  <2>12. \A j \in Wifi!Slots \ {d} : slot'[j] = slot[j] /\ slot[j].lport # p
    BY <1>4, <2>4
  <2> QED
    BY <1>2, <1>3, <2>2, <2>3, <2>4, <2>5, <2>8, <2>9, <2>10, <2>11, <2>12, TakenKeeps
<1> QED BY <1>8, <1>9

(* disconnect: a client's slot is free, a server's keeps listening;         *)
LEMMA DisconnectKeeps ==
  ASSUME Given, WifiInv, Wifi!TypeOK', NEW s \in Tcp, Wifi!Disconnect(s), ~ struck'
  PROVE  Rest'
<1> DEFINE i == context[s]
<1>1. /\ \A t \in Wifi!Sockets : t # None /\ t # Wifi!NoRequest /\ context[t] \in Wifi!Slots
      /\ \A t \in Tcp : t \in Wifi!Sockets /\ t \notin Udp
      /\ \A u \in Udp : u \in Wifi!Sockets /\ u \notin Tcp
      /\ \A p \in ClientPorts : p \notin ServerPorts
      /\ slot \in [Wifi!Slots -> SlotRecords]
  BY Names DEF WifiInv
<1>2. /\ i \in Wifi!Slots /\ slot[i].owner = s /\ slot[i].rport = 1 /\ slot[i].lport = port[s]
      /\ link[i] # "none" /\ Wifi!Connected(s)
  <2>1. Wifi!Connected(s)
    <3>1. state[s] = "SYN_RECEIVED" => ~ bound[s] BY OwnSlots DEF Wifi!Listening
    <3> QED BY <3>1 DEF Wifi!Disconnect, Wifi!MayDisconnect
  <2> QED BY <2>1, OwnSlots
<1>3. /\ link' = [link EXCEPT ![i] = "none"]
      /\ slot' = [slot EXCEPT ![i] = IF ~ @.client THEN [@ EXCEPT !.conn = FALSE]
                                    ELSE [@ EXCEPT !.owner = None]]
      /\ state' = [state EXCEPT ![s] = "CLOSED"]
  <2>1. state' = [state EXCEPT ![s] = "CLOSED"]
    BY <1>2 DEF Wifi!Disconnect, Wifi!Closes, Wifi!WaitFails, Wifi!Connected, Wifi!Listening
  <2> QED BY <1>2, <2>1 DEF Wifi!Disconnect
<1>4. context' = context /\ port' = port /\ request' = request
  BY DEF Wifi!Disconnect
<1>5. bound' = bound /\ server' = server /\ pending' = pending
  BY DEF Wifi!Disconnect
<1> HIDE DEF i
<1>6. /\ \A j \in Wifi!Slots \ {i} : slot'[j] = slot[j]
      /\ slot'[i].lport = slot[i].lport /\ slot'[i].rport = slot[i].rport
      /\ slot'[i].proto = slot[i].proto
  BY <1>1, <1>2, <1>3 DEF SlotRecords
<1>7. /\ slot[i].client => slot'[i].owner = None /\ slot'[i].conn = slot[i].conn
      /\ ~ slot[i].client => slot'[i].owner = s /\ ~ slot'[i].conn
  BY <1>1, <1>2, <1>3 DEF SlotRecords
<1>8. slot'[i].client = slot[i].client
  BY <1>1, <1>2, <1>3 DEF SlotRecords
<1>9. /\ link'[i] = "none" /\ \A j \in Wifi!Slots \ {i} : link'[j] = link[j]
      /\ state'[s] = "CLOSED" /\ \A t \in Tcp \ {s} : state'[t] = state[t]
  <2>1. link \in [Wifi!Slots -> {"none", "open", "closed by peer"}] /\ DOMAIN state = Tcp
    BY DEF WifiInv, Wifi!TypeOK
  <2> QED BY <1>2, <1>3, <2>1
<1>10. /\ slot[i].client => slot[i].lport \notin ServerPorts /\ ~ slot[i].conn /\ ~ server[i]
       /\ ~ slot[i].client => slot[i].lport \in ServerPorts
  <2>1. slot[i].client => slot[i].lport \notin ServerPorts
    BY <1>1, <1>2 DEF WifiInv, Rest, ServerSlots, InUse
  <2>2. ~ slot[i].client => slot[i].lport \in ServerPorts
    <3>1. bound[s] => port[s] \in ServerPorts BY <1>2 DEF WifiInv, Rest, Connections
    <3>2. ~ bound[s] => slot[i].client BY <1>2, OwnSlots DEF i
    <3> QED BY <1>2, <3>1, <3>2
  <2> QED BY <1>2, <2>1, <2>2 DEF WifiInv, Rest, ServerSlots
<1>11. \A t \in Wifi!Sockets \ {s} :
         (t \in Tcp => Wifi!Connected(t) \/ Wifi!Listening(t)) /\ (t \in Udp => bound[t]) => context[t] # i
  <2>1. ASSUME NEW t \in Tcp, t # s, Wifi!Connected(t) \/ Wifi!Listening(t) PROVE context[t] # i
    BY <2>1, <1>2, OwnSlots
  <2>2. ASSUME NEW t \in Udp, bound[t] PROVE context[t] # i
    BY <2>2, <1>1, <1>2, OwnSlots
  <2> QED BY <2>1, <2>2 DEF Wifi!Sockets
<1>12. FreeSlots'
  BY <1>2, <1>5, <1>6, <1>7, <1>9, <1>10 DEF WifiInv, Rest, FreeSlots, InUse
<1>13. ServerSlots'
  BY <1>1, <1>2, <1>4, <1>5, <1>6, <1>7, <1>8, <1>9, <1>10
  DEF WifiInv, Rest, ServerSlots, InUse, i
<1>14. OneSlotEach'
  BY <1>6 DEF WifiInv, Rest, OneSlotEach
<1>15. RequestServed'
  BY <1>1, <1>4, <1>6, <1>7, <1>10 DEF WifiInv, Rest, RequestServed, InUse
<1>16. Listeners'
  BY <1>1, <1>2, <1>4, <1>5, <1>6, <1>9, <1>11
  DEF WifiInv, Rest, Listeners, Wifi!Listening, Wifi!Connected
<1>17. Connections'
  BY <1>1, <1>2, <1>4, <1>5, <1>6, <1>9, <1>11 DEF WifiInv, Rest, Connections, Wifi!Connected
<1>18. UdpUsers'
  BY <1>1, <1>2, <1>4, <1>5, <1>6, <1>9, <1>11 DEF WifiInv, Rest, UdpUsers
<1>19. Owners'
  <2>1. ASSUME NEW j \in Wifi!Slots, slot'[j].owner \in Udp
        PROVE  bound'[slot'[j].owner] /\ context'[slot'[j].owner] = j
    BY <1>1, <1>2, <1>4, <1>5, <1>6, <1>7, <2>1 DEF WifiInv, Rest, Owners
  <2>2. ASSUME NEW j \in Wifi!Slots, slot'[j].owner \in Tcp, slot'[j].lport \notin ServerPorts,
               ~ OpenMayFail
        PROVE  Wifi!Connected(slot[j].owner)' /\ context'[slot'[j].owner] = j
    <3>1. j # i BY <1>1, <1>6, <1>7, <1>10, <2>2
    <3>2. Wifi!Connected(slot[j].owner) /\ context[slot[j].owner] = j
      BY <1>6, <2>2, <3>1 DEF WifiInv, Rest, Owners
    <3>3. slot[j].owner # s BY <3>1, <3>2 DEF i
    <3> QED BY <1>4, <1>6, <1>9, <2>2, <3>1, <3>2, <3>3 DEF Wifi!Connected
  <2> QED BY <2>1, <2>2 DEF Owners
<1>20. Links'
  BY <1>1, <1>2, <1>4, <1>5, <1>9 DEF WifiInv, Rest, Links, Wifi!Uses, Wifi!Connected, i
<1>21. ClosedKnown'
  <2> SUFFICES ASSUME NEW t \in Tcp, state'[t] = "CLOSE_WAIT"
               PROVE  link'[context'[t]] = "closed by peer"
    BY DEF ClosedKnown
  <2>1. t \in Tcp \ {s} /\ state[t] = "CLOSE_WAIT" BY <1>9
  <2>2. context[t] # i /\ context[t] \in Wifi!Slots
    BY <1>1, <1>11, <2>1 DEF Wifi!Connected
  <2> QED BY <1>4, <1>9, <2>1, <2>2 DEF WifiInv, Rest, ClosedKnown
<1> QED BY <1>12, <1>13, <1>14, <1>15, <1>16, <1>17, <1>18, <1>19, <1>20, <1>21 DEF Rest

(* accept, the end of its wait and its return;                              *)
AcceptSteps(s) ==
  Wifi!Accept(s) \/ Wifi!AcceptSuspends(s) \/ Wifi!AcceptEnds(s) \/ Wifi!AcceptReturns(s)
LEMMA AcceptKeeps ==
  ASSUME Given, WifiInv, Wifi!TypeOK', NEW s \in Tcp, AcceptSteps(s), ~ struck'
  PROVE  Rest'
<1>1. /\ slot' = slot /\ context' = context /\ port' = port /\ bound' = bound
      /\ request' = request /\ link' = link /\ server' = server /\ pending' = pending
  BY DEF AcceptSteps, Wifi!Accept, Wifi!AcceptSuspends, Wifi!AcceptEnds, Wifi!AcceptReturns,
         Wifi!acceptOnly, Wifi!tableVars, Wifi!moduleVars
<1>0. \/ state' = state
      \/ Wifi!Listening(s) /\ \E x \in {"LISTEN", "SYN_RECEIVED"} : state' = [state EXCEPT ![s] = x]
  <2>1. CASE Wifi!Accept(s) BY <2>1 DEF Wifi!Accept
  <2>2. CASE Wifi!AcceptSuspends(s)
    <3>1. CASE state[s] = "LISTEN" BY <2>2, <3>1 DEF Wifi!AcceptSuspends, Wifi!Listening
    <3>2. CASE state[s] # "LISTEN"
      BY <2>2, <3>2 DEF Wifi!AcceptSuspends, WifiInv, Wifi!TypeOK
    <3> QED BY <3>1, <3>2
  <2>3. CASE Wifi!AcceptEnds(s)
    BY <2>3 DEF Wifi!AcceptEnds, Wifi!WaitFails, Wifi!Listening
  <2>4. CASE Wifi!AcceptReturns(s) BY <2>4 DEF Wifi!AcceptReturns
  <2> QED BY <2>1, <2>2, <2>3, <2>4 DEF AcceptSteps
<1>2. \A t \in Tcp :
        /\ Wifi!Listening(t)' <=> Wifi!Listening(t)
        /\ Wifi!Connected(t)' <=> Wifi!Connected(t)
        /\ state'[t] = "ESTABLISHED" <=> state[t] = "ESTABLISHED"
        /\ state'[t] = "CLOSE_WAIT" <=> state[t] = "CLOSE_WAIT"
  BY <1>0 DEF Wifi!Listening, Wifi!Connected, WifiInv, Wifi!TypeOK
<1>3. FreeSlots' /\ OneSlotEach' /\ RequestServed'
  BY <1>1 DEF WifiInv, Rest, FreeSlots, OneSlotEach, RequestServed, InUse
<1>4. ServerSlots'
  BY <1>1, <1>2 DEF WifiInv, Rest, ServerSlots, InUse
<1>5. Listeners'
  BY <1>1, <1>2, Names DEF WifiInv, Rest, Listeners
<1>6. Connections' /\ UdpUsers'
  BY <1>1, <1>2 DEF WifiInv, Rest, Connections, UdpUsers
<1>7. Owners'
  BY <1>1, <1>2 DEF WifiInv, Rest, Owners
<1>8. Links'
  BY <1>1, <1>2 DEF WifiInv, Rest, Links, Wifi!Uses
<1>9. ClosedKnown'
  BY <1>1, <1>2 DEF WifiInv, Rest, ClosedKnown
<1> QED BY <1>3, <1>4, <1>5, <1>6, <1>7, <1>8, <1>9 DEF Rest

(* unaccept, of a listening socket or one that was disconnected;            *)
LEMMA UnacceptKeeps ==
  ASSUME Given, WifiInv, Wifi!TypeOK', NEW s \in Tcp, Wifi!Unaccept(s)
  PROVE  Rest'
<1>1. /\ slot' = slot /\ context' = context /\ port' = port
      /\ link' = link /\ server' = server /\ pending' = pending
  BY DEF Wifi!Unaccept, Wifi!tableVars, Wifi!moduleVars
<1>2. /\ \A t \in Wifi!Sockets : t # None /\ t # Wifi!NoRequest /\ context[t] \in Wifi!Slots
      /\ \A t \in Tcp : t \in Wifi!Sockets /\ t \notin Udp
      /\ \A u \in Udp : u \in Wifi!Sockets /\ u \notin Tcp
      /\ None # Wifi!NoRequest
  BY Names DEF WifiInv
<1>3. ~ Wifi!Connected(s)
  BY DEF Wifi!Unaccept, Wifi!Connected, Given, Plain
<1>4. /\ ~ bound'[s] /\ \A t \in Wifi!Sockets \ {s} : bound'[t] = bound[t]
      /\ state'[s] = "CLOSED" /\ \A t \in Tcp \ {s} : state'[t] = state[t]
  <2>1. /\ bound \in [Wifi!Sockets -> BOOLEAN] /\ DOMAIN state = Tcp /\ s \in Wifi!Sockets
    BY <1>2 DEF WifiInv, Wifi!TypeOK
  <2>2. bound' = [bound EXCEPT ![s] = FALSE] /\ state' = [state EXCEPT ![s] = "CLOSED"]
    BY DEF Wifi!Unaccept
  <2> QED BY <2>1, <2>2
<1>5. \A p \in ServerPorts :
        /\ request'[p] = Wifi!NoRequest <=> request[p] = Wifi!NoRequest
        /\ request[p] = None => request'[p] = None
        /\ request[p] \in Tcp /\ request[p] # s => request'[p] = request[p]
        /\ request'[p] \in Tcp => request'[p] = request[p] /\ request[p] # s
  <2>1. CASE bound[s]
    <3>1. request' = request BY <2>1 DEF Wifi!Unaccept
    <3>2. ~ Wifi!Listening(s) BY <2>1, OwnSlots
    <3>3. \A p \in ServerPorts : request[p] \in Tcp => Wifi!Listening(request[p])
      BY DEF WifiInv, Rest, Listeners
    <3> QED BY <3>1, <3>2, <3>3
  <2>2. CASE ~ bound[s]
    <3>1. request' = [p \in ServerPorts |-> IF request[p] = s THEN None ELSE request[p]]
      BY <2>2 DEF Wifi!Unaccept
    <3> QED BY <1>2, <3>1
  <2> QED BY <2>1, <2>2
<1>6. FreeSlots' /\ OneSlotEach'
  BY <1>1 DEF WifiInv, Rest, FreeSlots, OneSlotEach, InUse
<1>7. ServerSlots'
  BY <1>1, <1>2, <1>3, <1>4, <1>5 DEF WifiInv, Rest, ServerSlots, InUse, Wifi!Connected
<1>8. RequestServed'
  BY <1>1, <1>5 DEF WifiInv, Rest, RequestServed, InUse
<1>9. Listeners'
  <2>1. ASSUME NEW p \in ServerPorts, request'[p] \in Tcp
        PROVE  Wifi!Listening(request[p])' /\ port'[request'[p]] = p
    BY <1>1, <1>4, <1>5, <2>1 DEF WifiInv, Rest, Listeners, Wifi!Listening
  <2>2. ASSUME NEW t \in Tcp, Wifi!Listening(t)'
        PROVE /\ ~ bound'[t] /\ port'[t] \in ServerPorts /\ request'[port'[t]] = t
              /\ slot'[context'[t]].owner = t /\ slot'[context'[t]].lport = port'[t]
              /\ ~ slot'[context'[t]].conn /\ link'[context'[t]] = "none"
    <3>1. t # s /\ Wifi!Listening(t) BY <1>4, <2>2 DEF Wifi!Listening
    <3> QED BY <1>1, <1>2, <1>4, <1>5, <3>1 DEF WifiInv, Rest, Listeners
  <2> QED BY <2>1, <2>2 DEF Listeners
<1>10. Connections'
  <2>1. \A t \in Tcp : Wifi!Connected(t)' => Wifi!Connected(t) /\ t # s
    BY <1>4 DEF Wifi!Connected
  <2> QED BY <1>1, <1>2, <1>4, <1>5, <2>1 DEF WifiInv, Rest, Connections
<1>11. UdpUsers'
  BY <1>1, <1>2, <1>4 DEF WifiInv, Rest, UdpUsers
<1>12. Owners'
  BY <1>1, <1>2, <1>3, <1>4 DEF WifiInv, Rest, Owners, Wifi!Connected
<1>13. Links'
  BY <1>1, <1>2, <1>3, <1>4 DEF WifiInv, Rest, Links, Wifi!Uses, Wifi!Connected
<1>14. ClosedKnown'
  BY <1>1, <1>4 DEF WifiInv, Rest, ClosedKnown
<1> QED BY <1>6, <1>7, <1>8, <1>9, <1>10, <1>11, <1>12, <1>13, <1>14 DEF Rest

(* unlisten: no connection of the port is left in its slot;                 *)
LEMMA UnlistenKeeps ==
  ASSUME Given, WifiInv, Wifi!TypeOK', NEW p \in ServerPorts, Wifi!Unlisten(p)
  PROVE  Rest'
<1> DEFINE d == Wifi!TcpSlot(slot, p)
<1>1. /\ \A t \in Wifi!Sockets : t # None /\ t # Wifi!NoRequest /\ context[t] \in Wifi!Slots
      /\ \A t \in Tcp : t \in Wifi!Sockets /\ t \notin Udp
      /\ \A v \in Udp : v \in Wifi!Sockets /\ v \notin Tcp
      /\ slot \in [Wifi!Slots -> SlotRecords] /\ 0 \notin ServerPorts /\ p \notin ClientPorts
  BY Names DEF WifiInv
<1>2. /\ request[p] # Wifi!NoRequest /\ \A t \in Tcp : Wifi!Connected(t) => port[t] # p
      /\ slot' = Wifi!UnlistenSlot(slot, p) /\ server' = Wifi!StopServer(slot, server, p)
      /\ pending' = [i \in Wifi!Slots |-> pending[i] /\ server'[i]]
      /\ request' = [request EXCEPT ![p] = Wifi!NoRequest]
  BY DEF Wifi!Unlisten, Given, Plain
<1>3. context' = context /\ port' = port /\ bound' = bound /\ link' = link
  BY DEF Wifi!Unlisten
<1>4. d # SlotCount /\ d \in Wifi!Slots /\ slot[d].lport = p /\ InUse(d)
  BY <1>1, <1>2, TcpSlotIs DEF WifiInv, Rest, RequestServed, Given
<1>5. \A j \in Wifi!Slots \ {d} : slot[j].lport # p
  BY <1>4 DEF WifiInv, Rest, OneSlotEach
<1>6. slot[d].owner \in Tcp
  BY <1>4 DEF WifiInv, Rest, ServerSlots
<1>7. /\ slot' = [slot EXCEPT ![d].owner = None, ![d].lport = 0]
      /\ server' = [server EXCEPT ![d] = FALSE]
  BY <1>2, <1>4 DEF Wifi!UnlistenSlot, Wifi!StopServer
<1> HIDE DEF d
<1>8. /\ \A j \in Wifi!Slots \ {d} : slot'[j] = slot[j]
      /\ slot'[d].owner = None /\ slot'[d].lport = 0
  BY <1>1, <1>4, <1>7 DEF SlotRecords
<1>9. slot'[d].conn = slot[d].conn
  BY <1>1, <1>4, <1>7 DEF SlotRecords
<1>10. /\ ~ server'[d] /\ \A j \in Wifi!Slots \ {d} : server'[j] = server[j]
       /\ \A j \in Wifi!Slots : pending'[j] => pending[j] /\ server'[j]
       /\ request'[p] = Wifi!NoRequest /\ \A q \in ServerPorts \ {p} : request'[q] = request[q]
  <2>1. server \in [Wifi!Slots -> BOOLEAN] /\ DOMAIN request = ServerPorts
    BY DEF WifiInv, Wifi!TypeOK
  <2>2. ~ server'[d] /\ \A j \in Wifi!Slots \ {d} : server'[j] = server[j]
    BY <1>4, <1>7, <2>1
  <2>3. \A j \in Wifi!Slots : pending'[j] => pending[j] /\ server'[j]
    BY <1>2
  <2>4. request'[p] = Wifi!NoRequest /\ \A q \in ServerPorts \ {p} : request'[q] = request[q]
    BY <1>2, <2>1
  <2> QED BY <2>2, <2>3, <2>4
<1>11. \A t \in Tcp : Wifi!Connected(t) => context[t] # d
  BY <1>2, <1>4, OwnSlots
<1>12. link[d] = "none" /\ ~ slot[d].conn
  <2>1. link[d] = "none" BY <1>4, <1>6, <1>11, LinkedTo
  <2>2. ~ slot[d].conn BY <1>4, <1>6, <1>11 DEF WifiInv, Rest, ServerSlots, Wifi!Connected
  <2> QED BY <2>1, <2>2
<1>13. \A u \in Udp : bound[u] => context[u] # d
  BY <1>4, OwnSlots
<1>14. \A t \in Tcp :
         /\ Wifi!Connected(t)' <=> Wifi!Connected(t)
         /\ state'[t] = "ESTABLISHED" <=> state[t] = "ESTABLISHED"
         /\ state'[t] = "CLOSE_WAIT" <=> state[t] = "CLOSE_WAIT"
         /\ Wifi!Listening(t)' <=> Wifi!Listening(t) /\ request[p] # t
  <2>1. CASE request[p] = None
    <3>1. state' = state BY <2>1 DEF Wifi!Unlisten
    <3> QED BY <1>1, <2>1, <3>1 DEF Wifi!Connected, Wifi!Listening
  <2>2. CASE request[p] # None
    <3>1. /\ state[request[p]] = "LISTEN"
          /\ state' = [state EXCEPT ![request[p]] = "CLOSED"]
      BY <2>2 DEF Wifi!Unlisten
    <3>2. request[p] \in Tcp /\ DOMAIN state = Tcp
      BY <1>2, <2>2 DEF WifiInv, Wifi!TypeOK
    <3>3. state'[request[p]] = "CLOSED" /\ \A t \in Tcp \ {request[p]} : state'[t] = state[t]
      BY <3>1, <3>2
    <3> QED BY <3>1, <3>2, <3>3 DEF Wifi!Connected, Wifi!Listening
  <2> QED BY <2>1, <2>2
<1>15. \A t \in Tcp : Wifi!Listening(t) /\ request[p] # t => context[t] # d /\ port[t] # p
  BY <1>4, OwnSlots
<1>16. FreeSlots'
  BY <1>1, <1>3, <1>8, <1>9, <1>10, <1>12 DEF WifiInv, Rest, FreeSlots, InUse
<1>17. ServerSlots'
  BY <1>1, <1>3, <1>5, <1>8, <1>9, <1>10, <1>12, <1>14 DEF WifiInv, Rest, ServerSlots, InUse
<1>18. OneSlotEach'
  BY <1>1, <1>8 DEF WifiInv, Rest, OneSlotEach
<1>19. RequestServed'
  BY <1>4, <1>8, <1>10 DEF WifiInv, Rest, RequestServed, InUse
<1>20. Listeners'
  <2>1. ASSUME NEW q \in ServerPorts, request'[q] \in Tcp
        PROVE  Wifi!Listening(request[q])' /\ port'[request'[q]] = q
    <3>1. q # p BY <1>1, <1>10, <2>1
    <3>2. request[q] \in Tcp /\ Wifi!Listening(request[q]) /\ port[request[q]] = q
      BY <1>10, <2>1, <3>1 DEF WifiInv, Rest, Listeners
    <3>3. request[p] # request[q]
      BY <3>1, <3>2 DEF WifiInv, Rest, Listeners
    <3>4. request'[q] = request[q] BY <1>10, <3>1
    <3>5. state'[request[q]] \in {"LISTEN", "SYN_RECEIVED"}
      BY <1>14, <3>2, <3>3 DEF Wifi!Listening
    <3> QED BY <1>3, <3>2, <3>4, <3>5 DEF Wifi!Listening
  <2>2. ASSUME NEW t \in Tcp, Wifi!Listening(t)'
        PROVE /\ ~ bound'[t] /\ port'[t] \in ServerPorts /\ request'[port'[t]] = t
              /\ slot'[context'[t]].owner = t /\ slot'[context'[t]].lport = port'[t]
              /\ ~ slot'[context'[t]].conn /\ link'[context'[t]] = "none"
    <3>1. Wifi!Listening(t) /\ request[p] # t BY <1>14, <2>2
    <3>2. context[t] \in Wifi!Slots \ {d} /\ port[t] # p BY <1>1, <1>15, <3>1
    <3> QED BY <1>3, <1>8, <1>10, <3>1, <3>2, OwnSlots
  <2> QED BY <2>1, <2>2 DEF Listeners
<1>21. Connections'
  <2>1. \A t \in Tcp : Wifi!Connected(t) =>
          /\ context[t] \in Wifi!Slots \ {d}
          /\ port[t] \in ServerPorts => request'[port[t]] = request[port[t]]
    BY <1>1, <1>2, <1>10, <1>11
  <2> QED BY <1>3, <1>8, <1>14, <2>1 DEF WifiInv, Rest, Connections
<1>22. UdpUsers'
  BY <1>1, <1>3, <1>8, <1>13 DEF WifiInv, Rest, UdpUsers
<1>23. Owners'
  <2>1. ASSUME NEW j \in Wifi!Slots, slot'[j].owner \in Udp
        PROVE  bound'[slot'[j].owner] /\ context'[slot'[j].owner] = j
    BY <1>1, <1>3, <1>8, <2>1 DEF WifiInv, Rest, Owners
  <2>2. ASSUME NEW j \in Wifi!Slots, slot'[j].owner \in Tcp, slot'[j].lport \notin ServerPorts,
               ~ OpenMayFail
        PROVE  Wifi!Connected(slot[j].owner)' /\ context'[slot'[j].owner] = j
    <3>1. j # d BY <1>1, <1>8, <2>2
    <3>2. slot'[j] = slot[j] BY <1>8, <3>1
    <3>3. slot[j].owner \in Tcp /\ Wifi!Connected(slot[j].owner) /\ context[slot[j].owner] = j
      BY <2>2, <3>2 DEF WifiInv, Rest, Owners
    <3>4. state'[slot[j].owner] \in {"ESTABLISHED", "CLOSE_WAIT"}
      BY <1>14, <3>3 DEF Wifi!Connected
    <3> QED BY <1>3, <3>2, <3>3, <3>4 DEF Wifi!Connected
  <2> QED BY <2>1, <2>2 DEF Owners
<1>24. Links'
  BY <1>3, <1>14 DEF WifiInv, Rest, Links, Wifi!Uses
<1>25. ClosedKnown'
  BY <1>3, <1>14 DEF WifiInv, Rest, ClosedKnown
<1> QED BY <1>16, <1>17, <1>18, <1>19, <1>20, <1>21, <1>22, <1>23, <1>24, <1>25 DEF Rest

-----------------------------------------------------------------------------
(* the services of UDP sockets;                                             *)
LEMMA UdpBindKeeps ==
  ASSUME Given, WifiInv, Wifi!TypeOK', NEW u \in Udp, Wifi!UdpBind(u)
  PROVE  Rest'
<1> DEFINE i == Wifi!FreeSlot
<1>1. /\ \A t \in Wifi!Sockets : t # None /\ t # Wifi!NoRequest /\ context[t] \in Wifi!Slots
      /\ \A t \in Tcp : t \in Wifi!Sockets /\ t \notin Udp
      /\ \A v \in Udp : v \in Wifi!Sockets /\ v \notin Tcp
      /\ slot \in [Wifi!Slots -> SlotRecords]
  BY Names DEF WifiInv
<1>2. ~ bound[u] /\ i \in Wifi!Slots /\ ~ InUse(i) /\ i # SlotCount
  BY RoomForUdp DEF Wifi!UdpBind, Wifi!Slots, Given, Wifi!OffloadAssumption
<1>3. /\ slot' = [slot EXCEPT ![i].owner = u, ![i].rport = 0]
      /\ context' = [context EXCEPT ![u] = i]
      /\ bound' = [bound EXCEPT ![u] = TRUE]
      /\ link' = link
  BY <1>2 DEF Wifi!UdpBind
<1>4. /\ port' = port /\ request' = request /\ state' = state
      /\ server' = server /\ pending' = pending
  BY DEF Wifi!UdpBind
<1> HIDE DEF i
<1>5. /\ slot[i].lport \notin ServerPorts /\ ~ slot[i].conn /\ ~ server[i] /\ link[i] = "none"
  BY <1>2 DEF WifiInv, Rest, FreeSlots
<1>6. /\ \A j \in Wifi!Slots \ {i} : slot'[j] = slot[j]
      /\ slot'[i].lport = slot[i].lport /\ slot'[i].rport = 0
      /\ slot'[i].proto = slot[i].proto /\ slot'[i].owner = u
  BY <1>1, <1>2, <1>3 DEF SlotRecords
<1>7. slot'[i].client = slot[i].client /\ slot'[i].conn = slot[i].conn
  BY <1>1, <1>2, <1>3 DEF SlotRecords
<1>8. /\ context'[u] = i /\ \A t \in Wifi!Sockets \ {u} : context'[t] = context[t]
      /\ bound'[u] /\ \A t \in Wifi!Sockets \ {u} : bound'[t] = bound[t]
  <2>1. bound \in [Wifi!Sockets -> BOOLEAN] /\ DOMAIN context = Wifi!Sockets
    BY DEF WifiInv, Wifi!TypeOK
  <2> QED BY <1>1, <1>2, <1>3, <2>1
<1>9. \A t \in Wifi!Sockets :
        (t \in Tcp => Wifi!Connected(t) \/ Wifi!Listening(t)) /\ (t \in Udp => bound[t]) =>
          context[t] # i /\ t # u
  <2>1. ASSUME NEW t \in Tcp, Wifi!Connected(t) \/ Wifi!Listening(t) PROVE context[t] # i /\ t # u
    BY <1>1, <1>2, <2>1, OwnSlots DEF InUse
  <2>2. ASSUME NEW t \in Udp, bound[t] PROVE context[t] # i /\ t # u
    BY <1>1, <1>2, <2>2, OwnSlots DEF InUse
  <2> QED BY <2>1, <2>2 DEF Wifi!Sockets
<1>12. FreeSlots'
  BY <1>1, <1>3, <1>4, <1>6 DEF WifiInv, Rest, FreeSlots, InUse
<1>13. ServerSlots'
  BY <1>1, <1>3, <1>4, <1>5, <1>6, <1>7, <1>8 DEF WifiInv, Rest, ServerSlots, InUse
<1>14. OneSlotEach'
  BY <1>6 DEF WifiInv, Rest, OneSlotEach
<1>15. RequestServed'
  BY <1>1, <1>4, <1>5, <1>6 DEF WifiInv, Rest, RequestServed, InUse
<1>16. Listeners'
  <2>1. \A t \in Tcp : Wifi!Listening(t)' => Wifi!Listening(t) /\ context[t] \in Wifi!Slots \ {i} /\ t # u
    BY <1>1, <1>4, <1>9 DEF Wifi!Listening
  <2>2. \A q \in ServerPorts : request'[q] \in Tcp => Wifi!Listening(request[q])' /\ port'[request'[q]] = q
    BY <1>4 DEF WifiInv, Rest, Listeners, Wifi!Listening
  <2>3. ASSUME NEW t \in Tcp, Wifi!Listening(t)'
        PROVE /\ ~ bound'[t] /\ port'[t] \in ServerPorts /\ request'[port'[t]] = t
              /\ slot'[context'[t]].owner = t /\ slot'[context'[t]].lport = port'[t]
              /\ ~ slot'[context'[t]].conn /\ link'[context'[t]] = "none"
    <3>1. Wifi!Listening(t) /\ context[t] \in Wifi!Slots \ {i} /\ t \in Wifi!Sockets \ {u} BY <1>1, <2>1, <2>3
    <3>2. context'[t] = context[t] /\ slot'[context[t]] = slot[context[t]] /\ bound'[t] = bound[t]
      BY <1>6, <1>8, <3>1
    <3>3. /\ ~ bound[t] /\ port[t] \in ServerPorts /\ request[port[t]] = t
          /\ slot[context[t]].owner = t /\ slot[context[t]].lport = port[t]
          /\ ~ slot[context[t]].conn /\ link[context[t]] = "none"
      BY <3>1, OwnSlots
    <3> QED BY <1>3, <1>4, <3>2, <3>3
  <2> QED BY <2>2, <2>3 DEF Listeners
<1>17. Connections'
  <2>1. \A t \in Tcp : Wifi!Connected(t)' =>
          Wifi!Connected(t) /\ context[t] \in Wifi!Slots \ {i} /\ t \in Wifi!Sockets \ {u}
    BY <1>1, <1>4, <1>9 DEF Wifi!Connected
  <2>2. \A t \in Tcp : Wifi!Connected(t)' =>
          /\ Wifi!Connected(t) /\ context'[t] = context[t] /\ bound'[t] = bound[t]
          /\ slot'[context[t]] = slot[context[t]]
    BY <1>6, <1>8, <2>1
  <2> SUFFICES ASSUME NEW t \in Tcp, Wifi!Connected(t)'
               PROVE
    /\ slot'[context'[t]].owner = t /\ slot'[context'[t]].proto = "TCP"
    /\ slot'[context'[t]].lport = port'[t] /\ slot'[context'[t]].rport = 1
    /\ link'[context'[t]] # "none"
    /\ IF bound'[t]
         THEN /\ port'[t] \in ServerPorts /\ request'[port'[t]] = None
              /\ state'[t] = "ESTABLISHED" => slot'[context'[t]].conn
         ELSE port'[t] \in ClientPorts /\ slot'[context'[t]].client
    BY DEF Connections
  <2>3. /\ Wifi!Connected(t) /\ context'[t] = context[t] /\ bound'[t] = bound[t]
        /\ slot'[context'[t]] = slot[context[t]]
    BY <2>2
  <2> QED BY <1>3, <1>4, <2>3 DEF WifiInv, Rest, Connections
<1>18. UdpUsers'
  <2> SUFFICES ASSUME NEW v \in Udp, bound'[v]
               PROVE
      /\ slot'[context'[v]].owner = v /\ slot'[context'[v]].lport \notin ServerPorts
      /\ slot'[context'[v]].rport = 0 <=> link'[context'[v]] = "none"
    BY DEF UdpUsers
  <2>1. CASE v = u BY <1>3, <1>5, <1>6, <1>8, <2>1
  <2>2. CASE v # u
    <3>1. bound[v] /\ context'[v] = context[v] /\ context[v] \in Wifi!Slots \ {i}
      BY <1>1, <1>8, <1>9, <2>2
    <3>2. slot'[context[v]] = slot[context[v]] BY <1>6, <3>1
    <3>3. /\ slot[context[v]].owner = v /\ slot[context[v]].lport \notin ServerPorts
          /\ slot[context[v]].rport = 0 <=> link[context[v]] = "none"
      BY <3>1, OwnSlots
    <3> QED BY <1>3, <3>1, <3>2, <3>3
  <2> QED BY <2>1, <2>2
<1>19. Owners'
  <2>1. ASSUME NEW j \in Wifi!Slots, slot'[j].owner \in Udp
        PROVE  bound'[slot'[j].owner] /\ context'[slot'[j].owner] = j
    <3>1. CASE j = i BY <1>6, <1>8, <3>1
    <3>2. CASE j # i
      <4>1. bound[slot[j].owner] /\ context[slot[j].owner] = j /\ slot[j].owner \in Udp
        BY <1>6, <2>1, <3>2 DEF WifiInv, Rest, Owners
      <4> QED BY <1>1, <1>2, <1>6, <1>8, <3>2, <4>1
    <3> QED BY <3>1, <3>2
  <2>2. ASSUME NEW j \in Wifi!Slots, slot'[j].owner \in Tcp, slot'[j].lport \notin ServerPorts,
               ~ OpenMayFail
        PROVE  Wifi!Connected(slot[j].owner)' /\ context'[slot'[j].owner] = j
    BY <1>1, <1>4, <1>6, <1>8, <2>2 DEF WifiInv, Rest, Owners, Wifi!Connected
  <2> QED BY <2>1, <2>2 DEF Owners
<1>20. Links'
  <2> SUFFICES ASSUME NEW j \in Wifi!Slots, link'[j] # "none" PROVE \E t \in Wifi!Sockets : Wifi!Uses(t, j)'
    BY DEF Links
  <2>1. PICK t \in Wifi!Sockets : Wifi!Uses(t, j) BY <1>3 DEF WifiInv, Rest, Links
  <2>2. t # u BY <1>2, <2>1 DEF Wifi!Uses
  <2>3. Wifi!Uses(t, j)' BY <1>4, <1>8, <2>1, <2>2 DEF Wifi!Uses, Wifi!Connected
  <2> QED BY <2>3
<1>21. ClosedKnown'
  BY <1>1, <1>3, <1>4, <1>8 DEF WifiInv, Rest, ClosedKnown
<1> QED BY <1>12, <1>13, <1>14, <1>15, <1>16, <1>17, <1>18, <1>19, <1>20, <1>21 DEF Rest

LEMMA UdpUnbindKeeps ==
  ASSUME Given, WifiInv, Wifi!TypeOK', NEW u \in Udp, Wifi!UdpUnbind(u)
  PROVE  Rest'
<1> DEFINE i == context[u]
<1>1. /\ \A t \in Wifi!Sockets : t # None /\ t # Wifi!NoRequest /\ context[t] \in Wifi!Slots
      /\ \A t \in Tcp : t \in Wifi!Sockets /\ t \notin Udp
      /\ \A v \in Udp : v \in Wifi!Sockets /\ v \notin Tcp
      /\ slot \in [Wifi!Slots -> SlotRecords]
  BY Names DEF WifiInv
<1>2. /\ i \in Wifi!Slots /\ slot[i].owner = u /\ slot[i].lport \notin ServerPorts
      /\ slot[i].rport = 0 <=> link[i] = "none"
  BY OwnSlots DEF Wifi!UdpUnbind
<1>3. /\ slot' = [slot EXCEPT ![i].owner = None]
      /\ link' = [link EXCEPT ![i] = "none"]
  BY <1>2 DEF Wifi!UdpUnbind, Wifi!UdpUnbindSlot, WifiInv, Wifi!TypeOK
<1>4. context' = context /\ port' = port /\ request' = request /\ state' = state
  BY DEF Wifi!UdpUnbind
<1>5. server' = server /\ pending' = pending /\ bound' = [bound EXCEPT ![u] = FALSE]
  BY DEF Wifi!UdpUnbind
<1> HIDE DEF i
<1>6. /\ \A j \in Wifi!Slots \ {i} : slot'[j] = slot[j]
      /\ slot'[i].lport = slot[i].lport /\ slot'[i].rport = slot[i].rport
      /\ slot'[i].proto = slot[i].proto /\ slot'[i].owner = None
  BY <1>1, <1>2, <1>3 DEF SlotRecords
<1>7. slot'[i].client = slot[i].client /\ slot'[i].conn = slot[i].conn
  BY <1>1, <1>2, <1>3 DEF SlotRecords
<1>8. /\ link'[i] = "none" /\ \A j \in Wifi!Slots \ {i} : link'[j] = link[j]
      /\ ~ bound'[u] /\ \A t \in Wifi!Sockets \ {u} : bound'[t] = bound[t]
  <2>1. link \in [Wifi!Slots -> {"none", "open", "closed by peer"}] /\ bound \in [Wifi!Sockets -> BOOLEAN]
    BY DEF WifiInv, Wifi!TypeOK
  <2> QED BY <1>1, <1>2, <1>3, <1>5, <2>1
<1>10. ~ slot[i].conn /\ ~ server[i]
  BY <1>1, <1>2 DEF WifiInv, Rest, ServerSlots
<1>11. \A t \in Wifi!Sockets \ {u} :
         (t \in Tcp => Wifi!Connected(t) \/ Wifi!Listening(t)) /\ (t \in Udp => bound[t]) => context[t] # i
  <2>1. ASSUME NEW t \in Tcp, t # u, Wifi!Connected(t) \/ Wifi!Listening(t) PROVE context[t] # i
    BY <2>1, <1>2, OwnSlots
  <2>2. ASSUME NEW t \in Udp, t # u, bound[t] PROVE context[t] # i
    BY <2>2, <1>1, <1>2, OwnSlots
  <2> QED BY <2>1, <2>2 DEF Wifi!Sockets
<1>12. FreeSlots'
  BY <1>2, <1>5, <1>6, <1>7, <1>8, <1>10 DEF WifiInv, Rest, FreeSlots, InUse
<1>13. ServerSlots'
  BY <1>1, <1>2, <1>4, <1>5, <1>6, <1>7, <1>8, <1>10
  DEF WifiInv, Rest, ServerSlots, InUse
<1>14. OneSlotEach'
  BY <1>6 DEF WifiInv, Rest, OneSlotEach
<1>15. RequestServed'
  BY <1>1, <1>2, <1>4, <1>6 DEF WifiInv, Rest, RequestServed, InUse
<1>16. Listeners'
  BY <1>1, <1>2, <1>4, <1>6, <1>8, <1>11
  DEF WifiInv, Rest, Listeners, Wifi!Listening
<1>17. Connections'
  <2>1. \A t \in Tcp : Wifi!Connected(t)' => Wifi!Connected(t) /\ context[t] \in Wifi!Slots \ {i}
    BY <1>1, <1>4, <1>11 DEF Wifi!Connected
  <2> QED BY <1>1, <1>4, <1>6, <1>8, <2>1 DEF WifiInv, Rest, Connections
<1>18. UdpUsers'
  BY <1>1, <1>2, <1>4, <1>6, <1>8, <1>11 DEF WifiInv, Rest, UdpUsers
<1>19. Owners'
  <2>1. ASSUME NEW j \in Wifi!Slots, slot'[j].owner \in Udp
        PROVE  bound'[slot'[j].owner] /\ context'[slot'[j].owner] = j
    BY <1>1, <1>2, <1>4, <1>6, <1>8, <2>1 DEF WifiInv, Rest, Owners, i
  <2>2. ASSUME NEW j \in Wifi!Slots, slot'[j].owner \in Tcp, slot'[j].lport \notin ServerPorts,
               ~ OpenMayFail
        PROVE  Wifi!Connected(slot[j].owner)' /\ context'[slot'[j].owner] = j
    BY <1>1, <1>4, <1>6, <2>2 DEF WifiInv, Rest, Owners, Wifi!Connected
  <2> QED BY <2>1, <2>2 DEF Owners
<1>20. Links'
  BY <1>1, <1>2, <1>4, <1>8 DEF WifiInv, Rest, Links, Wifi!Uses, Wifi!Connected, i
<1>21. ClosedKnown'
  <2> SUFFICES ASSUME NEW t \in Tcp, state'[t] = "CLOSE_WAIT"
               PROVE  link'[context'[t]] = "closed by peer"
    BY DEF ClosedKnown
  <2>1. state[t] = "CLOSE_WAIT" BY <1>4
  <2>2. context[t] # i /\ context[t] \in Wifi!Slots
    BY <1>1, <1>11, <2>1 DEF Wifi!Connected
  <2> QED BY <1>4, <1>8, <2>1, <2>2 DEF WifiInv, Rest, ClosedKnown
<1> QED BY <1>12, <1>13, <1>14, <1>15, <1>16, <1>17, <1>18, <1>19, <1>20, <1>21 DEF Rest

LEMMA UdpSendKeeps ==
  ASSUME Given, WifiInv, Wifi!TypeOK', NEW u \in Udp, NEW p \in ClientPorts, Wifi!UdpSend(u, p)
  PROVE  Rest'
<1> DEFINE i == context[u]
<1>1. /\ \A t \in Wifi!Sockets : t # None /\ t # Wifi!NoRequest /\ context[t] \in Wifi!Slots
      /\ \A t \in Tcp : t \in Wifi!Sockets /\ t \notin Udp
      /\ \A v \in Udp : v \in Wifi!Sockets /\ v \notin Tcp
      /\ p \notin ServerPorts
      /\ slot \in [Wifi!Slots -> SlotRecords]
  BY Names DEF WifiInv
<1>2. /\ i \in Wifi!Slots /\ slot[i].owner = u /\ slot[i].lport \notin ServerPorts
      /\ slot[i].rport = 0 /\ link[i] = "none" /\ bound[u]
  BY OwnSlots DEF Wifi!UdpSend
<1>3. /\ slot' = [slot EXCEPT ![i].lport = p, ![i].rport = 1, ![i].proto = "UDP",
                              ![i].client = TRUE]
      /\ link' = [link EXCEPT ![i] = "open"]
  BY DEF Wifi!UdpSend
<1>4. context' = context /\ port' = port /\ request' = request /\ state' = state
  BY DEF Wifi!UdpSend, Wifi!stackVars
<1>5. server' = server /\ pending' = pending /\ bound' = bound
  BY DEF Wifi!UdpSend, Wifi!stackVars
<1> HIDE DEF i
<1>6. /\ \A j \in Wifi!Slots \ {i} : slot'[j] = slot[j]
      /\ slot'[i].lport = p /\ slot'[i].rport = 1
      /\ slot'[i].proto = "UDP" /\ slot'[i].owner = u
  BY <1>1, <1>2, <1>3 DEF SlotRecords
<1>7. slot'[i].client /\ slot'[i].conn = slot[i].conn
  BY <1>1, <1>2, <1>3 DEF SlotRecords
<1>8. /\ link'[i] = "open" /\ \A j \in Wifi!Slots \ {i} : link'[j] = link[j]
  <2>1. link \in [Wifi!Slots -> {"none", "open", "closed by peer"}]
    BY DEF WifiInv, Wifi!TypeOK
  <2> QED BY <1>2, <1>3, <2>1
<1>10. ~ slot[i].conn /\ ~ server[i] /\ ~ pending[i]
  BY <1>1, <1>2 DEF WifiInv, Rest, ServerSlots
<1>11. \A t \in Wifi!Sockets \ {u} :
         (t \in Tcp => Wifi!Connected(t) \/ Wifi!Listening(t)) /\ (t \in Udp => bound[t]) => context[t] # i
  <2>1. ASSUME NEW t \in Tcp, t # u, Wifi!Connected(t) \/ Wifi!Listening(t) PROVE context[t] # i
    BY <2>1, <1>2, OwnSlots
  <2>2. ASSUME NEW t \in Udp, t # u, bound[t] PROVE context[t] # i
    BY <2>2, <1>1, <1>2, OwnSlots
  <2> QED BY <2>1, <2>2 DEF Wifi!Sockets
<1>12. FreeSlots'
  BY <1>1, <1>2, <1>5, <1>6, <1>7, <1>8, <1>10 DEF WifiInv, Rest, FreeSlots, InUse
<1>13. ServerSlots'
  BY <1>1, <1>2, <1>4, <1>5, <1>6, <1>7, <1>8, <1>10
  DEF WifiInv, Rest, ServerSlots, InUse
<1>14. OneSlotEach'
  BY <1>1, <1>6 DEF WifiInv, Rest, OneSlotEach
<1>15. RequestServed'
  BY <1>1, <1>2, <1>4, <1>6 DEF WifiInv, Rest, RequestServed, InUse
<1>16. Listeners'
  BY <1>1, <1>2, <1>4, <1>5, <1>6, <1>8, <1>11
  DEF WifiInv, Rest, Listeners, Wifi!Listening
<1>17. Connections'
  <2>1. \A t \in Tcp : Wifi!Connected(t)' => Wifi!Connected(t) /\ context[t] \in Wifi!Slots \ {i}
    BY <1>1, <1>4, <1>11 DEF Wifi!Connected
  <2> QED BY <1>1, <1>4, <1>5, <1>6, <1>8, <2>1 DEF WifiInv, Rest, Connections
<1>18. UdpUsers'
  BY <1>1, <1>2, <1>4, <1>5, <1>6, <1>8, <1>11 DEF WifiInv, Rest, UdpUsers, i
<1>19. Owners'
  <2>1. ASSUME NEW j \in Wifi!Slots, slot'[j].owner \in Udp
        PROVE  bound'[slot'[j].owner] /\ context'[slot'[j].owner] = j
    BY <1>1, <1>2, <1>4, <1>5, <1>6, <2>1 DEF WifiInv, Rest, Owners, i
  <2>2. ASSUME NEW j \in Wifi!Slots, slot'[j].owner \in Tcp, slot'[j].lport \notin ServerPorts,
               ~ OpenMayFail
        PROVE  Wifi!Connected(slot[j].owner)' /\ context'[slot'[j].owner] = j
    BY <1>1, <1>4, <1>6, <2>2 DEF WifiInv, Rest, Owners, Wifi!Connected
  <2> QED BY <2>1, <2>2 DEF Owners
<1>20. Links'
  BY <1>1, <1>2, <1>4, <1>5, <1>8 DEF WifiInv, Rest, Links, Wifi!Uses, Wifi!Connected, i
<1>21. ClosedKnown'
  <2> SUFFICES ASSUME NEW t \in Tcp, state'[t] = "CLOSE_WAIT"
               PROVE  link'[context'[t]] = "closed by peer"
    BY DEF ClosedKnown
  <2>1. state[t] = "CLOSE_WAIT" BY <1>4
  <2>2. context[t] # i /\ context[t] \in Wifi!Slots
    BY <1>1, <1>11, <2>1 DEF Wifi!Connected
  <2> QED BY <1>4, <1>8, <2>1, <2>2 DEF WifiInv, Rest, ClosedKnown
<1> QED BY <1>12, <1>13, <1>14, <1>15, <1>16, <1>17, <1>18, <1>19, <1>20, <1>21 DEF Rest

(* the driver thread, which finds a peer that waits at a slot,              *)
LEMMA EstablishKeeps ==
  ASSUME Given, WifiInv, Wifi!TypeOK', NEW k \in Wifi!Slots, Wifi!Establish(k)
  PROVE  Rest'
<1> DEFINE s == slot[k].owner
           i == context[s]
           p == port[s]
<1>1. /\ \A t \in Wifi!Sockets : t # None /\ t # Wifi!NoRequest /\ context[t] \in Wifi!Slots
      /\ \A t \in Tcp : t \in Wifi!Sockets /\ t \notin Udp
      /\ \A v \in Udp : v \in Wifi!Sockets /\ v \notin Tcp
      /\ slot \in [Wifi!Slots -> SlotRecords] /\ None # Wifi!NoRequest
  BY Names DEF WifiInv
<1>2. /\ s \in Tcp /\ Wifi!Listening(s) /\ pending[i]
  BY DEF Wifi!Establish, Wifi!MayEstablish, Wifi!Listening
<1>3. /\ i \in Wifi!Slots /\ slot[i].owner = s /\ slot[i].lport = p /\ p \in ServerPorts
      /\ request[p] = s /\ ~ bound[s] /\ link[i] = "none" /\ ~ slot[i].conn
  BY <1>2, OwnSlots
<1>4. /\ slot' = [slot EXCEPT ![i].rport = 1, ![i].conn = TRUE]
      /\ link' = [link EXCEPT ![i] = "open"]
      /\ pending' = [pending EXCEPT ![i] = FALSE]
      /\ request' = [request EXCEPT ![p] = None]
      /\ bound' = [bound EXCEPT ![s] = TRUE]
      /\ state' = [state EXCEPT ![s] = "ESTABLISHED"]
  BY DEF Wifi!Establish, Given, Plain
<1>5. context' = context /\ port' = port /\ server' = server
  BY DEF Wifi!Establish
<1> HIDE DEF i, s, p
<1>6. /\ \A j \in Wifi!Slots \ {i} : slot'[j] = slot[j]
      /\ slot'[i].lport = slot[i].lport /\ slot'[i].rport = 1
      /\ slot'[i].proto = slot[i].proto /\ slot'[i].owner = s
  BY <1>1, <1>3, <1>4 DEF SlotRecords
<1>7. slot'[i].client = slot[i].client /\ slot'[i].conn
  BY <1>1, <1>3, <1>4 DEF SlotRecords
<1>8. /\ link'[i] = "open" /\ \A j \in Wifi!Slots \ {i} : link'[j] = link[j]
      /\ \A j \in Wifi!Slots : pending'[j] => pending[j] /\ j # i
      /\ state'[s] = "ESTABLISHED" /\ \A t \in Tcp \ {s} : state'[t] = state[t]
  <2>1. /\ link \in [Wifi!Slots -> {"none", "open", "closed by peer"}] /\ DOMAIN state = Tcp
        /\ pending \in [Wifi!Slots -> BOOLEAN]
    BY DEF WifiInv, Wifi!TypeOK
  <2> QED BY <1>2, <1>3, <1>4, <2>1
<1>9. /\ bound'[s] /\ \A t \in Wifi!Sockets \ {s} : bound'[t] = bound[t]
      /\ request'[p] = None /\ \A q \in ServerPorts \ {p} : request'[q] = request[q]
  <2>1. /\ bound \in [Wifi!Sockets -> BOOLEAN] /\ DOMAIN request = ServerPorts
    BY DEF WifiInv, Wifi!TypeOK
  <2> QED BY <1>1, <1>2, <1>3, <1>4, <2>1
<1>10. /\ slot[i].proto = "TCP" /\ ~ slot[i].client /\ server[i]
  BY <1>1, <1>2, <1>3 DEF WifiInv, Rest, ServerSlots, InUse
<1>11. \A t \in Wifi!Sockets \ {s} :
         (t \in Tcp => Wifi!Connected(t) \/ Wifi!Listening(t)) /\ (t \in Udp => bound[t]) => context[t] # i
  <2>1. ASSUME NEW t \in Tcp, t # s, Wifi!Connected(t) \/ Wifi!Listening(t) PROVE context[t] # i
    BY <2>1, <1>3, OwnSlots
  <2>2. ASSUME NEW t \in Udp, bound[t] PROVE context[t] # i
    BY <2>2, <1>1, <1>2, <1>3, OwnSlots
  <2> QED BY <2>1, <2>2 DEF Wifi!Sockets
<1>12. FreeSlots'
  BY <1>1, <1>2, <1>3, <1>5, <1>6, <1>7, <1>8 DEF WifiInv, Rest, FreeSlots, InUse
<1>13. ServerSlots'
  <2>1. ASSUME NEW j \in Wifi!Slots, InUse(j)', slot'[j].lport \in ServerPorts
        PROVE  /\ slot'[j].proto = "TCP" /\ ~ slot'[j].client /\ server'[j]
               /\ request'[slot'[j].lport] # Wifi!NoRequest /\ slot'[j].owner \in Tcp
    BY <1>1, <1>2, <1>3, <1>5, <1>6, <1>7, <1>9, <1>10, <2>1
    DEF WifiInv, Rest, ServerSlots, InUse
  <2>2. ASSUME NEW j \in Wifi!Slots
        PROVE  /\ server'[j] => slot'[j].lport \in ServerPorts
               /\ pending'[j] => server'[j] /\ link'[j] = "none"
    BY <1>5, <1>6, <1>8 DEF WifiInv, Rest, ServerSlots
  <2>3. ASSUME NEW j \in Wifi!Slots, slot'[j].conn
        PROVE /\ slot'[j].owner \in Tcp /\ context'[slot'[j].owner] = j
              /\ state'[slot'[j].owner] = "ESTABLISHED"
              /\ slot'[j].lport \in ServerPorts
    BY <1>2, <1>3, <1>5, <1>6, <1>8, <2>3 DEF WifiInv, Rest, ServerSlots, i
  <2> QED BY <2>1, <2>2, <2>3 DEF ServerSlots
<1>14. OneSlotEach'
  BY <1>6 DEF WifiInv, Rest, OneSlotEach
<1>15. RequestServed'
  <2>1. request[p] # Wifi!NoRequest BY <1>1, <1>2, <1>3
  <2> QED BY <1>1, <1>2, <1>3, <1>6, <1>9, <2>1 DEF WifiInv, Rest, RequestServed, InUse
<1>16. Listeners'
  <2>1. ASSUME NEW q \in ServerPorts, request'[q] \in Tcp
        PROVE  Wifi!Listening(request[q])' /\ port'[request'[q]] = q
    <3>1. q # p BY <1>1, <1>9, <2>1
    <3>2. Wifi!Listening(request[q]) /\ port[request[q]] = q /\ request[q] \in Tcp
      BY <1>9, <2>1, <3>1 DEF WifiInv, Rest, Listeners
    <3>3. request[q] # s BY <3>1, <3>2 DEF p
    <3> QED BY <1>5, <1>8, <1>9, <3>1, <3>2, <3>3 DEF Wifi!Listening
  <2>2. ASSUME NEW t \in Tcp, Wifi!Listening(t)'
        PROVE /\ ~ bound'[t] /\ port'[t] \in ServerPorts /\ request'[port'[t]] = t
              /\ slot'[context'[t]].owner = t /\ slot'[context'[t]].lport = port'[t]
              /\ ~ slot'[context'[t]].conn /\ link'[context'[t]] = "none"
    <3>1. t # s /\ Wifi!Listening(t) BY <1>8, <2>2 DEF Wifi!Listening
    <3>2. context[t] \in Wifi!Slots \ {i} BY <1>1, <1>11, <3>1
    <3>3. port[t] # p BY <1>3, <3>1, OwnSlots
    <3> QED BY <1>1, <1>5, <1>6, <1>8, <1>9, <3>1, <3>2, <3>3, OwnSlots
  <2> QED BY <2>1, <2>2 DEF Listeners
<1>17. Connections'
  <2> SUFFICES ASSUME NEW t \in Tcp, Wifi!Connected(t)'
               PROVE
    /\ slot'[context'[t]].owner = t /\ slot'[context'[t]].proto = "TCP"
    /\ slot'[context'[t]].lport = port'[t] /\ slot'[context'[t]].rport = 1
    /\ link'[context'[t]] # "none"
    /\ IF bound'[t]
         THEN /\ port'[t] \in ServerPorts /\ request'[port'[t]] = None
              /\ state'[t] = "ESTABLISHED" => slot'[context'[t]].conn
         ELSE port'[t] \in ClientPorts /\ slot'[context'[t]].client
    BY DEF Connections
  <2>1. CASE t = s
    BY <1>3, <1>5, <1>6, <1>7, <1>8, <1>9, <1>10, <2>1 DEF i, p
  <2>2. CASE t # s
    <3>1. Wifi!Connected(t) BY <1>8, <2>2 DEF Wifi!Connected
    <3>2. context[t] \in Wifi!Slots \ {i} BY <1>1, <1>11, <2>2, <3>1
    <3> QED BY <1>1, <1>5, <1>6, <1>8, <1>9, <2>2, <3>1, <3>2 DEF WifiInv, Rest, Connections
  <2> QED BY <2>1, <2>2
<1>18. UdpUsers'
  BY <1>1, <1>2, <1>5, <1>6, <1>8, <1>9, <1>11 DEF WifiInv, Rest, UdpUsers
<1>19. Owners'
  <2>1. ASSUME NEW j \in Wifi!Slots, slot'[j].owner \in Udp
        PROVE  bound'[slot'[j].owner] /\ context'[slot'[j].owner] = j
    BY <1>1, <1>2, <1>5, <1>6, <1>9, <2>1 DEF WifiInv, Rest, Owners
  <2>2. ASSUME NEW j \in Wifi!Slots, slot'[j].owner \in Tcp, slot'[j].lport \notin ServerPorts,
               ~ OpenMayFail
        PROVE  Wifi!Connected(slot[j].owner)' /\ context'[slot'[j].owner] = j
    BY <1>1, <1>2, <1>3, <1>5, <1>6, <1>8, <2>2 DEF WifiInv, Rest, Owners, Wifi!Connected
  <2> QED BY <2>1, <2>2 DEF Owners
<1>20. Links'
  <2> SUFFICES ASSUME NEW j \in Wifi!Slots, link'[j] # "none" PROVE \E t \in Wifi!Sockets : Wifi!Uses(t, j)'
    BY DEF Links
  <2>1. CASE j = i
    <3>1. PICK t \in Wifi!Sockets : t = s BY <1>1, <1>2
    <3>2. Wifi!Uses(t, j)' BY <1>1, <1>2, <1>5, <1>8, <2>1, <3>1 DEF Wifi!Uses, Wifi!Connected, i
    <3> QED BY <3>2
  <2>2. CASE j # i
    <3>1. PICK t \in Wifi!Sockets : Wifi!Uses(t, j) BY <1>8, <2>2 DEF WifiInv, Rest, Links
    <3>2. Wifi!Uses(t, j)' BY <1>1, <1>2, <1>5, <1>8, <1>9, <3>1 DEF Wifi!Uses, Wifi!Connected
    <3> QED BY <3>2
  <2> QED BY <2>1, <2>2
<1>21. ClosedKnown'
  <2> SUFFICES ASSUME NEW t \in Tcp, state'[t] = "CLOSE_WAIT"
               PROVE  link'[context'[t]] = "closed by peer"
    BY DEF ClosedKnown
  <2>1. state[t] = "CLOSE_WAIT" /\ t # s BY <1>8
  <2>2. context[t] # i /\ context[t] \in Wifi!Slots
    BY <1>1, <1>11, <2>1 DEF Wifi!Connected
  <2> QED BY <1>5, <1>8, <2>1, <2>2 DEF WifiInv, Rest, ClosedKnown
<1> QED BY <1>12, <1>13, <1>14, <1>15, <1>16, <1>17, <1>18, <1>19, <1>20, <1>21 DEF Rest

(* or one that has closed: what it tells it to is the socket of the slot;   *)
LEMMA ReceiveClosedKeeps ==
  ASSUME Given, WifiInv, Wifi!TypeOK', NEW i \in Wifi!Slots, Wifi!ReceiveClosed(i)
  PROVE  Rest'
<1> DEFINE s == slot[i].owner
<1>1. /\ \A t \in Wifi!Sockets : t # None /\ t # Wifi!NoRequest /\ context[t] \in Wifi!Slots
      /\ \A t \in Tcp : t \in Wifi!Sockets /\ t \notin Udp
      /\ \A v \in Udp : v \in Wifi!Sockets /\ v \notin Tcp
      /\ slot \in [Wifi!Slots -> SlotRecords]
  BY Names DEF WifiInv
<1>2. /\ s \in Tcp /\ link[i] = "closed by peer"
  BY DEF Wifi!ReceiveClosed, Wifi!MayReceiveClosed
<1>3. context[s] = i /\ Wifi!Connected(s)
  BY <1>2, LinkedTo
<1>4. /\ slot' = [slot EXCEPT ![i].conn = FALSE]
      /\ state' = [state EXCEPT ![s] = IF @ = "ESTABLISHED" THEN "CLOSE_WAIT" ELSE @]
  BY DEF Wifi!ReceiveClosed
<1>5. /\ context' = context /\ port' = port /\ bound' = bound /\ request' = request
      /\ link' = link /\ server' = server /\ pending' = pending
  BY DEF Wifi!ReceiveClosed, Wifi!moduleVars
<1> HIDE DEF s
<1>6. /\ \A j \in Wifi!Slots \ {i} : slot'[j] = slot[j]
      /\ slot'[i].lport = slot[i].lport /\ slot'[i].rport = slot[i].rport
      /\ slot'[i].proto = slot[i].proto /\ slot'[i].owner = slot[i].owner
  BY <1>1, <1>4 DEF SlotRecords
<1>7. slot'[i].client = slot[i].client /\ ~ slot'[i].conn
  BY <1>1, <1>4 DEF SlotRecords
<1>8. state'[s] = "CLOSE_WAIT" /\ \A t \in Tcp \ {s} : state'[t] = state[t]
  <2>1. DOMAIN state = Tcp BY DEF WifiInv, Wifi!TypeOK
  <2>2. state'[s] = IF state[s] = "ESTABLISHED" THEN "CLOSE_WAIT" ELSE state[s]
    BY <1>2, <1>4, <2>1
  <2>3. state[s] \in {"ESTABLISHED", "CLOSE_WAIT"} BY <1>3 DEF Wifi!Connected
  <2> QED BY <1>4, <2>1, <2>2, <2>3
<1>9. \A t \in Tcp : (Wifi!Connected(t)' <=> Wifi!Connected(t)) /\ (Wifi!Listening(t)' <=> Wifi!Listening(t))
  BY <1>3, <1>8 DEF Wifi!Connected, Wifi!Listening
<1>10. /\ \A j \in Wifi!Slots : slot'[j].owner = slot[j].owner /\ slot'[j].lport = slot[j].lport
       /\ \A j \in Wifi!Slots : slot'[j].rport = slot[j].rport /\ slot'[j].proto = slot[j].proto
  BY <1>6
<1>11. \A j \in Wifi!Slots : (slot'[j].client <=> slot[j].client) /\ (slot'[j].conn => slot[j].conn)
  BY <1>6, <1>7
<1>12. FreeSlots'
  BY <1>5, <1>10, <1>11 DEF WifiInv, Rest, FreeSlots, InUse
<1>13. ServerSlots'
  <2>1. ASSUME NEW j \in Wifi!Slots, slot'[j].conn PROVE state'[slot'[j].owner] = "ESTABLISHED"
    <3>1. /\ j # i /\ slot[j].owner \in Tcp /\ context[slot[j].owner] = j
          /\ state[slot[j].owner] = "ESTABLISHED"
      BY <1>7, <1>11, <2>1 DEF WifiInv, Rest, ServerSlots
    <3> QED BY <1>3, <1>8, <1>10, <3>1
  <2> QED BY <1>5, <1>10, <1>11, <2>1 DEF WifiInv, Rest, ServerSlots, InUse
<1>14. OneSlotEach'
  BY <1>10 DEF WifiInv, Rest, OneSlotEach
<1>15. RequestServed'
  BY <1>5, <1>10 DEF WifiInv, Rest, RequestServed, InUse
<1>16. Listeners'
  BY <1>1, <1>5, <1>9, <1>10, <1>11 DEF WifiInv, Rest, Listeners
<1>17. Connections'
  <2> SUFFICES ASSUME NEW t \in Tcp, Wifi!Connected(t)'
               PROVE
    /\ slot'[context'[t]].owner = t /\ slot'[context'[t]].proto = "TCP"
    /\ slot'[context'[t]].lport = port'[t] /\ slot'[context'[t]].rport = 1
    /\ link'[context'[t]] # "none"
    /\ IF bound'[t]
         THEN /\ port'[t] \in ServerPorts /\ request'[port'[t]] = None
              /\ state'[t] = "ESTABLISHED" => slot'[context'[t]].conn
         ELSE port'[t] \in ClientPorts /\ slot'[context'[t]].client
    BY DEF Connections
  <2>1. CASE t = s
    BY <1>1, <1>3, <1>5, <1>8, <1>10, <1>11, <2>1 DEF WifiInv, Rest, Connections
  <2>2. CASE t # s
    <3>1. Wifi!Connected(t) BY <1>9
    <3>2. context[t] \in Wifi!Slots \ {i} BY <1>1, <2>2, <3>1, OwnSlots DEF s
    <3> QED BY <1>5, <1>6, <1>8, <2>2, <3>1, <3>2 DEF WifiInv, Rest, Connections
  <2> QED BY <2>1, <2>2
<1>18. UdpUsers'
  BY <1>1, <1>5, <1>10 DEF WifiInv, Rest, UdpUsers
<1>19. Owners'
  BY <1>5, <1>9, <1>10 DEF WifiInv, Rest, Owners
<1>20. Links'
  BY <1>5, <1>9 DEF WifiInv, Rest, Links, Wifi!Uses
<1>21. ClosedKnown'
  BY <1>2, <1>3, <1>5, <1>8 DEF WifiInv, Rest, ClosedKnown
<1> QED BY <1>12, <1>13, <1>14, <1>15, <1>16, <1>17, <1>18, <1>19, <1>20, <1>21 DEF Rest

(* and the peers.                                                           *)
LEMMA PeersKeep ==
  ASSUME Given, WifiInv, Wifi!TypeOK', NEW i \in Wifi!Slots, Wifi!PeerConnects(i) \/ Wifi!PeerCloses(i)
  PROVE  Rest'
<1>1. /\ slot' = slot /\ context' = context /\ port' = port /\ bound' = bound
      /\ state' = state /\ request' = request /\ server' = server
  BY DEF Wifi!PeerConnects, Wifi!PeerCloses, Wifi!tableVars, Wifi!stackVars
<1>2. /\ \A j \in Wifi!Slots : link'[j] = "none" <=> link[j] = "none"
      /\ \A j \in Wifi!Slots : link[j] = "closed by peer" => link'[j] = "closed by peer"
  <2>1. CASE Wifi!PeerConnects(i)
    BY <2>1 DEF Wifi!PeerConnects
  <2>2. CASE Wifi!PeerCloses(i)
    <3>1. link[i] = "open" /\ link' = [link EXCEPT ![i] = "closed by peer"]
      BY <2>2 DEF Wifi!PeerCloses
    <3>2. link \in [Wifi!Slots -> {"none", "open", "closed by peer"}]
      BY DEF WifiInv, Wifi!TypeOK
    <3> QED BY <3>1, <3>2
  <2> QED BY <2>1, <2>2
<1>3. \A j \in Wifi!Slots : pending'[j] => server'[j] /\ link'[j] = "none"
  <2>1. \A j \in Wifi!Slots : pending[j] => server[j] /\ link[j] = "none"
    BY DEF WifiInv, Rest, ServerSlots
  <2>2. CASE Wifi!PeerConnects(i)
    <3>1. /\ pending' = [pending EXCEPT ![i] = TRUE] /\ link' = link
          /\ server[i] /\ link[i] = "none"
      BY <2>2 DEF Wifi!PeerConnects
    <3>2. \A j \in Wifi!Slots : pending'[j] => pending[j] \/ j = i
      BY <3>1 DEF WifiInv, Wifi!TypeOK
    <3> QED BY <1>1, <2>1, <3>1, <3>2
  <2>3. CASE Wifi!PeerCloses(i)
    <3>1. pending' = pending BY <2>3 DEF Wifi!PeerCloses
    <3> QED BY <1>1, <1>2, <2>1, <3>1
  <2> QED BY <2>2, <2>3
<1>4. \A t \in Wifi!Sockets : context[t] \in Wifi!Slots
  BY Names DEF WifiInv
<1>5. FreeSlots' /\ OneSlotEach' /\ RequestServed'
  BY <1>1, <1>2 DEF WifiInv, Rest, FreeSlots, OneSlotEach, RequestServed, InUse
<1>6. ServerSlots'
  BY <1>1, <1>3 DEF WifiInv, Rest, ServerSlots, InUse
<1>7. Listeners'
  BY <1>1, <1>2, <1>4, Names DEF WifiInv, Rest, Listeners, Wifi!Listening
<1>8. Connections'
  <2>1. \A t \in Tcp : Wifi!Connected(t)' => Wifi!Connected(t) /\ context[t] \in Wifi!Slots
    BY <1>1, <1>4 DEF Wifi!Connected, Wifi!Sockets
  <2> QED BY ZenonT(60), <1>1, <1>2, <2>1 DEF WifiInv, Rest, Connections
<1>9. UdpUsers'
  BY <1>1, <1>2, <1>4, Names DEF WifiInv, Rest, UdpUsers
<1>10. Owners' /\ Links'
  BY <1>1, <1>2 DEF WifiInv, Rest, Owners, Links, Wifi!Uses, Wifi!Connected
<1>11. ClosedKnown'
  BY <1>1, <1>2, <1>4, Names DEF WifiInv, Rest, ClosedKnown
<1> QED BY <1>3, <1>5, <1>6, <1>7, <1>8, <1>9, <1>10, <1>11 DEF Rest

-----------------------------------------------------------------------------
(* The assignments to the fields of a slot keep the type of the table.      *)
LEMMA SlotUpdates ==
  ASSUME NEW w \in [Wifi!Slots -> SlotRecords], NEW i \in Wifi!Slots
  PROVE  /\ \A s \in Wifi!Sockets \cup {None} : [w EXCEPT ![i].owner = s] \in [Wifi!Slots -> SlotRecords]
         /\ [w EXCEPT ![i].conn = FALSE] \in [Wifi!Slots -> SlotRecords]
         /\ [w EXCEPT ![i].owner = None, ![i].lport = 0] \in [Wifi!Slots -> SlotRecords]
         /\ \A s \in Wifi!Sockets :
              [w EXCEPT ![i].owner = s, ![i].rport = 0] \in [Wifi!Slots -> SlotRecords]
         /\ [w EXCEPT ![i].rport = 1, ![i].conn = TRUE] \in [Wifi!Slots -> SlotRecords]
         /\ \A p \in Wifi!Ports :
              [w EXCEPT ![i].lport = p, ![i].rport = 1, ![i].proto = "UDP", ![i].client = TRUE]
                \in [Wifi!Slots -> SlotRecords]
         /\ \A s \in Wifi!Sockets, p \in Wifi!Ports :
              [w EXCEPT ![i].owner = s, ![i].lport = p, ![i].rport = 1, ![i].proto = "TCP",
                        ![i].client = TRUE] \in [Wifi!Slots -> SlotRecords]
<1>1. w[i] \in SlotRecords OBVIOUS
<1>2. \A r \in SlotRecords : [w EXCEPT ![i] = r] \in [Wifi!Slots -> SlotRecords] OBVIOUS
<1>3. ASSUME NEW s \in Wifi!Sockets \cup {None}
      PROVE  [w EXCEPT ![i].owner = s] \in [Wifi!Slots -> SlotRecords]
  <2> DEFINE r == [w[i] EXCEPT !.owner = s]
  <2>1. r \in SlotRecords BY <1>1 DEF SlotRecords
  <2>2. [w EXCEPT ![i].owner = s] = [w EXCEPT ![i] = r] BY <1>1 DEF SlotRecords
  <2> HIDE DEF r
  <2> QED BY <1>2, <2>1, <2>2
<1>4. [w EXCEPT ![i].conn = FALSE] \in [Wifi!Slots -> SlotRecords]
  <2> DEFINE r == [w[i] EXCEPT !.conn = FALSE]
  <2>1. r \in SlotRecords BY <1>1 DEF SlotRecords
  <2>2. [w EXCEPT ![i].conn = FALSE] = [w EXCEPT ![i] = r] BY <1>1 DEF SlotRecords
  <2> HIDE DEF r
  <2> QED BY <1>2, <2>1, <2>2
<1>5. [w EXCEPT ![i].owner = None, ![i].lport = 0] \in [Wifi!Slots -> SlotRecords]
  <2> DEFINE r == [w[i] EXCEPT !.owner = None, !.lport = 0]
  <2>1. r \in SlotRecords BY <1>1 DEF SlotRecords
  <2>2. [w EXCEPT ![i].owner = None, ![i].lport = 0] = [w EXCEPT ![i] = r] BY <1>1 DEF SlotRecords
  <2> HIDE DEF r
  <2> QED BY <1>2, <2>1, <2>2
<1>6. ASSUME NEW s \in Wifi!Sockets
      PROVE  [w EXCEPT ![i].owner = s, ![i].rport = 0] \in [Wifi!Slots -> SlotRecords]
  <2> DEFINE r == [w[i] EXCEPT !.owner = s, !.rport = 0]
  <2>1. r \in SlotRecords BY <1>1 DEF SlotRecords
  <2>2. [w EXCEPT ![i].owner = s, ![i].rport = 0] = [w EXCEPT ![i] = r] BY <1>1 DEF SlotRecords
  <2> HIDE DEF r
  <2> QED BY <1>2, <2>1, <2>2
<1>7. [w EXCEPT ![i].rport = 1, ![i].conn = TRUE] \in [Wifi!Slots -> SlotRecords]
  <2> DEFINE r == [w[i] EXCEPT !.rport = 1, !.conn = TRUE]
  <2>1. r \in SlotRecords BY <1>1 DEF SlotRecords
  <2>2. [w EXCEPT ![i].rport = 1, ![i].conn = TRUE] = [w EXCEPT ![i] = r] BY <1>1 DEF SlotRecords
  <2> HIDE DEF r
  <2> QED BY <1>2, <2>1, <2>2
<1>8. ASSUME NEW p \in Wifi!Ports
      PROVE  [w EXCEPT ![i].lport = p, ![i].rport = 1, ![i].proto = "UDP", ![i].client = TRUE]
               \in [Wifi!Slots -> SlotRecords]
  <2> DEFINE r == [w[i] EXCEPT !.lport = p, !.rport = 1, !.proto = "UDP", !.client = TRUE]
  <2>1. r \in SlotRecords BY <1>1 DEF SlotRecords
  <2>2. [w EXCEPT ![i].lport = p, ![i].rport = 1, ![i].proto = "UDP", ![i].client = TRUE]
         = [w EXCEPT ![i] = r]
    BY <1>1 DEF SlotRecords
  <2> HIDE DEF r
  <2> QED BY <1>2, <2>1, <2>2
<1>9. ASSUME NEW s \in Wifi!Sockets, NEW p \in Wifi!Ports
      PROVE  [w EXCEPT ![i].owner = s, ![i].lport = p, ![i].rport = 1, ![i].proto = "TCP",
                       ![i].client = TRUE] \in [Wifi!Slots -> SlotRecords]
  <2> DEFINE r == [w[i] EXCEPT !.owner = s, !.lport = p, !.rport = 1, !.proto = "TCP", !.client = TRUE]
  <2>1. r \in SlotRecords BY <1>1 DEF SlotRecords
  <2>2. [w EXCEPT ![i].owner = s, ![i].lport = p, ![i].rport = 1,
                  ![i].proto = "TCP", ![i].client = TRUE]
         = [w EXCEPT ![i] = r]
    BY <1>1 DEF SlotRecords
  <2> HIDE DEF r
  <2> QED BY <1>2, <2>1, <2>2
<1> QED BY <1>3, <1>4, <1>5, <1>6, <1>7, <1>8, <1>9

(* Every step keeps the types.                                              *)
LEMMA TypesKept ==
  ASSUME Given, Wifi!TypeOK, Wifi!Next
  PROVE  Wifi!TypeOK'
<1>1. /\ \A t \in Wifi!Sockets : t # None /\ t # Wifi!NoRequest /\ context[t] \in Wifi!Slots
      /\ slot \in [Wifi!Slots -> SlotRecords] /\ Tcp \subseteq Wifi!Sockets
      /\ ServerPorts \subseteq Wifi!Ports /\ ClientPorts \subseteq Wifi!Ports /\ Udp \subseteq Wifi!Sockets
  BY Names DEF Wifi!Sockets, Wifi!Ports
<1>2. Wifi!TypeOK' <=>
             /\ slot' \in [Wifi!Slots -> SlotRecords]
             /\ context' \in [Wifi!Sockets -> Wifi!Slots]
             /\ state' \in [Tcp -> {"CLOSED", "LISTEN", "SYN_RECEIVED", "ESTABLISHED", "CLOSE_WAIT"}]
             /\ port' \in [Tcp -> Wifi!Ports \cup {0}] /\ bound' \in [Wifi!Sockets -> BOOLEAN]
             /\ request' \in [ServerPorts -> Tcp \cup {None, Wifi!NoRequest}]
             /\ accept' \in [Tcp -> {"none", "tested", "waiting", "failed"}] /\ struck' \in BOOLEAN
             /\ link' \in [Wifi!Slots -> {"none", "open", "closed by peer"}]
             /\ server' \in [Wifi!Slots -> BOOLEAN] /\ pending' \in [Wifi!Slots -> BOOLEAN]
  BY DEF Wifi!TypeOK, SlotRecords
<1>3. /\ context \in [Wifi!Sockets -> Wifi!Slots]
      /\ state \in [Tcp -> {"CLOSED", "LISTEN", "SYN_RECEIVED", "ESTABLISHED", "CLOSE_WAIT"}]
      /\ port \in [Tcp -> Wifi!Ports \cup {0}] /\ bound \in [Wifi!Sockets -> BOOLEAN]
      /\ request \in [ServerPorts -> Tcp \cup {None, Wifi!NoRequest}]
      /\ accept \in [Tcp -> {"none", "tested", "waiting", "failed"}] /\ struck \in BOOLEAN
      /\ link \in [Wifi!Slots -> {"none", "open", "closed by peer"}]
      /\ server \in [Wifi!Slots -> BOOLEAN] /\ pending \in [Wifi!Slots -> BOOLEAN]
  BY DEF Wifi!TypeOK
<1>4. ASSUME NEW s \in Tcp, NEW p \in ClientPorts, Wifi!Connect(s, p) PROVE Wifi!TypeOK'
  <2>1. Wifi!FreeSlot \in Wifi!Slots BY <1>4, FreeSlotIs DEF Wifi!Connect, Given
  <2>2. slot' \in [Wifi!Slots -> SlotRecords]
    <3>1. \/ slot' = [slot EXCEPT ![Wifi!FreeSlot].owner = s, ![Wifi!FreeSlot].lport = p,
                         ![Wifi!FreeSlot].rport = 1, ![Wifi!FreeSlot].proto = "TCP",
                         ![Wifi!FreeSlot].client = TRUE]
          \/ slot' = [slot EXCEPT ![Wifi!FreeSlot].owner = s]
      BY <1>4 DEF Wifi!Connect
    <3>2. /\ [slot EXCEPT ![Wifi!FreeSlot].owner = s] \in [Wifi!Slots -> SlotRecords]
          /\ [slot EXCEPT ![Wifi!FreeSlot].owner = s, ![Wifi!FreeSlot].lport = p, ![Wifi!FreeSlot].rport = 1,
                          ![Wifi!FreeSlot].proto = "TCP", ![Wifi!FreeSlot].client = TRUE]
               \in [Wifi!Slots -> SlotRecords]
      BY <1>1, <2>1, SlotUpdates
    <3> QED BY <3>1, <3>2
  <2>3. accept' = accept /\ struck' = struck BY <1>4 DEF Wifi!Connect, Wifi!acceptVars
  <2> QED BY <1>1, <1>2, <1>3, <1>4, <2>1, <2>2, <2>3 DEF Wifi!Connect
<1>5. ASSUME NEW s \in Tcp, NEW p \in ServerPorts, NEW r \in Wifi!DriverListen(s, p)
      PROVE  r.index \in Wifi!Slots /\ r.slot \in [Wifi!Slots -> SlotRecords] /\ r.server \in [Wifi!Slots -> BOOLEAN]
  <2> DEFINE d == Wifi!TcpSlot(slot, p)
             f == Wifi!FreeSlot
             new == [owner |-> s, proto |-> "TCP", lport |-> p,
                     rport |-> 0, conn |-> FALSE, client |-> FALSE]
  <2>1. f # SlotCount => f \in Wifi!Slots BY FreeSlotIs DEF Given
  <2>2. d # SlotCount => d \in Wifi!Slots
    <3> DEFINE S == {i \in Wifi!Slots : slot[i].lport = p /\ slot[i].proto = "TCP"}
    <3>1. IF S = {} THEN Wifi!First(S) = SlotCount ELSE Wifi!First(S) \in S BY FirstIs DEF Given
    <3>2. d = Wifi!First(S) BY DEF Wifi!TcpSlot
    <3> QED BY <3>1, <3>2
  <2>3. context[s] \in Wifi!Slots BY <1>1
  <2>5. \A i \in Wifi!Slots : [slot EXCEPT ![i].owner = s] \in [Wifi!Slots -> SlotRecords]
    BY <1>1, SlotUpdates
  <2>6. new \in SlotRecords BY <1>1 DEF SlotRecords
  <2>7. \A i \in Wifi!Slots : [slot EXCEPT ![i] = new] \in [Wifi!Slots -> SlotRecords]
    BY <1>1, <2>6
  <2>8. \/ \E ok \in BOOLEAN : r = Wifi!ListenResult(ok, slot, context[s], FALSE)
        \/ d # SlotCount /\ r = Wifi!ListenResult(TRUE, [slot EXCEPT ![d].owner = s], d, FALSE)
        \/ f # SlotCount /\ r = Wifi!ListenResult(TRUE, [slot EXCEPT ![f] = new], f, TRUE)
        \/ f # SlotCount /\ r = Wifi!ListenResult(FALSE, [slot EXCEPT ![f].owner = s], f, FALSE)
    BY <1>5 DEF Wifi!DriverListen
  <2> HIDE DEF d, f, new
  <2>9. CASE \E ok \in BOOLEAN : r = Wifi!ListenResult(ok, slot, context[s], FALSE)
    <3>1. r.index = context[s] /\ r.slot = slot /\ r.server = server
      BY <2>9 DEF Wifi!ListenResult
    <3> QED BY <1>1, <1>3, <2>3, <3>1
  <2>10. CASE d # SlotCount /\ r = Wifi!ListenResult(TRUE, [slot EXCEPT ![d].owner = s], d, FALSE)
    <3>1. d \in Wifi!Slots /\ [slot EXCEPT ![d].owner = s] \in [Wifi!Slots -> SlotRecords]
      BY <2>2, <2>5, <2>10
    <3>2. /\ r.index = d /\ r.slot = [slot EXCEPT ![d].owner = s] /\ r.server = server
      BY <2>10 DEF Wifi!ListenResult
    <3> QED BY <1>3, <3>1, <3>2
  <2>11. CASE f # SlotCount /\ r = Wifi!ListenResult(TRUE, [slot EXCEPT ![f] = new], f, TRUE)
    <3>1. f \in Wifi!Slots /\ [slot EXCEPT ![f] = new] \in [Wifi!Slots -> SlotRecords]
      BY <2>1, <2>7, <2>11
    <3>2. [server EXCEPT ![f] = TRUE] \in [Wifi!Slots -> BOOLEAN] BY <1>3, <3>1
    <3>3. /\ r.index = f /\ r.slot = [slot EXCEPT ![f] = new]
          /\ r.server = [server EXCEPT ![f] = TRUE]
      BY <2>11 DEF Wifi!ListenResult
    <3> QED BY <3>1, <3>2, <3>3
  <2>12. CASE f # SlotCount /\ r = Wifi!ListenResult(FALSE, [slot EXCEPT ![f].owner = s], f, FALSE)
    <3>1. f \in Wifi!Slots /\ [slot EXCEPT ![f].owner = s] \in [Wifi!Slots -> SlotRecords]
      BY <2>1, <2>5, <2>12
    <3> QED BY <1>3, <3>1, <2>12 DEF Wifi!ListenResult
  <2> QED BY <2>8, <2>9, <2>10, <2>11, <2>12
<1>6. ASSUME NEW s \in Tcp, NEW p \in ServerPorts, Wifi!Relisten(s, p) PROVE Wifi!TypeOK'
  <2>1. PICK r \in Wifi!DriverListen(s, p) :
          /\ context' = [context EXCEPT ![s] = r.index]
          /\ slot' = r.slot /\ server' = r.server
          /\ IF r.ok
               THEN /\ state' = [state EXCEPT ![s] = "LISTEN"]
                    /\ port' = [port EXCEPT ![s] = p]
                    /\ request' = [request EXCEPT ![p] = s]
               ELSE UNCHANGED <<state, port, request>>
    BY <1>6 DEF Wifi!Relisten
  <2>2. r.index \in Wifi!Slots /\ r.slot \in [Wifi!Slots -> SlotRecords] /\ r.server \in [Wifi!Slots -> BOOLEAN]
    BY <1>5
  <2>3. bound' = bound /\ accept' = accept /\ struck' = struck /\ link' = link /\ pending' = pending
    BY <1>6 DEF Wifi!Relisten, Wifi!acceptVars
  <2> QED BY ZenonT(60), <1>1, <1>2, <1>3, <2>1, <2>2, <2>3
<1>7. ASSUME NEW w \in [Wifi!Slots -> SlotRecords], NEW v \in [Wifi!Slots -> BOOLEAN], NEW p \in ServerPorts
      PROVE  /\ Wifi!UnlistenSlot(w, p) \in [Wifi!Slots -> SlotRecords]
             /\ Wifi!StopServer(w, v, p) \in [Wifi!Slots -> BOOLEAN]
  <2>1. Wifi!TcpSlot(w, p) = SlotCount \/ Wifi!TcpSlot(w, p) \in Wifi!Slots
    <3> DEFINE S == {i \in Wifi!Slots : w[i].lport = p /\ w[i].proto = "TCP"}
    <3>1. IF S = {} THEN Wifi!First(S) = SlotCount ELSE Wifi!First(S) \in S BY FirstIs DEF Given
    <3>2. Wifi!TcpSlot(w, p) = Wifi!First(S) BY DEF Wifi!TcpSlot
    <3> QED BY <3>1, <3>2
  <2>2. \A i \in Wifi!Slots : [w EXCEPT ![i].owner = None, ![i].lport = 0] \in [Wifi!Slots -> SlotRecords]
    BY <1>1, SlotUpdates
  <2>3. \A i \in Wifi!Slots : [v EXCEPT ![i] = FALSE] \in [Wifi!Slots -> BOOLEAN]
    OBVIOUS
  <2> QED BY <2>1, <2>2, <2>3 DEF Wifi!UnlistenSlot, Wifi!StopServer
<1>8. ASSUME NEW s \in Tcp, NEW p \in ServerPorts, Wifi!Listen(s, p) PROVE Wifi!TypeOK'
  <2>1. PICK r \in Wifi!DriverListen(s, p) :
          /\ context' = [context EXCEPT ![s] = r.index]
          /\ IF r.ok
               THEN /\ slot' = r.slot /\ server' = r.server
                    /\ state' = [state EXCEPT ![s] = "LISTEN"]
                    /\ request' = [request EXCEPT ![p] = s]
               ELSE /\ slot' = Wifi!UnlistenSlot(r.slot, p)
                    /\ server' = Wifi!StopServer(r.slot, r.server, p)
                    /\ UNCHANGED <<state, request>>
    BY <1>8 DEF Wifi!Listen
  <2>2. r.index \in Wifi!Slots /\ r.slot \in [Wifi!Slots -> SlotRecords] /\ r.server \in [Wifi!Slots -> BOOLEAN]
    BY <1>5
  <2>3. slot' \in [Wifi!Slots -> SlotRecords] /\ server' \in [Wifi!Slots -> BOOLEAN]
    BY <1>7, <2>1, <2>2
  <2>4. /\ port' = [port EXCEPT ![s] = p]
        /\ bound' = bound /\ accept' = accept /\ struck' = struck
        /\ link' = link /\ pending' = pending
    BY <1>8 DEF Wifi!Listen, Wifi!acceptVars
  <2>5. context' \in [Wifi!Sockets -> Wifi!Slots] /\ port' \in [Tcp -> Wifi!Ports \cup {0}]
    BY <1>1, <1>3, <2>1, <2>2, <2>4
  <2>6. /\ state' \in [Tcp -> {"CLOSED", "LISTEN", "SYN_RECEIVED", "ESTABLISHED", "CLOSE_WAIT"}]
        /\ request' \in [ServerPorts -> Tcp \cup {None, Wifi!NoRequest}]
    <3>1. CASE r.ok
      <4>1. state' = [state EXCEPT ![s] = "LISTEN"] /\ request' = [request EXCEPT ![p] = s]
        BY <2>1, <3>1
      <4> QED BY <1>3, <4>1
    <3>2. CASE ~ r.ok
      <4>1. state' = state /\ request' = request BY <2>1, <3>2
      <4> QED BY <1>3, <4>1
    <3> QED BY <3>1, <3>2
  <2> QED BY <1>2, <1>3, <2>3, <2>4, <2>5, <2>6
<1>9. ASSUME NEW s \in Tcp, Wifi!Disconnect(s) PROVE Wifi!TypeOK'
  <2>1. slot' \in [Wifi!Slots -> SlotRecords]
    <3>1. context[s] \in Wifi!Slots BY <1>1
    <3>2. \/ slot' = [slot EXCEPT ![context[s]].conn = FALSE]
          \/ slot' = [slot EXCEPT ![context[s]].owner = None]
      BY <1>9 DEF Wifi!Disconnect
    <3>3. /\ [slot EXCEPT ![context[s]].conn = FALSE] \in [Wifi!Slots -> SlotRecords]
          /\ [slot EXCEPT ![context[s]].owner = None] \in [Wifi!Slots -> SlotRecords]
      BY <1>1, <3>1, SlotUpdates
    <3> QED BY <3>2, <3>3
  <2>2. /\ state' \in [Tcp -> {"CLOSED", "LISTEN", "SYN_RECEIVED", "ESTABLISHED", "CLOSE_WAIT"}]
        /\ accept' \in [Tcp -> {"none", "tested", "waiting", "failed"}] /\ struck' \in BOOLEAN
    BY <1>3, <1>9 DEF Wifi!Disconnect, Wifi!Closes, Wifi!WaitFails, Wifi!acceptVars
  <2> QED BY <1>2, <1>3, <1>9, <2>1, <2>2 DEF Wifi!Disconnect
<1>10. ASSUME NEW s \in Tcp, AcceptSteps(s) PROVE Wifi!TypeOK'
  <2>1. /\ slot' = slot /\ context' = context /\ port' = port /\ bound' = bound
        /\ request' = request /\ link' = link /\ server' = server /\ pending' = pending
    BY <1>10
    DEF AcceptSteps, Wifi!Accept, Wifi!AcceptSuspends, Wifi!AcceptEnds, Wifi!AcceptReturns,
        Wifi!acceptOnly, Wifi!tableVars, Wifi!moduleVars
  <2>2. /\ state' \in [Tcp -> {"CLOSED", "LISTEN", "SYN_RECEIVED", "ESTABLISHED", "CLOSE_WAIT"}]
        /\ accept' \in [Tcp -> {"none", "tested", "waiting", "failed"}]
    BY <1>3, <1>10
    DEF AcceptSteps, Wifi!Accept, Wifi!AcceptSuspends, Wifi!AcceptEnds, Wifi!AcceptReturns,
        Wifi!acceptOnly, Wifi!WaitFails, Wifi!acceptVars
  <2>3. struck' \in BOOLEAN
    BY <1>3, <1>10
    DEF AcceptSteps, Wifi!Accept, Wifi!AcceptSuspends, Wifi!AcceptEnds, Wifi!AcceptReturns,
        Wifi!WaitFails, Wifi!acceptVars
  <2> QED BY <1>1, <1>2, <1>3, <2>1, <2>2, <2>3
<1>11. ASSUME NEW s \in Tcp, Wifi!Unaccept(s) PROVE Wifi!TypeOK'
  BY <1>1, <1>2, <1>3, <1>11 DEF Wifi!Unaccept, Wifi!tableVars, Wifi!moduleVars, Wifi!acceptVars
<1>12. ASSUME NEW p \in ServerPorts, Wifi!Unlisten(p) PROVE Wifi!TypeOK'
  <2>1. /\ slot' \in [Wifi!Slots -> SlotRecords] /\ server' \in [Wifi!Slots -> BOOLEAN]
    BY <1>1, <1>3, <1>7, <1>12 DEF Wifi!Unlisten
  <2> QED BY <1>2, <1>3, <1>12, <2>1 DEF Wifi!Unlisten, Wifi!acceptVars
<1>13. ASSUME NEW u \in Udp, Wifi!UdpBind(u) PROVE Wifi!TypeOK'
  <2>1. \/ Wifi!FreeSlot = SlotCount /\ Wifi!UdpUnbindSlot(u) /\ UNCHANGED <<context, bound>>
        \/ /\ Wifi!FreeSlot \in Wifi!Slots
           /\ slot' = [slot EXCEPT ![Wifi!FreeSlot].owner = u, ![Wifi!FreeSlot].rport = 0]
           /\ context' = [context EXCEPT ![u] = Wifi!FreeSlot]
           /\ bound' = [bound EXCEPT ![u] = TRUE] /\ UNCHANGED link
    BY <1>13, FreeSlotIs DEF Wifi!UdpBind, Given
  <2>2. u \in Wifi!Sockets /\ context[u] \in Wifi!Slots BY <1>1 DEF Wifi!Sockets
  <2>3. /\ slot' \in [Wifi!Slots -> SlotRecords]
        /\ link' \in [Wifi!Slots -> {"none", "open", "closed by peer"}]
        /\ context' \in [Wifi!Sockets -> Wifi!Slots] /\ bound' \in [Wifi!Sockets -> BOOLEAN]
    <3>1. CASE Wifi!UdpUnbindSlot(u) /\ UNCHANGED <<context, bound>>
      <4>1. /\ slot' = [slot EXCEPT ![context[u]].owner = None]
            /\ link' = [link EXCEPT ![context[u]] = IF slot[context[u]].rport = 0 THEN @ ELSE "none"]
            /\ context' = context /\ bound' = bound
        BY <3>1 DEF Wifi!UdpUnbindSlot
      <4>2. [slot EXCEPT ![context[u]].owner = None] \in [Wifi!Slots -> SlotRecords]
        BY <1>1, <2>2, SlotUpdates
      <4> QED BY <1>3, <2>2, <4>1, <4>2
    <3>2. CASE /\ Wifi!FreeSlot \in Wifi!Slots
               /\ slot' = [slot EXCEPT ![Wifi!FreeSlot].owner = u, ![Wifi!FreeSlot].rport = 0]
               /\ context' = [context EXCEPT ![u] = Wifi!FreeSlot]
               /\ bound' = [bound EXCEPT ![u] = TRUE] /\ UNCHANGED link
      BY <1>1, <1>3, <2>2, <3>2, SlotUpdates
    <3> QED BY <2>1, <3>1, <3>2
  <2>4. /\ state' = state /\ port' = port /\ request' = request /\ server' = server
        /\ pending' = pending /\ accept' = accept /\ struck' = struck
    BY <1>13 DEF Wifi!UdpBind, Wifi!acceptVars
  <2> QED BY <1>2, <1>3, <2>3, <2>4
<1>14. ASSUME NEW u \in Udp, Wifi!UdpUnbind(u) PROVE Wifi!TypeOK'
  <2>1. slot' \in [Wifi!Slots -> SlotRecords]
    <3>1. slot' = [slot EXCEPT ![context[u]].owner = None] /\ context[u] \in Wifi!Slots
      BY <1>1, <1>14 DEF Wifi!UdpUnbind, Wifi!UdpUnbindSlot, Wifi!Sockets
    <3> QED BY <1>1, <3>1, SlotUpdates
  <2> QED BY <1>2, <1>3, <1>14, <2>1 DEF Wifi!UdpUnbind, Wifi!UdpUnbindSlot, Wifi!acceptVars
<1>15. ASSUME NEW u \in Udp, NEW p \in ClientPorts, Wifi!UdpSend(u, p) PROVE Wifi!TypeOK'
  <2>1. slot' \in [Wifi!Slots -> SlotRecords]
    <3>1. /\ slot' = [slot EXCEPT ![context[u]].lport = p, ![context[u]].rport = 1,
                                  ![context[u]].proto = "UDP", ![context[u]].client = TRUE]
          /\ context[u] \in Wifi!Slots
      BY <1>1, <1>15 DEF Wifi!UdpSend, Wifi!Sockets
    <3> QED BY <1>1, <3>1, SlotUpdates
  <2> QED BY <1>2, <1>3, <1>15, <2>1 DEF Wifi!UdpSend, Wifi!stackVars, Wifi!acceptVars
<1>16. ASSUME NEW i \in Wifi!Slots, Wifi!Establish(i) PROVE Wifi!TypeOK'
  <2>1. slot' \in [Wifi!Slots -> SlotRecords]
    <3>1. PICK j \in Wifi!Slots : slot' = [slot EXCEPT ![j].rport = 1, ![j].conn = TRUE]
      BY <1>1, <1>16 DEF Wifi!Establish, Wifi!MayEstablish
    <3> QED BY <1>1, <3>1, SlotUpdates
  <2> QED BY <1>2, <1>3, <1>16, <2>1 DEF Wifi!Establish
<1>17. ASSUME NEW i \in Wifi!Slots, Wifi!ReceiveClosed(i) PROVE Wifi!TypeOK'
  <2>1. slot' \in [Wifi!Slots -> SlotRecords]
    <3>1. slot' = [slot EXCEPT ![i].conn = FALSE]
      BY <1>17 DEF Wifi!ReceiveClosed
    <3> QED BY <1>1, <3>1, SlotUpdates
  <2> QED BY <1>2, <1>3, <1>17, <2>1 DEF Wifi!ReceiveClosed, Wifi!moduleVars, Wifi!acceptVars
<1>18. ASSUME NEW i \in Wifi!Slots, Wifi!PeerConnects(i) \/ Wifi!PeerCloses(i) PROVE Wifi!TypeOK'
  BY <1>1, <1>2, <1>3, <1>18 DEF Wifi!PeerConnects, Wifi!PeerCloses, Wifi!tableVars, Wifi!stackVars,
      Wifi!acceptVars
<1> QED
  BY <1>4, <1>6, <1>8, <1>9, <1>10, <1>11, <1>12, <1>13, <1>14, <1>15, <1>16, <1>17, <1>18
  DEF Wifi!Next, Wifi!DriverThread, AcceptSteps

(* A request never names a socket that does not listen, whatever accept     *)
(* wrote: a request that still stands for a socket was not used up by one.  *)
LEMMA RequestsKept ==
  ASSUME Given, Wifi!TypeOK, RequestsListen, Wifi!Next
  PROVE  RequestsListen'
<1> SUFFICES ASSUME NEW p \in ServerPorts, request'[p] \in Tcp
             PROVE  /\ Wifi!Listening(request[p])' /\ ~ bound'[request'[p]]
                    /\ port'[request'[p]] = p
  BY DEF RequestsListen
<1>1. /\ \A t \in Tcp : t # None /\ t # Wifi!NoRequest /\ t \in Wifi!Sockets /\ t \notin Udp
      /\ DOMAIN state = Tcp /\ DOMAIN port = Tcp /\ DOMAIN request = ServerPorts
      /\ bound \in [Wifi!Sockets -> BOOLEAN] /\ Tcp \cap Udp = {}
  BY Names DEF Wifi!TypeOK, Given, Wifi!OffloadAssumption
<1>2. \A q \in ServerPorts : request[q] \in Tcp =>
        Wifi!Listening(request[q]) /\ ~ bound[request[q]] /\ port[request[q]] = q
  BY DEF RequestsListen
<1>3. ASSUME request'[p] = request[p],
             \A t \in Tcp : Wifi!Listening(t) /\ ~ bound[t] =>
               Wifi!Listening(t)' /\ ~ bound'[t] /\ port'[t] = port[t]
      PROVE  /\ Wifi!Listening(request[p])' /\ ~ bound'[request'[p]] /\ port'[request'[p]] = p
  <2>1. request[p] \in Tcp /\ Wifi!Listening(request[p]) /\ ~ bound[request[p]] /\ port[request[p]] = p
    BY <1>2, <1>3
  <2>2. Wifi!Listening(request[p])' <=> state'[request'[p]] \in {"LISTEN", "SYN_RECEIVED"}
    BY DEF Wifi!Listening
  <2>3. Wifi!Listening(request[p]) <=> state[request[p]] \in {"LISTEN", "SYN_RECEIVED"}
    BY DEF Wifi!Listening
  <2>4. state'[request[p]] \in {"LISTEN", "SYN_RECEIVED"}
    BY <1>3, <2>1 DEF Wifi!Listening
  <2> QED BY <1>3, <2>1, <2>2, <2>4
(* A step that leaves request and bound alone and closes no listening socket.*)
<1>4. ASSUME request' = request, bound' = bound, port' = port,
             \A t \in Tcp : Wifi!Listening(t) /\ ~ bound[t] => state'[t] \in {"LISTEN", "SYN_RECEIVED"}
      PROVE  /\ Wifi!Listening(request[p])' /\ ~ bound'[request'[p]] /\ port'[request'[p]] = p
  BY <1>3, <1>4 DEF Wifi!Listening
<1>5. ASSUME NEW s \in Tcp, NEW q \in ClientPorts, Wifi!Connect(s, q)
      PROVE  /\ Wifi!Listening(request[p])' /\ ~ bound'[request'[p]] /\ port'[request'[p]] = p
  <2>1. /\ request' = request /\ bound' = bound /\ state[s] = "CLOSED"
        /\ \A t \in Tcp \ {s} : state'[t] = state[t] /\ port'[t] = port[t]
    BY <1>1, <1>5 DEF Wifi!Connect
  <2> QED BY <1>3, <2>1 DEF Wifi!Listening
<1>6. ASSUME NEW s \in Tcp, NEW q \in ServerPorts, Wifi!Listen(s, q) \/ Wifi!Relisten(s, q)
      PROVE  /\ Wifi!Listening(request[p])' /\ ~ bound'[request'[p]] /\ port'[request'[p]] = p
  <2>1. /\ bound' = bound /\ ~ bound[s] /\ state[s] = "CLOSED"
        /\ \/ UNCHANGED <<state, request>> /\ \A t \in Tcp \ {s} : port'[t] = port[t]
           \/ /\ state' = [state EXCEPT ![s] = "LISTEN"] /\ port' = [port EXCEPT ![s] = q]
              /\ request' = [request EXCEPT ![q] = s]
    <3>1. CASE Wifi!Listen(s, q) BY <1>1, <3>1 DEF Wifi!Listen
    <3>2. CASE Wifi!Relisten(s, q) BY <1>1, <3>2 DEF Wifi!Relisten
    <3> QED BY <1>6, <3>1, <3>2
  <2>2. CASE UNCHANGED <<state, request>> /\ \A t \in Tcp \ {s} : port'[t] = port[t]
    BY <1>3, <2>1, <2>2 DEF Wifi!Listening
  <2>3. CASE /\ state' = [state EXCEPT ![s] = "LISTEN"] /\ port' = [port EXCEPT ![s] = q]
             /\ request' = [request EXCEPT ![q] = s]
    <3>1. CASE p = q BY <1>1, <2>1, <2>3, <3>1 DEF Wifi!Listening
    <3>2. CASE p # q
      <4>1. request'[p] = request[p] BY <1>1, <2>3, <3>2
      <4>2. \A t \in Tcp \ {s} : state'[t] = state[t] /\ port'[t] = port[t] BY <1>1, <2>3
      <4> QED BY <1>3, <2>1, <4>1, <4>2 DEF Wifi!Listening
    <3> QED BY <3>1, <3>2
  <2> QED BY <2>1, <2>2, <2>3
<1>7. ASSUME NEW s \in Tcp, Wifi!Disconnect(s)
      PROVE  /\ Wifi!Listening(request[p])' /\ ~ bound'[request'[p]] /\ port'[request'[p]] = p
  <2>1. request' = request /\ bound' = bound /\ port' = port
    BY <1>7 DEF Wifi!Disconnect
  <2>2. \A t \in Tcp \ {s} : state'[t] = state[t]
    BY <1>1, <1>7 DEF Wifi!Disconnect, Wifi!Closes, Wifi!WaitFails
  <2>3. ~ (Wifi!Listening(s) /\ ~ bound[s])
    BY <1>7 DEF Wifi!Disconnect, Wifi!MayDisconnect, Wifi!Connected, Wifi!Listening
  <2> QED BY <1>4, <2>1, <2>2, <2>3 DEF Wifi!Listening
<1>8. ASSUME NEW s \in Tcp, AcceptSteps(s)
      PROVE  /\ Wifi!Listening(request[p])' /\ ~ bound'[request'[p]] /\ port'[request'[p]] = p
  <2>1. request' = request /\ bound' = bound /\ port' = port
    BY <1>8 DEF AcceptSteps, Wifi!Accept, Wifi!AcceptSuspends, Wifi!AcceptEnds, Wifi!AcceptReturns,
                Wifi!acceptOnly
  <2>2. \/ state' = state \/ state' = [state EXCEPT ![s] = "LISTEN"]
        \/ state' = [state EXCEPT ![s] = "SYN_RECEIVED"]
        \/ state' = [state EXCEPT ![s] = IF @ = "LISTEN" THEN "SYN_RECEIVED" ELSE @]
    BY <1>8 DEF AcceptSteps, Wifi!Accept, Wifi!AcceptSuspends, Wifi!AcceptEnds, Wifi!AcceptReturns,
                Wifi!WaitFails
  <2>3. \A t \in Tcp : Wifi!Listening(t) => state'[t] \in {"LISTEN", "SYN_RECEIVED"}
    BY <1>1, <2>2 DEF Wifi!Listening
  <2> QED BY <1>4, <2>1, <2>3
<1>9. ASSUME NEW s \in Tcp, Wifi!Unaccept(s)
      PROVE  /\ Wifi!Listening(request[p])' /\ ~ bound'[request'[p]] /\ port'[request'[p]] = p
  <2>1. /\ port' = port /\ \A t \in Tcp \ {s} : state'[t] = state[t] /\ bound'[t] = bound[t]
    BY <1>1, <1>9 DEF Wifi!Unaccept
  <2>2. request'[p] = request[p] /\ request[p] # s
    <3>1. CASE bound[s]
      <4>1. request' = request BY <1>9, <3>1 DEF Wifi!Unaccept
      <4> QED BY <1>2, <3>1, <4>1
    <3>2. CASE ~ bound[s]
      <4>1. request' = [q \in ServerPorts |-> IF request[q] = s THEN None ELSE request[q]]
        BY <1>9, <3>2 DEF Wifi!Unaccept
      <4> QED BY <1>1, <4>1
    <3> QED BY <3>1, <3>2
  <2>3. request[p] \in Tcp \ {s} BY <2>2
  <2> QED BY <1>2, <2>1, <2>2, <2>3 DEF Wifi!Listening
<1>10. ASSUME NEW q \in ServerPorts, Wifi!Unlisten(q)
       PROVE  /\ Wifi!Listening(request[p])' /\ ~ bound'[request'[p]] /\ port'[request'[p]] = p
  <2>1. /\ bound' = bound /\ port' = port /\ request' = [request EXCEPT ![q] = Wifi!NoRequest]
        /\ IF request[q] = None THEN UNCHANGED state
           ELSE state' = [state EXCEPT ![request[q]] = "CLOSED"]
    BY <1>10 DEF Wifi!Unlisten
  <2>2. p # q /\ request'[p] = request[p] BY <1>1, <2>1
  <2>3. request[q] # request[p]
    BY <1>2, <2>2
  <2>4. state'[request[p]] = state[request[p]] BY <1>1, <2>1, <2>2, <2>3
  <2> QED BY <1>2, <2>1, <2>2, <2>4 DEF Wifi!Listening
<1>11. ASSUME NEW u \in Udp, \/ Wifi!UdpBind(u) \/ Wifi!UdpUnbind(u)
                             \/ \E q \in ClientPorts : Wifi!UdpSend(u, q)
       PROVE  /\ Wifi!Listening(request[p])' /\ ~ bound'[request'[p]] /\ port'[request'[p]] = p
  <2>1. request' = request /\ port' = port /\ state' = state
    BY <1>11 DEF Wifi!UdpBind, Wifi!UdpUnbind, Wifi!UdpSend, Wifi!stackVars
  <2>2. \A t \in Tcp : bound'[t] = bound[t]
    BY <1>1, <1>11 DEF Wifi!UdpBind, Wifi!UdpUnbind, Wifi!UdpSend, Wifi!stackVars
  <2> QED BY <1>3, <2>1, <2>2 DEF Wifi!Listening
<1>12. ASSUME NEW i \in Wifi!Slots, Wifi!Establish(i)
       PROVE  /\ Wifi!Listening(request[p])' /\ ~ bound'[request'[p]] /\ port'[request'[p]] = p
  <2> DEFINE s == slot[i].owner
  <2>1. /\ s \in Tcp /\ port' = port /\ request' = [request EXCEPT ![port[s]] = None]
        /\ bound' = [bound EXCEPT ![s] = TRUE] /\ state' = [state EXCEPT ![s] = "ESTABLISHED"]
    BY <1>12 DEF Wifi!Establish, Wifi!MayEstablish, Given, Plain
  <2> HIDE DEF s
  <2>2. p # port[s] /\ request'[p] = request[p] BY <1>1, <2>1
  <2>3. request[p] # s BY <1>2, <2>2
  <2>4. request[p] \in Tcp \ {s} BY <2>2, <2>3
  <2>5. state'[request[p]] = state[request[p]] /\ bound'[request[p]] = bound[request[p]]
    BY <1>1, <2>1, <2>4
  <2> QED BY <1>2, <2>1, <2>2, <2>4, <2>5 DEF Wifi!Listening
<1>13. ASSUME NEW i \in Wifi!Slots, Wifi!ReceiveClosed(i)
       PROVE  /\ Wifi!Listening(request[p])' /\ ~ bound'[request'[p]] /\ port'[request'[p]] = p
  <2> DEFINE s == slot[i].owner
  <2>1. /\ request' = request /\ bound' = bound /\ port' = port
        /\ state' = [state EXCEPT ![s] = IF @ = "ESTABLISHED" THEN "CLOSE_WAIT" ELSE @]
    BY <1>13 DEF Wifi!ReceiveClosed
  <2> HIDE DEF s
  <2>2. \A t \in Tcp : Wifi!Listening(t) => state'[t] \in {"LISTEN", "SYN_RECEIVED"}
    BY <1>1, <2>1 DEF Wifi!Listening
  <2> QED BY <1>4, <2>1, <2>2
<1>14. ASSUME NEW i \in Wifi!Slots, Wifi!PeerConnects(i) \/ Wifi!PeerCloses(i)
       PROVE  /\ Wifi!Listening(request[p])' /\ ~ bound'[request'[p]] /\ port'[request'[p]] = p
  <2>1. request' = request /\ bound' = bound /\ port' = port /\ state' = state
    BY <1>14 DEF Wifi!PeerConnects, Wifi!PeerCloses, Wifi!stackVars
  <2> QED BY <1>4, <2>1 DEF Wifi!Listening
<1> QED
  BY <1>5, <1>6, <1>7, <1>8, <1>9, <1>10, <1>11, <1>12, <1>13, <1>14
  DEF Wifi!Next, Wifi!DriverThread, AcceptSteps

(* A socket stays struck, and accept strikes one only after a wait.         *)
LEMMA StrikesKept ==
  ASSUME Given, Wifi!TypeOK, Wifi!Next
  PROVE  (struck => struck') /\ (~ AcceptWaits /\ NeverWaits => NeverWaits')
<1>1. CASE \E s \in Tcp : AcceptSteps(s)
  <2>1. PICK s \in Tcp : AcceptSteps(s) BY <1>1
  <2>2. struck => struck'
    BY <2>1 DEF AcceptSteps, Wifi!Accept, Wifi!AcceptSuspends, Wifi!AcceptEnds, Wifi!AcceptReturns,
                Wifi!WaitFails, Wifi!acceptVars
  <2>3. ASSUME ~ AcceptWaits, NeverWaits PROVE NeverWaits'
    <3>1. accept[s] = "none" BY <2>3 DEF NeverWaits
    <3>2. CASE Wifi!Accept(s)
      <4>1. accept' = [accept EXCEPT ![s] = "none"] /\ struck' = struck
        BY <2>3, <3>2 DEF Wifi!Accept, Wifi!acceptOnly
      <4> QED BY <2>3, <4>1 DEF NeverWaits, Wifi!TypeOK
    <3>3. CASE Wifi!AcceptEnds(s)
      BY <2>3, <3>1, <3>3 DEF Wifi!AcceptEnds, Wifi!acceptVars, NeverWaits
    <3> QED BY <2>1, <3>1, <3>2, <3>3 DEF AcceptSteps, Wifi!AcceptSuspends, Wifi!AcceptReturns
  <2> QED BY <2>2, <2>3
<1>2. CASE \E s \in Tcp : Wifi!Disconnect(s)
  BY <1>2 DEF Wifi!Disconnect, Wifi!Closes, Wifi!WaitFails, Wifi!acceptVars, NeverWaits
<1>3. CASE \E i \in Wifi!Slots : Wifi!Establish(i)
  <2>1. PICK i \in Wifi!Slots : Wifi!Establish(i) BY <1>3
  <2> DEFINE s == slot[i].owner
  <2>2. /\ struck' = struck
        /\ accept' = [accept EXCEPT ![s] = IF @ = "waiting" THEN "none" ELSE @]
    BY <2>1 DEF Wifi!Establish
  <2> HIDE DEF s
  <2> QED BY <2>2 DEF NeverWaits, Wifi!TypeOK
<1>4. CASE /\ ~ \E s \in Tcp : AcceptSteps(s) \/ Wifi!Disconnect(s)
           /\ ~ \E i \in Wifi!Slots : Wifi!Establish(i)
  <2>1. accept' = accept /\ struck' = struck
    BY <1>4 DEF AcceptSteps, Wifi!Next, Wifi!DriverThread, Wifi!Connect, Wifi!Listen, Wifi!Relisten,
      Wifi!Unaccept, Wifi!Unlisten, Wifi!UdpBind, Wifi!UdpUnbind, Wifi!UdpSend, Wifi!ReceiveClosed,
      Wifi!PeerConnects, Wifi!PeerCloses, Wifi!stackVars, Wifi!acceptVars
  <2> QED BY <2>1 DEF NeverWaits
<1> QED BY <1>1, <1>2, <1>3, <1>4

(* The invariant holds initially,                                           *)
LEMMA InitTrue == ASSUME Given, Wifi!Init PROVE OffloadInv
<1>1. Wifi!TypeOK
  <2>1. 0 \in Wifi!Slots BY DEF Given, Wifi!OffloadAssumption, Wifi!Slots
  <2>2. Wifi!UnusedSlot \in SlotRecords BY DEF Wifi!UnusedSlot, SlotRecords
  <2>3. slot \in [Wifi!Slots -> SlotRecords] /\ context \in [Wifi!Sockets -> Wifi!Slots]
    BY <2>1, <2>2 DEF Wifi!Init
  <2> QED BY <2>3 DEF Wifi!Init, Wifi!TypeOK, SlotRecords
<1>2. /\ \A t \in Wifi!Sockets : t # None
      /\ 0 \notin ServerPorts /\ None # Wifi!NoRequest
  BY <1>1, Names
<1>3. FreeSlots /\ OneSlotEach
  BY <1>2 DEF Wifi!Init, FreeSlots, OneSlotEach, Wifi!UnusedSlot, InUse
<1>4. ServerSlots
  BY <1>2 DEF Wifi!Init, ServerSlots, Wifi!UnusedSlot, InUse
<1>5. RequestServed
  BY DEF Wifi!Init, RequestServed
<1>6. Listeners
  BY <1>2 DEF Wifi!Init, Listeners, Wifi!Listening, Given, Wifi!OffloadAssumption, Wifi!Sockets
<1>7. Connections /\ UdpUsers
  BY <1>2 DEF Wifi!Init, Connections, UdpUsers, Wifi!Connected, Wifi!Sockets
<1>8. Owners /\ Links
  BY <1>2 DEF Wifi!Init, Owners, Links, Wifi!UnusedSlot, Wifi!Sockets
<1>9. ClosedKnown
  BY DEF Wifi!Init, ClosedKnown
<1>10. NeverWaits /\ RequestsListen
  BY <1>2 DEF Wifi!Init, NeverWaits, RequestsListen, Given, Wifi!OffloadAssumption, Wifi!Sockets
<1> QED BY <1>1, <1>3, <1>4, <1>5, <1>6, <1>7, <1>8, <1>9, <1>10 DEF OffloadInv, Rest

(* and every step keeps it.                                                 *)
LEMMA StepKeeps == ASSUME Given, OffloadInv, [Wifi!Next]_(Wifi!vars) PROVE OffloadInv'
<1>1. CASE Wifi!Next
  <2>1. Wifi!TypeOK' BY <1>1, TypesKept DEF OffloadInv
  <2>3. RequestsListen' /\ (struck => struck') /\ (~ AcceptWaits => NeverWaits')
    BY <1>1, RequestsKept, StrikesKept DEF OffloadInv
  <2>2. ASSUME ~ struck' PROVE Rest'
    <3>1. WifiInv BY <2>2, <2>3 DEF OffloadInv, WifiInv
    <3> QED
      BY <1>1, <2>1, <2>2, <3>1, ConnectKeeps, ListenKeeps, RelistenKeeps, DisconnectKeeps, AcceptKeeps,
         UnacceptKeeps, UnlistenKeeps, UdpBindKeeps, UdpUnbindKeeps, UdpSendKeeps,
         EstablishKeeps, ReceiveClosedKeeps, PeersKeep
      DEF Wifi!Next, Wifi!DriverThread, AcceptSteps
  <2> QED BY <2>1, <2>2, <2>3 DEF OffloadInv
<1>2. CASE UNCHANGED Wifi!vars
  <2>1. /\ slot' = slot /\ context' = context /\ port' = port /\ bound' = bound
        /\ state' = state /\ request' = request /\ link' = link /\ server' = server
        /\ pending' = pending /\ accept' = accept /\ struck' = struck
    BY <1>2 DEF Wifi!vars, Wifi!tableVars, Wifi!stackVars, Wifi!acceptVars, Wifi!moduleVars
  <2>2. /\ Wifi!TypeOK <=> Wifi!TypeOK'
        /\ RequestsListen <=> RequestsListen'
        /\ NeverWaits <=> NeverWaits'
    BY <2>1 DEF Wifi!TypeOK, RequestsListen, NeverWaits, Wifi!Listening
  <2>3. Rest <=> Rest'
    BY <2>1 DEF Rest, FreeSlots, ServerSlots, OneSlotEach, RequestServed, Listeners, Connections,
      UdpUsers, Owners, Links, ClosedKnown, Wifi!Listening, Wifi!Connected, Wifi!Uses, InUse
  <2> QED BY <2>1, <2>2, <2>3 DEF OffloadInv
<1> QED BY <1>1, <1>2

-----------------------------------------------------------------------------
(* What a table of TCP slots keeps even when accept's write has met a       *)
(* socket that had gone on: a server's port has one slot at most, and a slot*)
(* in use is that of a connected client nobody waits for, or of a request.  *)
OnePortEach ==
  \A i, j \in Wifi!Slots :
    /\ slot[i].lport \in ServerPorts /\ slot[j].lport = slot[i].lport
    /\ slot[i].proto = "TCP" /\ slot[j].proto = "TCP"
    => i = j
HeldByClient(i) ==
  LET s == slot[i].owner
  IN s \in Tcp /\ Wifi!Connected(s) /\ context[s] = i /\ accept[s] = "none"
SlotsHeld ==
  \A i \in Wifi!Slots :
    /\ slot[i].client => slot[i].lport \notin ServerPorts
    /\ InUse(i) =>
         /\ slot[i].proto = "TCP"
         /\ IF slot[i].client THEN HeldByClient(i)
            ELSE slot[i].lport \in ServerPorts /\ request[slot[i].lport] # Wifi!NoRequest
TableHeld == OnePortEach /\ SlotsHeld

(* A client's slot stays held while its owner does.                         *)
LEMMA StaysHeld ==
  ASSUME Given, Udp = {}, ~ OpenMayFail, Wifi!TypeOK, TableHeld, NEW s \in Tcp,
         ~ (Wifi!Connected(s) /\ accept[s] = "none"), slot' = slot,
         \A t \in Tcp \ {s} : /\ state'[t] = state[t] /\ context'[t] = context[t]
                              /\ accept'[t] = accept[t],
         \A p \in ServerPorts : request[p] # Wifi!NoRequest => request'[p] # Wifi!NoRequest
  PROVE  TableHeld'
<1>1. OnePortEach' BY DEF TableHeld, OnePortEach
<1>2. ASSUME NEW i \in Wifi!Slots, InUse(i), slot[i].client PROVE HeldByClient(i)'
  <2>1. HeldByClient(i) BY <1>2 DEF TableHeld, SlotsHeld
  <2>2. slot[i].owner # s BY <2>1 DEF HeldByClient
  <2> QED BY <2>1, <2>2 DEF HeldByClient, Wifi!Connected
<1> QED BY <1>1, <1>2 DEF TableHeld, SlotsHeld, InUse

LEMMA ConnectHolds ==
  ASSUME Given, Udp = {}, ~ OpenMayFail, Wifi!TypeOK, TableHeld, NEW s \in Tcp,
         NEW p \in ClientPorts, Wifi!Connect(s, p)
  PROVE  TableHeld'
<1>1. PICK f \in Wifi!Slots : f = Wifi!FreeSlot /\ ~ InUse(f)
  BY FreeSlotIs DEF Wifi!Connect, Given
<1>2. /\ state[s] = "CLOSED" /\ accept[s] = "none" /\ accept' = accept /\ request' = request
      /\ context' = [context EXCEPT ![s] = f] /\ state' = [state EXCEPT ![s] = "ESTABLISHED"]
      /\ slot' = [slot EXCEPT ![f].owner = s, ![f].lport = p, ![f].rport = 1,
                              ![f].proto = "TCP", ![f].client = TRUE]
  BY <1>1 DEF Wifi!Connect, Wifi!Outcomes, Wifi!acceptVars
<1>3. /\ slot'[f].owner = s /\ slot'[f].lport = p /\ slot'[f].proto = "TCP" /\ slot'[f].client
      /\ \A i \in Wifi!Slots \ {f} : slot'[i] = slot[i]
      /\ context'[s] = f /\ state'[s] = "ESTABLISHED" /\ p \notin ServerPorts
      /\ \A t \in Tcp \ {s} : state'[t] = state[t] /\ context'[t] = context[t]
  <2>1. /\ slot'[f].owner = s /\ slot'[f].lport = p /\ slot'[f].proto = "TCP" /\ slot'[f].client
        /\ \A i \in Wifi!Slots \ {f} : slot'[i] = slot[i]
    BY <1>1, <1>2, Names DEF SlotRecords
  <2>2. /\ context'[s] = f /\ p \notin ServerPorts
        /\ \A t \in Tcp \ {s} : context'[t] = context[t]
    BY <1>2, Names DEF Wifi!TypeOK
  <2>3. /\ state'[s] = "ESTABLISHED" /\ \A t \in Tcp \ {s} : state'[t] = state[t]
    BY <1>2 DEF Wifi!TypeOK
  <2> QED BY <2>1, <2>2, <2>3
<1>4. OnePortEach' BY <1>3 DEF TableHeld, OnePortEach
<1>5. ASSUME NEW i \in Wifi!Slots \ {f}, InUse(i), slot[i].client PROVE HeldByClient(i)'
  <2>1. HeldByClient(i) BY <1>5 DEF TableHeld, SlotsHeld
  <2>2. slot[i].owner # s BY <1>2, <2>1 DEF HeldByClient, Wifi!Connected
  <2>3. PICK t \in Tcp \ {s} : t = slot[i].owner BY <2>1, <2>2 DEF HeldByClient
  <2>4. slot'[i].owner = t /\ Wifi!Connected(t) /\ context[t] = i /\ accept[t] = "none"
    BY <1>3, <2>1, <2>3 DEF HeldByClient
  <2>5. state'[t] = state[t] /\ context'[t] = context[t] /\ accept'[t] = accept[t]
    BY <1>2, <1>3
  <2> QED BY <2>4, <2>5 DEF HeldByClient, Wifi!Connected
<1>6. HeldByClient(f)' BY <1>2, <1>3 DEF HeldByClient, Wifi!Connected
<1>7. SlotsHeld'
  <2> SUFFICES ASSUME NEW i \in Wifi!Slots
               PROVE  /\ slot'[i].client => slot'[i].lport \notin ServerPorts
                      /\ slot'[i].owner # None =>
                           /\ slot'[i].proto = "TCP"
                           /\ IF slot'[i].client THEN HeldByClient(i)'
                              ELSE /\ slot'[i].lport \in ServerPorts
                                   /\ request'[slot'[i].lport] # Wifi!NoRequest
    BY DEF SlotsHeld, InUse
  <2>1. CASE i = f BY <1>3, <1>6, <2>1
  <2>2. CASE i # f
    <3>1. slot'[i] = slot[i] BY <1>3, <2>2
    <3> QED BY <1>2, <1>5, <2>2, <3>1 DEF TableHeld, SlotsHeld, InUse
  <2> QED BY <2>1, <2>2
<1> QED BY <1>4, <1>7 DEF TableHeld

(* The search for a server's port finds the one slot that has it.           *)
LEMMA PortSlotIs ==
  ASSUME Given, NEW p \in ServerPorts
  PROVE  LET d == Wifi!TcpSlot(slot, p)
         IN IF d = SlotCount THEN \A i \in Wifi!Slots : ~ (slot[i].lport = p /\ slot[i].proto = "TCP")
            ELSE d \in Wifi!Slots /\ slot[d].lport = p /\ slot[d].proto = "TCP"
<1> DEFINE S == {i \in Wifi!Slots : slot[i].lport = p /\ slot[i].proto = "TCP"}
<1>1. Wifi!TcpSlot(slot, p) = Wifi!First(S) BY DEF Wifi!TcpSlot
<1>2. SlotCount \notin Wifi!Slots BY DEF Wifi!Slots, Given, Wifi!OffloadAssumption
<1>3. IF S = {} THEN Wifi!First(S) = SlotCount ELSE Wifi!First(S) \in S BY FirstIs DEF Given
<1> QED BY <1>1, <1>2, <1>3

(* Listen and relisten: the request's slot is the one of its port, or new;  *)
(* a listen that is refused takes a slot from nobody.                       *)
LEMMA ListenHolds ==
  ASSUME Given, Udp = {}, ~ OpenMayFail, Wifi!TypeOK, TableHeld, NEW s \in Tcp,
         NEW p \in ServerPorts, Wifi!Listen(s, p) \/ Wifi!Relisten(s, p)
  PROVE  TableHeld'
<1> DEFINE d == Wifi!TcpSlot(slot, p)
           f == Wifi!FreeSlot
<1>1. /\ state[s] = "CLOSED" /\ accept' = accept
      /\ request[p] \in {None, Wifi!NoRequest}
  BY DEF Wifi!Listen, Wifi!Relisten, Wifi!acceptVars
<1>2. PICK r \in Wifi!DriverListen(s, p) :
        /\ context' = [context EXCEPT ![s] = r.index]
        /\ \/ /\ r.ok /\ slot' = r.slot /\ state' = [state EXCEPT ![s] = "LISTEN"]
              /\ request' = [request EXCEPT ![p] = s]
           \/ /\ ~ r.ok /\ state' = state /\ request' = request
              /\ \/ slot' = r.slot
                 \/ slot' = Wifi!UnlistenSlot(r.slot, p) /\ request[p] = Wifi!NoRequest
  BY DEF Wifi!Listen, Wifi!Relisten
<1>3. /\ IF d = SlotCount THEN \A i \in Wifi!Slots : ~ (slot[i].lport = p /\ slot[i].proto = "TCP")
         ELSE d \in Wifi!Slots /\ slot[d].lport = p /\ slot[d].proto = "TCP"
      /\ f # SlotCount => f \in Wifi!Slots /\ ~ InUse(f)
  BY PortSlotIs, FreeSlotIs DEF Given
<1>4. \/ /\ d # SlotCount /\ r.ok /\ r.slot = [slot EXCEPT ![d].owner = s]
      \/ /\ d = SlotCount /\ f # SlotCount /\ r.ok
         /\ r.slot = [slot EXCEPT ![f] = [owner |-> s, proto |-> "TCP", lport |-> p,
                                          rport |-> 0, conn |-> FALSE, client |-> FALSE]]
      \/ ~ r.ok /\ r.slot = slot
  <2>1. CASE d # SlotCount
    <3>1. r \in {Wifi!ListenResult(FALSE, slot, context[s], FALSE),
                Wifi!ListenResult(TRUE, [slot EXCEPT ![d].owner = s], d, FALSE)}
      BY <1>2, <2>1 DEF Wifi!DriverListen
    <3> HIDE DEF d
    <3>2. CASE r = Wifi!ListenResult(FALSE, slot, context[s], FALSE)
      BY <3>2 DEF Wifi!ListenResult
    <3>3. CASE r = Wifi!ListenResult(TRUE, [slot EXCEPT ![d].owner = s], d, FALSE)
      BY <2>1, <3>3 DEF Wifi!ListenResult
    <3> QED BY <3>1, <3>2, <3>3
  <2>2. CASE d = SlotCount /\ f = SlotCount
    BY <1>2, <2>2 DEF Wifi!DriverListen, Wifi!ListenResult
  <2>3. CASE d = SlotCount /\ f # SlotCount
    BY <1>2, <2>3 DEF Wifi!DriverListen, Wifi!ListenResult, Wifi!Outcomes
  <2> QED BY <2>1, <2>2, <2>3
<1> HIDE DEF d, f
<1>5. \A t \in Tcp \ {s} : state'[t] = state[t] /\ context'[t] = context[t]
  BY <1>2, Names DEF Wifi!TypeOK
<1>6. ASSUME NEW i \in Wifi!Slots, InUse(i), slot[i].client, slot'[i].owner = slot[i].owner
      PROVE  HeldByClient(i)'
  <2>1. HeldByClient(i) BY <1>6 DEF TableHeld, SlotsHeld
  <2>2. slot[i].owner # s BY <1>1, <2>1 DEF HeldByClient, Wifi!Connected
  <2> QED BY <1>1, <1>5, <1>6, <2>1, <2>2 DEF HeldByClient, Wifi!Connected
<1>7. CASE r.ok
  <2>1. /\ slot' = r.slot /\ request' = [request EXCEPT ![p] = s] BY <1>2, <1>7
  <2>2. /\ \A q \in ServerPorts : request[q] # Wifi!NoRequest => request'[q] # Wifi!NoRequest
        /\ request'[p] # Wifi!NoRequest /\ s # None
    BY <2>1, Names DEF Wifi!TypeOK
  <2>3. CASE d # SlotCount
    <3>1. /\ d \in Wifi!Slots /\ slot[d].lport = p /\ slot[d].proto = "TCP"
          /\ slot' = [slot EXCEPT ![d].owner = s] /\ ~ slot[d].client
      BY <1>3, <1>4, <1>7, <2>1, <2>3 DEF TableHeld, SlotsHeld
    <3>2. /\ slot'[d].owner = s /\ slot'[d].lport = p /\ slot'[d].proto = "TCP" /\ ~ slot'[d].client
          /\ \A i \in Wifi!Slots \ {d} : slot'[i] = slot[i]
      BY <3>1, Names DEF SlotRecords
    <3>3. OnePortEach' BY <3>1, <3>2 DEF TableHeld, OnePortEach
    <3> QED BY <1>6, <2>2, <3>1, <3>2, <3>3 DEF TableHeld, SlotsHeld, InUse
  <2>4. CASE d = SlotCount
    <3>1. /\ f \in Wifi!Slots /\ ~ InUse(f)
          /\ slot' = [slot EXCEPT ![f] = [owner |-> s, proto |-> "TCP", lport |-> p,
                                          rport |-> 0, conn |-> FALSE, client |-> FALSE]]
      BY <1>3, <1>4, <1>7, <2>1, <2>4
    <3>2. /\ slot'[f].owner = s /\ slot'[f].lport = p /\ slot'[f].proto = "TCP" /\ ~ slot'[f].client
          /\ \A i \in Wifi!Slots \ {f} : slot'[i] = slot[i]
      BY <3>1, Names DEF SlotRecords
    <3>3. OnePortEach' BY <1>3, <2>4, <3>1, <3>2 DEF TableHeld, OnePortEach
    <3> QED BY <1>6, <2>2, <3>1, <3>2, <3>3 DEF TableHeld, SlotsHeld, InUse
  <2> QED BY <2>3, <2>4
<1>8. CASE ~ r.ok
  <2>1. r.slot = slot /\ request' = request BY <1>2, <1>4, <1>8
  <2>2. CASE slot' = slot
    <3>1. OnePortEach' BY <2>2 DEF TableHeld, OnePortEach
    <3> QED BY <1>6, <2>1, <2>2, <3>1 DEF TableHeld, SlotsHeld, InUse
  <2>3. CASE slot' = Wifi!UnlistenSlot(slot, p) /\ request[p] = Wifi!NoRequest /\ slot' # slot
    <3>1. d \in Wifi!Slots /\ slot[d].lport = p /\ slot[d].proto = "TCP"
          /\ slot' = [slot EXCEPT ![d].owner = None, ![d].lport = 0]
      BY <1>3, <2>3 DEF Wifi!UnlistenSlot, d
    <3>2. /\ slot'[d].owner = None /\ slot'[d].lport = 0
          /\ \A i \in Wifi!Slots \ {d} : slot'[i] = slot[i]
      BY <3>1, Names DEF SlotRecords
    <3>3. OnePortEach' BY <3>2, Names DEF TableHeld, OnePortEach
    <3> QED BY <1>6, <2>1, <3>1, <3>2, <3>3, Names DEF TableHeld, SlotsHeld, InUse
  <2> QED BY <1>2, <1>8, <2>1, <2>2, <2>3
<1> QED BY <1>7, <1>8

LEMMA DisconnectHolds ==
  ASSUME Given, Udp = {}, ~ OpenMayFail, Wifi!TypeOK, TableHeld, NEW s \in Tcp, Wifi!Disconnect(s)
  PROVE  TableHeld'
<1> DEFINE k == context[s]
<1>1. /\ slot' = [slot EXCEPT ![k] = IF @.rport # 0 /\ ~ @.client THEN [@ EXCEPT !.conn = FALSE]
                                     ELSE [@ EXCEPT !.owner = None]]
      /\ context' = context /\ request' = request /\ k \in Wifi!Slots
      /\ state' \in {[state EXCEPT ![s] = "LISTEN"], [state EXCEPT ![s] = "CLOSED"]}
      /\ accept[s] # "waiting" => accept' = accept
      /\ accept' \in {accept, [accept EXCEPT ![s] = "failed"]}
  BY Names DEF Wifi!Disconnect, Wifi!Closes, Wifi!WaitFails, Wifi!acceptVars
<1> HIDE DEF k
<1>2. /\ \A i \in Wifi!Slots \ {k} : slot'[i] = slot[i]
      /\ slot'[k].lport = slot[k].lport /\ slot'[k].proto = slot[k].proto
      /\ slot'[k].client = slot[k].client /\ slot'[k].owner \in {None, slot[k].owner}
      /\ slot[k].client => slot'[k].owner = None
  BY <1>1, Names DEF SlotRecords
<1>3. OnePortEach' BY <1>2 DEF TableHeld, OnePortEach
<1>4. ASSUME NEW i \in Wifi!Slots, slot'[i].owner # None, slot[i].client PROVE InUse(i) /\ HeldByClient(i)'
  <2>1. i # k /\ slot'[i] = slot[i] /\ InUse(i) BY <1>2, <1>4 DEF InUse
  <2>2. HeldByClient(i) BY <1>4, <2>1 DEF TableHeld, SlotsHeld
  <2>3. slot[i].owner # s BY <2>1, <2>2 DEF HeldByClient, k
  <2>4. \A t \in Tcp \ {s} : state'[t] = state[t] /\ accept'[t] = accept[t]
    BY <1>1 DEF Wifi!TypeOK
  <2> QED BY <1>1, <2>1, <2>2, <2>3, <2>4 DEF HeldByClient, Wifi!Connected
<1> QED BY <1>1, <1>2, <1>3, <1>4 DEF TableHeld, SlotsHeld, InUse

LEMMA UnlistenHolds ==
  ASSUME Given, Udp = {}, ~ OpenMayFail, Wifi!TypeOK, TableHeld, NEW p \in ServerPorts,
         Wifi!Unlisten(p)
  PROVE  TableHeld'
<1> DEFINE d == Wifi!TcpSlot(slot, p)
<1>1. /\ slot' = Wifi!UnlistenSlot(slot, p) /\ request' = [request EXCEPT ![p] = Wifi!NoRequest]
      /\ context' = context /\ accept' = accept
      /\ \/ state' = state
         \/ request[p] # None /\ state[request[p]] = "LISTEN"
            /\ state' = [state EXCEPT ![request[p]] = "CLOSED"]
  BY DEF Wifi!Unlisten, Wifi!acceptVars
<1>2. IF d = SlotCount THEN \A i \in Wifi!Slots : ~ (slot[i].lport = p /\ slot[i].proto = "TCP")
      ELSE d \in Wifi!Slots /\ slot[d].lport = p /\ slot[d].proto = "TCP"
  BY PortSlotIs
<1>3. IF d = SlotCount THEN slot' = slot
      ELSE slot' = [slot EXCEPT ![d].owner = None, ![d].lport = 0]
  BY <1>1 DEF Wifi!UnlistenSlot
<1> HIDE DEF d
<1>4. /\ \A i \in Wifi!Slots \ {d} : slot'[i] = slot[i]
      /\ d # SlotCount => slot'[d].owner = None /\ slot'[d].lport = 0
  BY <1>2, <1>3, Names DEF SlotRecords
<1>5. d = SlotCount => slot' = slot BY <1>3
<1>6. OnePortEach' BY <1>2, <1>4, <1>5, Names DEF TableHeld, OnePortEach
<1>7. ASSUME NEW i \in Wifi!Slots, slot'[i].owner # None
      PROVE  slot'[i] = slot[i] /\ (slot[i].lport # p \/ slot[i].proto # "TCP")
  <2>1. CASE d = SlotCount BY <1>2, <1>5, <2>1
  <2>2. CASE d # SlotCount
    <3>1. i # d /\ slot'[i] = slot[i] BY <1>2, <1>4, <1>7, <2>2
    <3> QED BY <1>2, <2>2, <3>1 DEF TableHeld, OnePortEach
  <2> QED BY <2>1, <2>2
<1>8. ASSUME NEW i \in Wifi!Slots, slot'[i].owner # None, slot[i].client PROVE HeldByClient(i)'
  <2>1. slot'[i] = slot[i] BY <1>7, <1>8
  <2>2. HeldByClient(i) BY <1>8, <2>1 DEF TableHeld, SlotsHeld, InUse
  <2>3. state'[slot[i].owner] = state[slot[i].owner]
    BY <1>1, <2>2 DEF HeldByClient, Wifi!Connected, Wifi!TypeOK
  <2> QED BY <1>1, <2>1, <2>2, <2>3 DEF HeldByClient, Wifi!Connected
<1>9. \A q \in ServerPorts \ {p} : request'[q] = request[q] BY <1>1 DEF Wifi!TypeOK
<1>10. ASSUME NEW i \in Wifi!Slots, slot'[i].client PROVE slot'[i].lport \notin ServerPorts
  <2>1. CASE i = d /\ d # SlotCount BY <1>4, <2>1, Names
  <2>2. CASE ~ (i = d /\ d # SlotCount)
    <3>1. slot'[i] = slot[i] BY <1>4, <1>5, <2>2
    <3> QED BY <1>10, <3>1 DEF TableHeld, SlotsHeld
  <2> QED BY <2>1, <2>2
<1> QED BY <1>6, <1>7, <1>8, <1>9, <1>10 DEF TableHeld, SlotsHeld, InUse

LEMMA DriverHolds ==
  ASSUME Given, Udp = {}, ~ OpenMayFail, Wifi!TypeOK, TableHeld, NEW i \in Wifi!Slots,
         Wifi!DriverThread(i)
  PROVE  TableHeld'
<1> DEFINE s == slot[i].owner
<1>1. /\ s \in Tcp /\ context' = context
      /\ \E j \in Wifi!Slots : slot' \in {[slot EXCEPT ![j].rport = 1, ![j].conn = TRUE],
                                          [slot EXCEPT ![j].conn = FALSE]}
  BY Names DEF Wifi!DriverThread, Wifi!Establish, Wifi!ReceiveClosed, Wifi!MayEstablish,
               Wifi!MayReceiveClosed
<1>2. /\ state' \in [Tcp -> {"CLOSED", "LISTEN", "SYN_RECEIVED", "ESTABLISHED", "CLOSE_WAIT"}]
      /\ \A t \in Tcp : /\ Wifi!Connected(t) => state'[t] \in {"ESTABLISHED", "CLOSE_WAIT"}
                        /\ accept[t] = "none" => accept'[t] = "none"
      /\ \A q \in ServerPorts : request[q] # Wifi!NoRequest => request'[q] # Wifi!NoRequest
  <2>1. CASE Wifi!Establish(i)
    <3>1. /\ request' = request \/ request' = [request EXCEPT ![port[s]] = None]
          /\ state' = [state EXCEPT ![s] = "ESTABLISHED"]
          /\ accept' = [accept EXCEPT ![s] = IF @ = "waiting" THEN "none" ELSE @]
      BY <2>1 DEF Wifi!Establish
    <3> HIDE DEF s
    <3> QED BY <1>1, <3>1, Names DEF Wifi!TypeOK, Wifi!Connected
  <2>2. CASE Wifi!ReceiveClosed(i)
    <3>1. /\ request' = request /\ accept' = accept
          /\ state' = [state EXCEPT ![s] = IF @ = "ESTABLISHED" THEN "CLOSE_WAIT" ELSE @]
      BY <2>2 DEF Wifi!ReceiveClosed, Wifi!acceptVars
    <3> HIDE DEF s
    <3> QED BY <1>1, <3>1 DEF Wifi!TypeOK, Wifi!Connected
  <2> QED BY <2>1, <2>2 DEF Wifi!DriverThread
<1> HIDE DEF s
<1>3. \A k \in Wifi!Slots : /\ slot'[k].owner = slot[k].owner /\ slot'[k].proto = slot[k].proto
                            /\ slot'[k].lport = slot[k].lport /\ slot'[k].client = slot[k].client
  BY <1>1, Names DEF SlotRecords
<1>4. OnePortEach' BY <1>3 DEF TableHeld, OnePortEach
<1>5. ASSUME NEW k \in Wifi!Slots, HeldByClient(k) PROVE HeldByClient(k)'
  BY <1>1, <1>2, <1>3, <1>5 DEF HeldByClient, Wifi!Connected
<1> QED BY <1>2, <1>3, <1>4, <1>5 DEF TableHeld, SlotsHeld, InUse

LEMMA TableStaysHeld ==
  ASSUME Given, Udp = {}, ~ OpenMayFail, Wifi!TypeOK, TableHeld, [Wifi!Next]_(Wifi!vars)
  PROVE  TableHeld'
<1>1. ASSUME NEW s \in Tcp, AcceptSteps(s) PROVE TableHeld'
  <2>1. /\ slot' = slot /\ context' = context /\ request' = request
        /\ ~ (Wifi!Connected(s) /\ accept[s] = "none")
    <3>1. slot' = slot /\ context' = context /\ request' = request
      BY <1>1 DEF AcceptSteps, Wifi!Accept, Wifi!AcceptSuspends, Wifi!AcceptEnds,
                  Wifi!AcceptReturns, Wifi!acceptOnly, Wifi!tableVars
    <3>2. state[s] \in {"LISTEN", "SYN_RECEIVED"} \/ accept[s] # "none"
      BY <1>1 DEF AcceptSteps, Wifi!Accept, Wifi!AcceptSuspends, Wifi!AcceptEnds,
                  Wifi!AcceptReturns, Wifi!Listening
    <3> QED BY <3>1, <3>2 DEF Wifi!Connected
  <2>2. /\ state' = state \/ \E v : state' = [state EXCEPT ![s] = v]
        /\ accept' = accept \/ \E v : accept' = [accept EXCEPT ![s] = v]
    <3>1. CASE Wifi!Accept(s) BY <3>1 DEF Wifi!Accept, Wifi!acceptOnly
    <3>2. CASE Wifi!AcceptSuspends(s) BY <3>2 DEF Wifi!AcceptSuspends, Wifi!acceptOnly
    <3>3. CASE Wifi!AcceptEnds(s) BY <3>3 DEF Wifi!AcceptEnds, Wifi!WaitFails, Wifi!acceptVars
    <3>4. CASE Wifi!AcceptReturns(s) BY <3>4 DEF Wifi!AcceptReturns, Wifi!acceptOnly
    <3> QED BY <1>1, <3>1, <3>2, <3>3, <3>4 DEF AcceptSteps
  <2>3. \A t \in Tcp \ {s} : state'[t] = state[t] /\ accept'[t] = accept[t]
    BY <2>2 DEF Wifi!TypeOK
  <2> QED BY <2>1, <2>3, StaysHeld
<1>2. ASSUME NEW s \in Tcp, Wifi!Unaccept(s) PROVE TableHeld'
  <2>1. /\ slot' = slot /\ context' = context /\ accept' = accept
        /\ state[s] \in {"LISTEN", "CLOSED"} /\ state' = [state EXCEPT ![s] = "CLOSED"]
    BY <1>2 DEF Wifi!Unaccept, Wifi!tableVars, Wifi!acceptVars, Given, Plain
  <2>2. \A p \in ServerPorts : request[p] # Wifi!NoRequest => request'[p] # Wifi!NoRequest
    BY <1>2, Names DEF Wifi!Unaccept
  <2>3. \A t \in Tcp \ {s} : state'[t] = state[t] BY <2>1 DEF Wifi!TypeOK
  <2> QED BY <2>1, <2>2, <2>3, StaysHeld DEF Wifi!Connected
<1>3. CASE \/ \E i \in Wifi!Slots : Wifi!PeerConnects(i) \/ Wifi!PeerCloses(i)
           \/ UNCHANGED Wifi!vars
  <2>1. /\ slot' = slot /\ context' = context /\ request' = request /\ state' = state
        /\ accept' = accept
    BY <1>3 DEF Wifi!PeerConnects, Wifi!PeerCloses, Wifi!tableVars, Wifi!stackVars, Wifi!vars,
                Wifi!acceptVars
  <2> QED BY <2>1 DEF TableHeld, OnePortEach, SlotsHeld, HeldByClient, Wifi!Connected, InUse
<1> QED
  BY <1>1, <1>2, <1>3, ConnectHolds, ListenHolds, DisconnectHolds, UnlistenHolds, DriverHolds
  DEF Wifi!Next, AcceptSteps

LEMMA TableInit == ASSUME Given, Wifi!Init PROVE TableHeld
<1>1. 0 \notin ServerPorts BY DEF Given, Wifi!OffloadAssumption, Wifi!Ports
<1> QED BY <1>1 DEF Wifi!Init, Wifi!UnusedSlot, TableHeld, OnePortEach, SlotsHeld, InUse

(* Every slot in use is then accounted for.                                 *)
LEMMA HeldAccounted == ASSUME Given, Wifi!TypeOK, TableHeld PROVE Wifi!SlotsAccounted
<1> SUFFICES ASSUME NEW i \in Wifi!Slots, slot[i].owner # None
             PROVE  \/ Wifi!Uses(slot[i].owner, i)
                    \/ slot[i].lport \in ServerPorts /\ request[slot[i].lport] # Wifi!NoRequest
  BY DEF Wifi!SlotsAccounted
<1>1. CASE slot[i].client
  <2>1. HeldByClient(i) BY <1>1 DEF TableHeld, SlotsHeld, InUse
  <2> QED BY <2>1, Names DEF HeldByClient, Wifi!Uses
<1>2. CASE ~ slot[i].client BY <1>2 DEF TableHeld, SlotsHeld, InUse
<1> QED BY <1>1, <1>2

(* A slot in use without UDP sockets, struck or not.                        *)
TableInv == OffloadInv /\ (Udp = {} => TableHeld)
LEMMA TableInvInit == ASSUME Given, Wifi!Init PROVE TableInv
BY InitTrue, TableInit DEF TableInv
LEMMA TableInvKept ==
  ASSUME Given, ~ OpenMayFail, TableInv, [Wifi!Next]_(Wifi!vars) PROVE TableInv'
<1>1. OffloadInv' BY StepKeeps DEF TableInv
<1>2. Udp = {} => TableHeld' BY TableStaysHeld DEF TableInv, OffloadInv
<1> QED BY <1>1, <1>2 DEF TableInv

-----------------------------------------------------------------------------
(* What the invariant says: of users and slots,                             *)
LEMMA InvOwnsSlot == ASSUME Given, OffloadInv PROVE Wifi!UserOwnsSlot
<1>1. ~ struck => WifiInv BY DEF OffloadInv, WifiInv
<1> QED BY <1>1, OwnSlots DEF Wifi!UserOwnsSlot, Wifi!Uses, Wifi!Sockets

(* of connections,                                                          *)
LEMMA InvLinked == ASSUME Given, OffloadInv PROVE Wifi!LinkTellsState
<1> SUFFICES ASSUME ~ struck, NEW i \in Wifi!Slots
             PROVE  link[i] # "none" <=>
                      \E s \in Wifi!Sockets : Wifi!Uses(s, i) /\ (s \in Udp => slot[i].rport # 0)
  BY DEF Wifi!LinkTellsState
<1>0. WifiInv BY DEF OffloadInv, WifiInv
<1>1. ASSUME link[i] # "none"
      PROVE  \E s \in Wifi!Sockets : Wifi!Uses(s, i) /\ (s \in Udp => slot[i].rport # 0)
  <2>1. PICK s \in Wifi!Sockets : Wifi!Uses(s, i) BY <1>0, <1>1 DEF WifiInv, Rest, Links
  <2>2. s \in Udp => slot[i].rport # 0 BY <1>0, <1>1, <2>1, OwnSlots DEF Wifi!Uses
  <2> QED BY <2>1, <2>2
<1>2. ASSUME NEW s \in Wifi!Sockets, Wifi!Uses(s, i), s \in Udp => slot[i].rport # 0
      PROVE  link[i] # "none"
  <2>1. CASE s \in Tcp BY <1>0, <1>2, <2>1, OwnSlots DEF Wifi!Uses
  <2>2. CASE s \in Udp BY <1>0, <1>2, <2>2, OwnSlots DEF Wifi!Uses
  <2> QED BY <2>1, <2>2 DEF Wifi!Sockets
<1> QED BY <1>1, <1>2

(* of listeners,                                                            *)
LEMMA InvServed == ASSUME Given, OffloadInv PROVE Wifi!ListenerServed
<1>1. ASSUME NEW p \in ServerPorts, request[p] \in Tcp
      PROVE  Wifi!Listening(request[p]) /\ ~ bound[request[p]] /\ port[request[p]] = p
  BY <1>1 DEF OffloadInv, RequestsListen
<1>2. ASSUME ~ struck, NEW s \in Tcp, Wifi!Listening(s)
      PROVE  /\ slot[context[s]].owner = s /\ slot[context[s]].lport = port[s]
             /\ ~ slot[context[s]].client /\ server[context[s]]
  <2>1. /\ context[s] \in Wifi!Slots /\ slot[context[s]].owner = s
        /\ slot[context[s]].lport = port[s] /\ port[s] \in ServerPorts /\ s # None
    BY <1>2, OwnSlots, Names DEF OffloadInv, WifiInv
  <2> QED BY <1>2, <2>1 DEF OffloadInv, Rest, ServerSlots, InUse
<1> QED BY <1>1, <1>2 DEF Wifi!ListenerServed

(* of slots in use,                                                         *)
LEMMA InvAccounted == ASSUME Given, ~ OpenMayFail, OffloadInv, ~ struck PROVE Wifi!SlotsAccounted
<1> SUFFICES ASSUME NEW i \in Wifi!Slots, slot[i].owner # None, slot[i].lport \notin ServerPorts
                                                          \/ request[slot[i].lport] = Wifi!NoRequest
             PROVE  Wifi!Uses(slot[i].owner, i)
  BY DEF Wifi!SlotsAccounted
<1>0. WifiInv BY DEF OffloadInv, WifiInv
<1>1. slot[i].lport \notin ServerPorts
  BY <1>0 DEF WifiInv, Rest, ServerSlots, InUse
<1>2. slot[i].owner \in Wifi!Sockets BY <1>0, Names DEF WifiInv, SlotRecords
<1>3. CASE slot[i].owner \in Udp
  BY <1>0, <1>3, Names DEF WifiInv, Rest, Owners, Wifi!Uses
<1>4. CASE slot[i].owner \in Tcp
  BY <1>0, <1>1, <1>4, Names DEF WifiInv, Rest, Owners, Wifi!Uses
<1> QED BY <1>2, <1>3, <1>4 DEF Wifi!Sockets

(* and of peers that closed.                                                *)
LEMMA InvCloseWait == ASSUME OffloadInv PROVE Wifi!CloseWaitMeansClosed
BY DEF OffloadInv, Rest, ClosedKnown, Wifi!CloseWaitMeansClosed

-----------------------------------------------------------------------------
(* The inductive invariant of the table of module sockets holds in every    *)
(* reachable state, accept's late writes of LISTEN included                 *)
(* (nx_driver_stm32l4.c, nx_tcp_server_socket_accept.c:199).                *)
THEOREM OffloadInvariant == Given => (Wifi!Spec => []OffloadInv)
<1> SUFFICES ASSUME Given PROVE Wifi!Spec => []OffloadInv
  OBVIOUS
<1>1. Wifi!Init => OffloadInv BY InitTrue
<1>2. OffloadInv /\ [Wifi!Next]_(Wifi!vars) => OffloadInv' BY StepKeeps
<1> QED BY <1>1, <1>2, PTL DEF Wifi!Spec

(* Accept's writes of LISTEN meet a socket that has gone on only where some *)
(* accept was given a time to wait: the properties below, which hold until  *)
(* then, hold for ever in a system that calls it with NX_NO_WAIT.           *)
THEOREM OnlyWaitsStrike == Given => (Wifi!Spec => [](struck => AcceptWaits))
<1> SUFFICES ASSUME Given PROVE Wifi!Spec => [](struck => AcceptWaits)
  OBVIOUS
<1>1. OffloadInv => (struck => AcceptWaits) BY DEF OffloadInv, NeverWaits
<1> QED BY <1>1, OffloadInvariant, PTL

(* A connected TCP socket, or a bound UDP socket, owns the slot it remembers:*)
(* it never sends on, or closes, somebody else's connection of the module,  *)
(* until accept's write meets a socket that has gone on.                    *)
THEOREM SocketsOwnSlots == Given => (Wifi!Spec => []Wifi!UserOwnsSlot)
<1> SUFFICES ASSUME Given PROVE Wifi!Spec => []Wifi!UserOwnsSlot
  OBVIOUS
<1>1. OffloadInv => Wifi!UserOwnsSlot BY InvOwnsSlot
<1> QED BY <1>1, OffloadInvariant, PTL

(* Until then the module holds a connection exactly for the slots of        *)
(* connected TCP sockets and of UDP sockets that have sent.                 *)
THEOREM LinksMatchStates == Given => (Wifi!Spec => []Wifi!LinkTellsState)
<1> SUFFICES ASSUME Given PROVE Wifi!Spec => []Wifi!LinkTellsState
  OBVIOUS
<1>1. OffloadInv => Wifi!LinkTellsState BY InvLinked
<1> QED BY <1>1, OffloadInvariant, PTL

(* A request names a listening socket with its port, always; and until then *)
(* a listening socket has a slot of its own on which the module listens.    *)
THEOREM ListenersHaveServers == Given => (Wifi!Spec => []Wifi!ListenerServed)
<1> SUFFICES ASSUME Given PROVE Wifi!Spec => []Wifi!ListenerServed
  OBVIOUS
<1>1. OffloadInv => Wifi!ListenerServed BY InvServed
<1> QED BY <1>1, OffloadInvariant, PTL

(* A slot in use is a connected client's, a bound UDP socket's or that of   *)
(* an active listen request, if the module refuses nothing (a refused       *)
(* connect leaves the owner of the slot, nx_driver_stm32l4.c:1275): always  *)
(* where there are TCP sockets only, and until then where UDP sockets share *)
(* the table.                                                               *)
THEOREM NoSlotIsLost ==
  Given /\ ~ OpenMayFail => (Wifi!Spec => [](Udp = {} \/ ~ struck => Wifi!SlotsAccounted))
<1> SUFFICES ASSUME Given, ~ OpenMayFail
             PROVE  Wifi!Spec => [](Udp = {} \/ ~ struck => Wifi!SlotsAccounted)
  OBVIOUS
<1>1. Wifi!Init => TableInv BY TableInvInit
<1>2. TableInv /\ [Wifi!Next]_(Wifi!vars) => TableInv' BY TableInvKept
<1>3. TableInv => (Udp = {} \/ ~ struck => Wifi!SlotsAccounted)
  BY InvAccounted, HeldAccounted DEF TableInv, OffloadInv
<1> QED BY <1>1, <1>2, <1>3, PTL DEF Wifi!Spec

(* Until then a socket is told that its peer closed only when it closed.    *)
THEOREM CloseWaitIsTrue == Given => (Wifi!Spec => []Wifi!CloseWaitMeansClosed)
<1> SUFFICES ASSUME Given PROVE Wifi!Spec => []Wifi!CloseWaitMeansClosed
  OBVIOUS
<1>1. OffloadInv => Wifi!CloseWaitMeansClosed BY InvCloseWait
<1> QED BY <1>1, OffloadInvariant, PTL
=============================================================================
