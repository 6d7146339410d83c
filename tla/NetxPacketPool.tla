--------------------------- MODULE NetxPacketPool ---------------------------
(***************************************************************************)
(* The packet pool of NetX Duo (nx_packet_allocate.c, nx_packet_release.c, *)
(* nx_packet_pool_cleanup.c): a fixed set of packets, a FIFO of threads    *)
(* that wait for one, and the time-outs that take a thread off that FIFO.  *)
(* Threads and one interrupt handler (the driver) call the services; every *)
(* TX_DISABLE..TX_RESTORE section is one atomic step.  A packet chain is   *)
(* released one section per packet, so others run between two of them.     *)
(***************************************************************************)
EXTENDS Integers, FiniteSets, SequencesExt

CONSTANTS
  Threads,     \* threads that call nx_packet_allocate and nx_packet_release
  Isr,         \* the driver's interrupt handler: it may not wait
  Packets,     \* nx_packet_pool_total packets, carved out by pool_create
  NoThread,    \* NX_NULL as a thread pointer
  NoPacket,    \* NX_NULL as a packet pointer
  MaxInvalid   \* bound on nx_packet_pool_invalid_releases

ASSUME PoolAssumption ==
  /\ IsFiniteSet(Packets) /\ IsFiniteSet(Threads)
  /\ Isr \notin Threads /\ NoThread \notin Threads /\ NoPacket \notin Packets
  /\ MaxInvalid \in Nat

VARIABLES
  free,        \* nx_packet_pool_available_list (its LIFO order is abstracted)
  available,   \* nx_packet_pool_available
  mark,        \* nx_packet_union_next.nx_packet_tcp_queue_next of each packet
  invalid,     \* nx_packet_pool_invalid_releases
  suspList,    \* nx_packet_pool_suspension_list, oldest waiter first
  suspCount,   \* nx_packet_pool_suspended_count
  cleanup,     \* tx_thread_suspend_cleanup # NULL
  status,      \* tx_thread_suspend_status
  out,         \* *packet_ptr of the allocate call a thread is in
  tstate,      \* is the thread running, suspended in allocate, or resumed in it
  timer,       \* the thread whose cleanup the timer thread is about to call
  holds,       \* the packets each caller has been given and not released
  chain        \* the rest of the packet chain each caller is releasing

poolVars == <<free, available, mark, invalid>>
waitVars == <<suspList, suspCount, cleanup, status, out, tstate, timer>>
callerVars == <<holds, chain>>
vars == <<poolVars, waitVars, callerVars>>

Callers == Threads \cup {Isr}

-----------------------------------------------------------------------------
(* Interrupts preempt everything; the ThreadX timer thread preempts every   *)
(* thread, so between its reading a cleanup pointer and calling it only     *)
(* interrupts run.                                                          *)
IsrIdle == chain[Isr] = <<>>
MayRun(a) == IF a = Isr THEN TRUE
             ELSE IsrIdle /\ timer = NoThread /\ tstate[a] = "running"

Init ==
  /\ free = Packets /\ available = Cardinality(Packets)
  /\ mark = [p \in Packets |-> "FREE"] /\ invalid = 0
  /\ suspList = <<>> /\ suspCount = 0
  /\ cleanup = [t \in Threads |-> FALSE]
  /\ status = [t \in Threads |-> "SUCCESS"]
  /\ out = [t \in Threads |-> NoPacket]
  /\ tstate = [t \in Threads |-> "running"] /\ timer = NoThread
  /\ holds = [a \in Callers |-> {}] /\ chain = [a \in Callers |-> <<>>]

-----------------------------------------------------------------------------
(* nx_packet_allocate: a free packet is taken at once.                      *)
AllocateAvailable(a) ==
  /\ MayRun(a) /\ chain[a] = <<>>
  /\ available > 0
  /\ \E p \in free :
       /\ free' = free \ {p}
       /\ mark' = [mark EXCEPT ![p] = "ALLOCATED"]
       /\ holds' = [holds EXCEPT ![a] = @ \cup {p}]
  /\ available' = available - 1
  /\ UNCHANGED <<invalid, waitVars, chain>>

(* Mistake: the thread waits on a count read before the packet was freed.   *)
AllocateWaitStale(t) ==
  /\ MayRun(t) /\ chain[t] = <<>>
  /\ suspList' = Append(suspList, t)
  /\ suspCount' = suspCount + 1
  /\ cleanup' = [cleanup EXCEPT ![t] = TRUE]
  /\ tstate' = [tstate EXCEPT ![t] = "suspended"]
  /\ UNCHANGED <<poolVars, status, out, timer, callerVars>>

(* nx_packet_allocate, no free packet and a wait option: the thread goes to *)
(* the tail of the suspension list.  Without a wait option the call returns *)
(* NX_NO_PACKET and changes nothing.                                        *)
AllocateWait(t) ==
  /\ MayRun(t) /\ chain[t] = <<>>
  /\ available = 0
  /\ suspList' = Append(suspList, t)
  /\ suspCount' = suspCount + 1
  /\ cleanup' = [cleanup EXCEPT ![t] = TRUE]
  /\ out' = [out EXCEPT ![t] = NoPacket]
  /\ tstate' = [tstate EXCEPT ![t] = "suspended"]
  /\ UNCHANGED <<poolVars, status, timer, callerVars>>

(* Mistake: the suspend status of the resumed thread is not looked at.      *)
AllocateReturnUnchecked(t) ==
  /\ tstate[t] = "resumed" /\ IsrIdle /\ timer = NoThread
  /\ tstate' = [tstate EXCEPT ![t] = "running"]
  /\ holds' = [holds EXCEPT ![t] = @ \cup {out[t]}]
  /\ UNCHANGED <<poolVars, suspList, suspCount, cleanup, status, out, timer, chain>>

(* A resumed thread returns from nx_packet_allocate with its suspend status.*)
AllocateReturn(t) ==
  /\ tstate[t] = "resumed" /\ IsrIdle /\ timer = NoThread
  /\ tstate' = [tstate EXCEPT ![t] = "running"]
  /\ IF status[t] = "SUCCESS"
       THEN holds' = [holds EXCEPT ![t] = @ \cup {out[t]}]
       ELSE UNCHANGED holds
  /\ UNCHANGED <<poolVars, suspList, suspCount, cleanup, status, out, timer, chain>>

(* A caller starts to release one packet, or two packets chained through    *)
(* nx_packet_next.                                                          *)
ReleaseStart(a) ==
  /\ MayRun(a) /\ chain[a] = <<>>
  /\ \E p, q \in holds[a] :
       chain' = [chain EXCEPT ![a] = IF p = q THEN <<p>> ELSE <<p, q>>]
  /\ UNCHANGED <<poolVars, waitVars, holds>>

(* Mistakes: the youngest waiter is served, or the cleanup pointer of the   *)
(* thread served is left set.                                               *)
ReleaseToYoungest(a) ==
  /\ MayRun(a) /\ chain[a] # <<>> /\ suspList # <<>>
  /\ LET p == Head(chain[a])
         t == suspList[Len(suspList)]
     IN /\ suspList' = RemoveAt(suspList, Len(suspList))
        /\ suspCount' = suspCount - 1
        /\ cleanup' = [cleanup EXCEPT ![t] = FALSE]
        /\ status' = [status EXCEPT ![t] = "SUCCESS"]
        /\ out' = [out EXCEPT ![t] = p]
        /\ tstate' = [tstate EXCEPT ![t] = "resumed"]
        /\ holds' = [holds EXCEPT ![a] = @ \ {p}]
        /\ chain' = [chain EXCEPT ![a] = Tail(@)]
  /\ UNCHANGED <<poolVars, timer>>
ReleaseKeepsCleanup(a) ==
  /\ MayRun(a) /\ chain[a] # <<>> /\ suspList # <<>>
  /\ suspList' = Tail(suspList) /\ suspCount' = suspCount - 1
  /\ status' = [status EXCEPT ![Head(suspList)] = "SUCCESS"]
  /\ out' = [out EXCEPT ![Head(suspList)] = Head(chain[a])]
  /\ tstate' = [tstate EXCEPT ![Head(suspList)] = "resumed"]
  /\ holds' = [holds EXCEPT ![a] = @ \ {Head(chain[a])}]
  /\ chain' = [chain EXCEPT ![a] = Tail(@)]
  /\ UNCHANGED <<poolVars, cleanup, timer>>

(* One turn of nx_packet_release with a waiter: the packet is re-initialised*)
(* and handed to the oldest waiter, never passing through the free list.    *)
ReleaseToWaiter(a) ==
  /\ MayRun(a) /\ chain[a] # <<>>
  /\ suspList # <<>>
  /\ LET p == Head(chain[a])
         t == Head(suspList)
     IN /\ mark[p] = "ALLOCATED"
        /\ suspList' = Tail(suspList)
        /\ suspCount' = suspCount - 1
        /\ cleanup' = [cleanup EXCEPT ![t] = FALSE]
        /\ status' = [status EXCEPT ![t] = "SUCCESS"]
        /\ out' = [out EXCEPT ![t] = p]
        /\ tstate' = [tstate EXCEPT ![t] = "resumed"]
        /\ holds' = [holds EXCEPT ![a] = @ \ {p}]
        /\ chain' = [chain EXCEPT ![a] = Tail(@)]
  /\ UNCHANGED <<poolVars, timer>>

(* Mistake: the packet is freed without a look at the suspension list.      *)
ReleasePastWaiters(a) ==
  /\ MayRun(a) /\ chain[a] # <<>>
  /\ LET p == Head(chain[a])
     IN /\ mark' = [mark EXCEPT ![p] = "FREE"]
        /\ free' = free \cup {p} /\ available' = available + 1
        /\ holds' = [holds EXCEPT ![a] = @ \ {p}]
        /\ chain' = [chain EXCEPT ![a] = Tail(@)]
  /\ UNCHANGED <<invalid, waitVars>>

(* One turn of nx_packet_release with nobody waiting.                       *)
ReleaseToPool(a) ==
  /\ MayRun(a) /\ chain[a] # <<>>
  /\ suspList = <<>>
  /\ LET p == Head(chain[a])
     IN /\ mark[p] = "ALLOCATED"
        /\ mark' = [mark EXCEPT ![p] = "FREE"]
        /\ free' = free \cup {p}
        /\ available' = available + 1
        /\ holds' = [holds EXCEPT ![a] = @ \ {p}]
        /\ chain' = [chain EXCEPT ![a] = Tail(@)]
  /\ UNCHANGED <<invalid, waitVars>>

(* nx_packet_release of a packet that is not marked allocated.              *)
ReleaseInvalid(a) ==
  /\ MayRun(a) /\ chain[a] = <<>> /\ invalid < MaxInvalid
  /\ \E p \in Packets : mark[p] # "ALLOCATED"
  /\ invalid' = invalid + 1
  /\ UNCHANGED <<free, available, mark, waitVars, callerVars>>

-----------------------------------------------------------------------------
(* The timer thread finds a wait expired and reads the cleanup pointer.     *)
TimerExpire(t) ==
  /\ IsrIdle /\ timer = NoThread
  /\ tstate[t] = "suspended" /\ cleanup[t]
  /\ timer' = t
  /\ UNCHANGED <<poolVars, suspList, suspCount, cleanup, status, out, tstate, callerVars>>

(* Mistake: the cleanup pointer is not looked at again.                     *)
PoolCleanupUnchecked ==
  /\ IsrIdle /\ timer # NoThread
  /\ timer' = NoThread
  /\ suspList' = SelectSeq(suspList, LAMBDA t : t # timer)
  /\ suspCount' = Len(suspList')
  /\ cleanup' = [cleanup EXCEPT ![timer] = FALSE]
  /\ status' = [status EXCEPT ![timer] = "NO_PACKET"]
  /\ tstate' = [tstate EXCEPT ![timer] = "resumed"]
  /\ UNCHANGED <<poolVars, out, callerVars>>

(* nx_packet_pool_cleanup for that thread; an interrupt may have released a *)
(* packet to it in between, and then the cleanup pointer is gone.           *)
PoolCleanup ==
  /\ IsrIdle /\ timer # NoThread
  /\ timer' = NoThread
  /\ IF cleanup[timer]
       THEN /\ \E i \in 1..Len(suspList) :
                 suspList[i] = timer /\ suspList' = RemoveAt(suspList, i)
            /\ suspCount' = suspCount - 1
            /\ cleanup' = [cleanup EXCEPT ![timer] = FALSE]
            /\ status' = [status EXCEPT ![timer] = "NO_PACKET"]
            /\ tstate' = [tstate EXCEPT ![timer] = "resumed"]
       ELSE UNCHANGED <<suspList, suspCount, cleanup, status, tstate>>
  /\ UNCHANGED <<poolVars, out, callerVars>>

Release(a) ==
  \/ ReleaseStart(a)
  \/ ReleaseToWaiter(a)
  \/ ReleaseToPool(a)
  \/ ReleaseInvalid(a)

Next ==
  \/ \E a \in Callers : AllocateAvailable(a) \/ Release(a)
  \/ \E t \in Threads : AllocateWait(t) \/ AllocateReturn(t) \/ TimerExpire(t)
  \/ PoolCleanup

Spec == Init /\ [][Next]_vars

-----------------------------------------------------------------------------
Listed(t) == \E i \in 1..Len(suspList) : suspList[i] = t
Older(t, u) ==
  \E i, j \in 1..Len(suspList) : i < j /\ suspList[i] = t /\ suspList[j] = u

(* The packet a resumed thread is about to return with.                     *)
Granted(t) == tstate[t] = "resumed" /\ status[t] = "SUCCESS"
Has(a, p) == p \in holds[a] \/ (a \in Threads /\ Granted(a) /\ out[a] = p)

(* Every variable has its type: words of the packet and thread control      *)
(* blocks hold only the values the services store in them.                  *)
TypeOK ==
  /\ free \subseteq Packets /\ available \in Nat
  /\ mark \in [Packets -> {"FREE", "ALLOCATED"}] /\ invalid \in 0..MaxInvalid
  /\ suspList \in Seq(Threads) /\ suspCount \in Nat
  /\ cleanup \in [Threads -> BOOLEAN]
  /\ status \in [Threads -> {"SUCCESS", "NO_PACKET"}]
  /\ out \in [Threads -> Packets \cup {NoPacket}]
  /\ tstate \in [Threads -> {"running", "suspended", "resumed"}]
  /\ timer \in Threads \cup {NoThread}
  /\ holds \in [Callers -> SUBSET Packets]
  /\ chain \in [Callers -> Seq(Packets)]

(* No packet is lost or owned twice, whatever interrupts and time-outs do   *)
(* between the turns of nx_packet_release: a packet is on the free list and *)
(* marked FREE, or marked ALLOCATED and one caller's (counting the packet a *)
(* resumed thread has not yet returned with), and available counts the list.*)
PacketsAccounted ==
  /\ available = Cardinality(free)
  /\ \A p \in Packets : p \in free <=> mark[p] = "FREE"
  /\ \A p \in Packets : p \in free <=> \A a \in Callers : ~ Has(a, p)
  /\ \A p \in Packets : \A a, b \in Callers : Has(a, p) /\ Has(b, p) => a = b

(* No thread sleeps in nx_packet_allocate beside a free packet: the release *)
(* that would free one serves the list instead (nx_packet_release.c:134).   *)
NoWaitBesideFree == suspList # <<>> => free = {}

(* The suspension list holds each suspended thread once, with its cleanup   *)
(* pointer set and counted, so neither a release nor a time-out that comes  *)
(* second can resume a thread twice or take another's place in the list.    *)
WaitersConsistent ==
  /\ suspCount = Len(suspList)
  /\ \A i, j \in 1..Len(suspList) : suspList[i] = suspList[j] => i = j
  /\ \A t \in Threads : Listed(t) <=> tstate[t] = "suspended"
  /\ \A t \in Threads : cleanup[t] <=> tstate[t] = "suspended"

(* Waiters get packets in the order in which they began to wait: in no step *)
(* is a thread granted a packet while an older waiter stays on the list,    *)
(* and no caller takes a packet off the free list past a waiter.            *)
ServedInOrder ==
  [][/\ \A t, u \in Threads : Older(t, u) /\ Granted(u)' => ~ Listed(t)'
     /\ suspList # <<>> => free' = free]_vars
=============================================================================
