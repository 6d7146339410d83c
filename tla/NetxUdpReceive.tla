--------------------------- MODULE NetxUdpReceive ---------------------------
(***************************************************************************)
(* Receiving UDP datagrams: the ports of one hash entry, each socket's     *)
(* receive queue and the threads suspended on it.  Datagrams come from the *)
(* IP thread, which holds the IP mutex, from an interrupt handler, or from *)
(* a driver's thread, which takes the mutex only to find the socket.       *)
(* Threads receive with interrupts disabled and without the mutex; unbind  *)
(* walks the queue or the waiters with the mutex and interrupts enabled.   *)
(* (nx_udp_packet_receive.c, nx_udp_socket_receive.c,                      *)
(* nx_udp_receive_cleanup.c, nx_udp_socket_unbind.c, nx_udp_socket_bind.c, *)
(* nx_udp_socket_create.c, nx_udp_socket_delete.c)                         *)
(*                                                                         *)
(* Waiting for a port is NetxUdpBind's.  A datagram whose checksum is      *)
(* wrong is released and receive starts over, as if it were called again.  *)
(***************************************************************************)
EXTENDS Integers, FiniteSets, Sequences

CONSTANTS
  Sockets, Ports,  \* UDP sockets, and ports with one index in the port table
  Threads,         \* threads that receive
  Packets,         \* packets the drivers fill
  None,            \* NX_NULL
  QueueMaximum,    \* nx_udp_socket_queue_maximum
  DriverThread,    \* a driver's thread delivers
  PreemptUnbind    \* resumed waiters and time-outs run before unbind is over

ReceiveAssumption ==
  /\ IsFiniteSet(Sockets) /\ IsFiniteSet(Threads)
  /\ None \notin Sockets \cup Ports \cup Threads \cup Packets
  /\ QueueMaximum \in Nat \ {0}
  /\ {DriverThread, PreemptUnbind} \subseteq BOOLEAN

VARIABLES
  created,      \* sockets with nx_udp_socket_id = NX_UDP_ID
  table,        \* nx_ip_udp_port_table[index]
  bnext, bprev, \* nx_udp_socket_bound_next, _previous
  port,         \* nx_udp_socket_port
  queue, count, \* packets from nx_udp_socket_receive_head; _receive_count
  list, waiting,\* nx_udp_socket_receive_suspension_list, _suspended_count
  nxt, prv,     \* tx_thread_suspended_next, tx_thread_suspended_previous
  on,           \* tx_thread_suspend_control_block
  cleanup,      \* tx_thread_suspend_cleanup # NULL
  tstate,       \* running, or suspended in receive
  got,          \* the packet receive stored for a thread
  free,         \* packets in the pool
  for,          \* destination port of a packet
  unbinder,     \* unbind in progress: its socket, step, packets, thread_ptr
  driver        \* what the driver's thread has found: packet and socket

tableVars == <<created, table, bnext, bprev, port>>
queueVars == <<queue, count>>
waitVars == <<list, waiting, nxt, prv, on, cleanup, tstate>>
packetVars == <<free, for>>
vars == <<tableVars, queueVars, waitVars, got, packetVars, unbinder, driver>>

NoUnbind == [sock |-> None, step |-> "none", packets |-> <<>>, thread |-> None]

Init ==
  /\ created = {} /\ table = None
  /\ bnext = [s \in Sockets |-> None] /\ bprev = [s \in Sockets |-> None]
  /\ port = [s \in Sockets |-> None]
  /\ queue = [s \in Sockets |-> <<>>] /\ count = [s \in Sockets |-> 0]
  /\ list = [s \in Sockets |-> None] /\ waiting = [s \in Sockets |-> 0]
  /\ nxt = [t \in Threads |-> t] /\ prv = [t \in Threads |-> t]
  /\ on = [t \in Threads |-> None]
  /\ cleanup = [t \in Threads |-> FALSE] /\ tstate = [t \in Threads |-> "running"]
  /\ got = [t \in Threads |-> None]
  /\ free = Packets /\ for = [k \in Packets |-> None]
  /\ unbinder = NoUnbind /\ driver = None

-----------------------------------------------------------------------------
MutexFree == unbinder.step = "none"
Bound(s) == bnext[s] # None
MayPreempt == PreemptUnbind \/ unbinder.step \notin {"walk", "count"}

(* The sockets a search that starts at the table entry passes: those in     *)
(* every set that has the entry and, with a socket, the next one.           *)
Passes(S) ==
  (table # None => table \in S) /\ \A s \in S : bnext[s] # None => bnext[s] \in S
Ring == {s \in Sockets : \A S \in SUBSET Sockets : Passes(S) => s \in S}
Found(p) == {s \in Ring : port[s] = p}

Create(s) ==
  /\ s \notin created /\ created' = created \cup {s}
  /\ queue' = [queue EXCEPT ![s] = <<>>] /\ count' = [count EXCEPT ![s] = 0]
  /\ list' = [list EXCEPT ![s] = None] /\ waiting' = [waiting EXCEPT ![s] = 0]
  /\ UNCHANGED <<table, bnext, bprev, port, nxt, prv, on, cleanup, tstate, got,
                 packetVars, unbinder, driver>>
Delete(s) ==
  /\ MutexFree /\ s \in created /\ ~ Bound(s)
  /\ created' = created \ {s}
  /\ UNCHANGED <<table, bnext, bprev, port, queueVars, waitVars, got, packetVars,
                 unbinder, driver>>

(* _nx_udp_socket_bind of a port nobody has: to the end of the entry's ring.*)
Bind(s, p) ==
  /\ MutexFree /\ s \in created /\ ~ Bound(s) /\ Found(p) = {}
  /\ port' = [port EXCEPT ![s] = p]
  /\ IF table = None
       THEN table' = s /\ bnext' = [bnext EXCEPT ![s] = s] /\ bprev' = [bprev EXCEPT ![s] = s]
       ELSE /\ bnext' = [bnext EXCEPT ![s] = table, ![bprev[table]] = s]
            /\ bprev' = [bprev EXCEPT ![s] = bprev[table], ![table] = s]
            /\ UNCHANGED table
  /\ UNCHANGED <<created, queueVars, waitVars, got, packetVars, unbinder, driver>>

-----------------------------------------------------------------------------
(* _nx_udp_socket_unbind: out of the port table; then the queue is cleared  *)
(* and its packets released one by one, or, if there is none, the waiters   *)
(* are resumed one by one; a resumed thread may preempt the caller before   *)
(* the count is lowered.                                                    *)
UnbindTable(s) ==
  /\ MutexFree /\ Bound(s)
  /\ IF bnext[s] = s
       THEN table' = None /\ bnext' = [bnext EXCEPT ![s] = None] /\ UNCHANGED bprev
       ELSE /\ table' = IF table = s THEN bnext[s] ELSE table
            /\ bnext' = [bnext EXCEPT ![bprev[s]] = bnext[s], ![s] = None]
            /\ bprev' = [bprev EXCEPT ![bnext[s]] = bprev[s]]
  /\ unbinder' = [NoUnbind EXCEPT !.sock = s, !.step = "table"]
  /\ UNCHANGED <<created, port, queueVars, waitVars, got, packetVars, driver>>


UnbindClear ==
  LET s == unbinder.sock
  IN /\ unbinder.step = "table"
     /\ IF count[s] > 0
          THEN /\ unbinder' = [unbinder EXCEPT !.step = "flush", !.packets = queue[s]]
               /\ queue' = [queue EXCEPT ![s] = <<>>] /\ UNCHANGED list
        ELSE IF waiting[s] > 0
          THEN /\ unbinder' = [unbinder EXCEPT !.step = "walk", !.thread = list[s]]
               /\ list' = [list EXCEPT ![s] = None] /\ UNCHANGED queue
        ELSE unbinder' = NoUnbind /\ UNCHANGED <<queue, list>>
     /\ UNCHANGED <<tableVars, count, waiting, nxt, prv, on, cleanup, tstate, got,
                    packetVars, driver>>

(* Mistake: the packet is not released.                                     *)
UnbindFlushLeak ==
  LET s == unbinder.sock
  IN /\ unbinder.step = "flush"
     /\ IF count[s] = 0 THEN unbinder' = NoUnbind /\ UNCHANGED count
        ELSE /\ unbinder' = [unbinder EXCEPT !.packets = Tail(@)]
             /\ count' = [count EXCEPT ![s] = @ - 1]
     /\ UNCHANGED <<tableVars, queue, waitVars, got, packetVars, driver>>

UnbindFlush ==
  LET s == unbinder.sock
  IN /\ unbinder.step = "flush"
     /\ IF count[s] = 0 THEN unbinder' = NoUnbind /\ UNCHANGED <<count, free>>
        ELSE IF unbinder.packets = <<>>
          THEN unbinder' = [unbinder EXCEPT !.step = "fault"] /\ UNCHANGED <<count, free>>
        ELSE /\ free' = free \cup {Head(unbinder.packets)}
             /\ unbinder' = [unbinder EXCEPT !.packets = Tail(@)]
             /\ count' = [count EXCEPT ![s] = @ - 1]
     /\ UNCHANGED <<tableVars, queue, waitVars, got, for, driver>>

UnbindWalk ==
  LET s == unbinder.sock
      t == unbinder.thread
  IN /\ unbinder.step = "walk"
     /\ IF waiting[s] = 0 THEN unbinder' = NoUnbind /\ UNCHANGED <<cleanup, tstate>>
        ELSE /\ cleanup' = [cleanup EXCEPT ![t] = FALSE]
             /\ tstate' = [tstate EXCEPT ![prv[nxt[t]]] = "running"]
             /\ unbinder' = [unbinder EXCEPT !.step = "count", !.thread = nxt[t]]
     /\ UNCHANGED <<tableVars, queueVars, list, waiting, nxt, prv, on, got, packetVars, driver>>
UnbindCount ==
  /\ unbinder.step = "count"
  /\ waiting' = [waiting EXCEPT ![unbinder.sock] = @ - 1]
  /\ unbinder' = [unbinder EXCEPT !.step = "walk"]
  /\ UNCHANGED <<tableVars, queueVars, list, nxt, prv, on, cleanup, tstate, got,
                 packetVars, driver>>

-----------------------------------------------------------------------------
(* _nx_udp_socket_receive of a bound socket: a queued packet, or a wait.    *)
ReceiveQueued(t, s) ==
  /\ tstate[t] = "running" /\ got[t] = None /\ Bound(s) /\ queue[s] # <<>>
  /\ got' = [got EXCEPT ![t] = Head(queue[s])]
  /\ queue' = [queue EXCEPT ![s] = Tail(@)] /\ count' = [count EXCEPT ![s] = @ - 1]
  /\ UNCHANGED <<tableVars, waitVars, packetVars, unbinder, driver>>

Suspend(t, s) ==
  /\ IF list[s] = None
       THEN /\ list' = [list EXCEPT ![s] = t]
            /\ nxt' = [nxt EXCEPT ![t] = t] /\ prv' = [prv EXCEPT ![t] = t]
       ELSE /\ nxt' = [nxt EXCEPT ![t] = list[s], ![prv[list[s]]] = t]
            /\ prv' = [prv EXCEPT ![t] = prv[list[s]], ![list[s]] = t]
            /\ UNCHANGED list
  /\ waiting' = [waiting EXCEPT ![s] = @ + 1]
  /\ on' = [on EXCEPT ![t] = s]
  /\ cleanup' = [cleanup EXCEPT ![t] = TRUE]
  /\ tstate' = [tstate EXCEPT ![t] = "suspended"]
ReceiveWait(t, s) ==
  /\ MayPreempt /\ tstate[t] = "running" /\ got[t] = None /\ Bound(s) /\ queue[s] = <<>>
  /\ Suspend(t, s)
  /\ UNCHANGED <<tableVars, queueVars, got, packetVars, unbinder, driver>>

(* Thread t leaves the list of its socket; the head becomes h.              *)
Leave(t, h) ==
  /\ list' = [list EXCEPT ![on[t]] = h]
  /\ IF nxt[t] = t THEN UNCHANGED <<nxt, prv>>
     ELSE /\ nxt' = [nxt EXCEPT ![prv[t]] = nxt[t]]
          /\ prv' = [prv EXCEPT ![nxt[t]] = prv[t]]
  /\ waiting' = [waiting EXCEPT ![on[t]] = @ - 1]
  /\ cleanup' = [cleanup EXCEPT ![t] = FALSE]
  /\ tstate' = [tstate EXCEPT ![t] = "running"]

(* _nx_udp_receive_cleanup, from the timer thread.                          *)
ReceiveExpires(t) ==
  /\ cleanup[t] /\ on[t] \in created
  /\ MayPreempt
  /\ Leave(t, IF nxt[t] = t THEN None ELSE nxt[t])
  /\ UNCHANGED <<tableVars, queueVars, on, got, packetVars, unbinder, driver>>

(* The application is done with a packet.                                   *)
Release(t) ==
  /\ got[t] # None /\ tstate[t] = "running"
  /\ free' = free \cup {got[t]} /\ got' = [got EXCEPT ![t] = None]
  /\ UNCHANGED <<tableVars, queueVars, waitVars, for, unbinder, driver>>

-----------------------------------------------------------------------------
(* The rest of _nx_udp_packet_receive: packet k to the first waiter of s,   *)
(* or to its queue, whose oldest packet goes when there are too many.       *)
Queued(s, k) ==
  LET full == queue[s] # <<>> /\ count[s] + 1 > QueueMaximum
      all == Append(queue[s], k)
  IN /\ queue' = [queue EXCEPT ![s] = IF full THEN Tail(all) ELSE all]
     /\ count' = [count EXCEPT ![s] = IF full THEN @ ELSE @ + 1]
     /\ free' = (free \ {k}) \cup (IF full THEN {Head(all)} ELSE {})
Deliver(k, s) ==
  IF list[s] = None THEN Queued(s, k) /\ UNCHANGED <<waitVars, got>>
  ELSE LET t == list[s]
       IN /\ Leave(t, IF nxt[t] = t THEN None ELSE nxt[t])
          /\ got' = [got EXCEPT ![t] = k] /\ free' = free \ {k}
          /\ UNCHANGED <<queueVars, on>>

(* From an interrupt handler, which also moves the table entry to the       *)
(* socket it found, if nobody holds the mutex; and from the IP thread.      *)
IsrReceive(k, p) ==
  \E s \in Found(p) :
    /\ s \in created /\ k \in free
    /\ for' = [for EXCEPT ![k] = p] /\ Deliver(k, s)
    /\ table' = IF MutexFree THEN s ELSE table
    /\ UNCHANGED <<created, bnext, bprev, port, unbinder, driver>>
IpReceive(k, p) ==
  \E s \in Found(p) :
    /\ MutexFree /\ s \in created /\ k \in free
    /\ for' = [for EXCEPT ![k] = p] /\ Deliver(k, s)
    /\ UNCHANGED <<tableVars, unbinder, driver>>

(* From a driver's thread: the search with the mutex, the test of the port  *)
(* after it, and, any time later, the delivery.                             *)
DriverFind(k, p) ==
  /\ DriverThread /\ driver = None /\ MutexFree /\ k \in free
  /\ \E s \in Found(p) : driver' = [packet |-> k, sock |-> s]
  /\ for' = [for EXCEPT ![k] = p] /\ free' = free \ {k}
  /\ UNCHANGED <<tableVars, queueVars, waitVars, got, unbinder>>
DriverDrop ==
  /\ driver # None
  /\ port[driver.sock] # for[driver.packet] \/ driver.sock \notin created
  /\ free' = free \cup {driver.packet} /\ driver' = None
  /\ UNCHANGED <<tableVars, queueVars, waitVars, got, for, unbinder>>
DriverDeliver ==
  /\ driver # None /\ driver.sock \in created
  /\ Deliver(driver.packet, driver.sock)
  /\ table' = IF MutexFree THEN driver.sock ELSE table
  /\ driver' = None
  /\ UNCHANGED <<created, bnext, bprev, port, for, unbinder>>

Next ==
  \/ \E s \in Sockets :
       \/ Create(s) \/ Delete(s) \/ UnbindTable(s)
       \/ \E p \in Ports : Bind(s, p)
       \/ \E t \in Threads : ReceiveQueued(t, s) \/ ReceiveWait(t, s)
  \/ UnbindClear \/ UnbindFlush \/ UnbindWalk \/ UnbindCount
  \/ \E t \in Threads : ReceiveExpires(t) \/ Release(t)
  \/ \E k \in Packets, p \in Ports : IsrReceive(k, p) \/ IpReceive(k, p) \/ DriverFind(k, p)
  \/ DriverDrop \/ DriverDeliver

Spec == Init /\ [][Next]_vars

(* What is left of an unbind that has begun.                                *)
Unbind == UnbindClear \/ UnbindFlush \/ UnbindWalk \/ UnbindCount
-----------------------------------------------------------------------------
(* Every variable has its type.                                             *)
TypeOK ==
  /\ created \subseteq Sockets /\ table \in Sockets \cup {None}
  /\ bnext \in [Sockets -> Sockets \cup {None}] /\ bprev \in [Sockets -> Sockets \cup {None}]
  /\ port \in [Sockets -> Ports \cup {None}]
  /\ \A s \in Sockets : queue[s] \in Seq(Packets)
  /\ count \in [Sockets -> 0..QueueMaximum]
  /\ list \in [Sockets -> Threads \cup {None}]
  /\ waiting \in [Sockets -> 0..Cardinality(Threads)]
  /\ nxt \in [Threads -> Threads] /\ prv \in [Threads -> Threads]
  /\ on \in [Threads -> Sockets \cup {None}] /\ cleanup \in [Threads -> BOOLEAN]
  /\ tstate \in [Threads -> {"running", "suspended"}]
  /\ got \in [Threads -> Packets \cup {None}]
  /\ free \subseteq Packets /\ for \in [Packets -> Ports \cup {None}]
  /\ unbinder.step \in {"none", "table", "flush", "walk", "count"}

Held(s) == {queue[s][n] : n \in 1..Len(queue[s])}

(* Where a packet is: a place in a queue, or in the one unbind releases,    *)
(* with a thread, in the pool, or with the driver.                          *)
At(q, k) == {n \in 1..Len(q) : q[n] = k}
Places(k) ==
  (UNION {{<<"queue", s, n>> : n \in At(queue[s], k)} : s \in Sockets})
  \cup {<<"unbind", n>> : n \in At(unbinder.packets, k)}
  \cup {<<"thread", t>> : t \in {u \in Threads : got[u] = k}}
  \cup {<<"pool", m>> : m \in free \cap {k}}
  \cup (IF driver = None THEN {} ELSE {<<"driver", m>> : m \in {driver.packet} \cap {k}})

(* No overflow, unbind or expired wait loses a packet or hands it out twice.*)
PacketsAccounted == \A k \in Packets : Cardinality(Places(k)) = 1

(* A packet is never handed out twice, not even by a driver's thread that   *)
(* delivers to a socket that was unbound, bound elsewhere or deleted since. *)
NeverTwice == \A k \in Packets : Cardinality(Places(k)) <= 1

(* The count unbind goes by is the number of packets it will find.          *)
CountTrue ==
  \A s \in Sockets :
    count[s] = Len(queue[s]) + (IF unbinder.sock = s THEN Len(unbinder.packets) ELSE 0)

(* Nobody waits beside a queued datagram.                                   *)
NobodyWaitsBesidePacket ==
  \A t \in Threads : tstate[t] = "suspended" => queue[on[t]] = <<>>

(* The ring of the table entry is the bound sockets, and the socket of      *)
(* unbind is not in it: a search ends and finds every bound port.           *)
TableTrue ==
  /\ Ring = {s \in Sockets : Bound(s)}
  /\ \A s \in Ring : bprev[bnext[s]] = s /\ bnext[bprev[s]] = s

(* nx_udp_packet_receive.c:351: the socket found is "still valid" when the  *)
(* packet is given to it: a thread gets datagrams for the port its socket   *)
(* is bound to, and for no other.                                           *)
GetsOwn(t) ==
  \A s \in Sockets :
    (/\ got[t] = None /\ got'[t] # None
     /\ got'[t] \in Held(s) \/ (tstate[t] = "suspended" /\ on[t] = s))
    => Bound(s) /\ for'[got'[t]] = port[s]

(* nx_udp_socket_unbind.c:314: the walk resumes "any and all threads        *)
(* suspended on this queue": a socket that was unbound has neither waiters  *)
(* nor packets left.                                                        *)
UnboundIsEmpty ==
  \A s \in Sockets :
    ~ Bound(s) /\ unbinder.sock # s =>
      queue[s] = <<>> /\ \A t \in Threads : ~ (tstate[t] = "suspended" /\ on[t] = s)
=============================================================================
