---------------------------- MODULE NetxTcpListen ---------------------------
(***************************************************************************)
(* TCP listen requests: the socket that waits for the next connection on a *)
(* port and the queue of SYN packets that came while there was none.  The  *)
(* IP thread queues and drops packets; listen, relisten, accept, unaccept  *)
(* and unlisten come from application threads; all hold the IP mutex, but  *)
(* accept writes once more after its wait, without it.                     *)
(* (nx_tcp_packet_process.c:553-998, nx_tcp_server_socket_listen.c,        *)
(* nx_tcp_server_socket_relisten.c, nx_tcp_server_socket_accept.c,         *)
(* nx_tcp_server_socket_unaccept.c, nx_tcp_server_socket_unlisten.c)       *)
(*                                                                         *)
(* The queue is the code's: packets linked through nx_packet_queue_next,   *)
(* with a head, a tail and a count.  What happens to a connection once its *)
(* SYN was taken is NetxTcpConnection's: here it is established, ends or   *)
(* is reset.                                                               *)
(***************************************************************************)
EXTENDS Integers, FiniteSets, Sequences

CONSTANTS
  Sockets,      \* server sockets
  Ports,        \* ports they listen on
  Sources,      \* address and port of the clients
  Packets,      \* packets for their SYN segments
  None,         \* NX_NULL
  MaxQueue,     \* listen_queue_size
  MaxRequests,  \* NX_MAX_LISTEN_REQUESTS
  Declines,     \* sources the application's SYN notify may turn down
  LateAccept    \* others run between accept's wake-up and its last write

ListenAssumption ==
  /\ IsFiniteSet(Ports) /\ MaxQueue \in Nat /\ MaxRequests \in Nat
  /\ None \notin Sockets \cup Packets \cup Sources
  /\ Declines \subseteq Sources /\ LateAccept \in BOOLEAN

VARIABLES
  active,            \* ports with a listen request in use
  listener,          \* nx_tcp_listen_socket_ptr
  head, tail, count, \* nx_tcp_listen_queue_head, _tail, _current
  link,              \* nx_packet_queue_next
  source,            \* where a packet's SYN came from
  pool,              \* packets not in use
  state,             \* nx_tcp_socket_state
  port, bound, peer, \* nx_tcp_socket_port, _bound_next, _connect_ip and _port
  waiter             \* the thread in accept: none, waiting, or woken by failure

queueVars == <<active, listener, head, tail, count>>
packetVars == <<link, source, pool>>
socketVars == <<state, port, bound, peer, waiter>>
vars == <<queueVars, packetVars, socketVars>>

Init ==
  /\ active = {} /\ listener = [p \in Ports |-> None]
  /\ head = [p \in Ports |-> None] /\ tail = [p \in Ports |-> None]
  /\ count = [p \in Ports |-> 0]
  /\ link = [k \in Packets |-> None] /\ source = [k \in Packets |-> None]
  /\ pool = Packets
  /\ state = [s \in Sockets |-> "CLOSED"] /\ port = [s \in Sockets |-> None]
  /\ bound = [s \in Sockets |-> FALSE] /\ peer = [s \in Sockets |-> None]
  /\ waiter = [s \in Sockets |-> "none"]

-----------------------------------------------------------------------------
Linked(k) == IF k = None THEN None ELSE link[k]
SourceOf(k) == IF k = None THEN None ELSE source[k]
(* The n-th packet from the head, as the walks find it.                     *)
At(p, n) ==
  LET packet[i \in 1..n] == IF i = 1 THEN head[p] ELSE Linked(packet[i - 1])
  IN packet[n]
QueueOf(p) == [n \in 1..count[p] |-> At(p, n)]
BacklogOf(p) == [n \in 1..count[p] |-> SourceOf(At(p, n))]
Queued(p, x) == \E n \in 1..count[p] : BacklogOf(p)[n] = x

(* A segment from x to port p belongs to a bound socket with that peer.     *)
Owned(p, x) == \E s \in Sockets : bound[s] /\ port[s] = p /\ peer[s] = x

(* The socket becomes the one for the connection request from x.            *)
Take(s, p, x) ==
  /\ peer' = [peer EXCEPT ![s] = x] /\ bound' = [bound EXCEPT ![s] = TRUE]
  /\ port' = [port EXCEPT ![s] = p]

-----------------------------------------------------------------------------
(* A SYN from x when the request has a socket: unless the application's     *)
(* notify turns it down, the socket is bound for it.                        *)
SynListener(p, x) ==
  /\ p \in active /\ listener[p] # None /\ ~ Owned(p, x)
  /\ Take(listener[p], p, x)
  /\ listener' = [listener EXCEPT ![p] = None]
  /\ UNCHANGED <<active, head, tail, count, packetVars, state, waiter>>

(* Packet k with the SYN of x goes to the tail; beyond the maximum the head *)
(* is dropped, and released.                                                *)
Enqueue(p, x, k, released) ==
  LET first == head[p] = None
      link1 == IF first THEN [link EXCEPT ![k] = None]
               ELSE [link EXCEPT ![k] = None, ![tail[p]] = k]
      head1 == IF first THEN k ELSE head[p]
  IN /\ tail' = [tail EXCEPT ![p] = k]
     /\ IF count[p] < MaxQueue
          THEN /\ head' = [head EXCEPT ![p] = head1]
               /\ count' = [count EXCEPT ![p] = @ + 1]
               /\ pool' = pool \ {k}
               /\ source' = [source EXCEPT ![k] = x] /\ link' = link1
          ELSE /\ head' = [head EXCEPT ![p] = link1[head1]]
               /\ pool' = (pool \ {k}) \cup (IF released THEN {head1} ELSE {})
               /\ source' = [source EXCEPT ![k] = x, ![head1] = None]
               /\ link' = [link1 EXCEPT ![head1] = None]
               /\ UNCHANGED count
     /\ UNCHANGED <<active, listener, socketVars>>

Unserved(p, x) == p \in active /\ listener[p] = None /\ ~ Owned(p, x)

(* Mistake: the dropped packet is not released.                             *)
SynQueueLeak(p, x, k) ==
  Unserved(p, x) /\ k \in pool /\ ~ Queued(p, x) /\ Enqueue(p, x, k, FALSE)
(* A SYN when it has none: one that is queued already is dropped; this one  *)
(* goes to the tail, and if there are too many the head is dropped.         *)
SynQueue(p, x, k) ==
  /\ Unserved(p, x) /\ k \in pool /\ ~ Queued(p, x)
  /\ Enqueue(p, x, k, TRUE)

(* Mistake: the tail is not moved when the last packet is taken out.        *)
RstQueueTail(p, x) ==
  /\ p \in active /\ ~ Owned(p, x)
  /\ \E n \in 1..count[p] :
       LET q == At(p, n)
       IN /\ source[q] = x
          /\ head' = [head EXCEPT ![p] = IF n = 1 THEN link[q] ELSE @]
          /\ link' = IF n = 1 THEN link ELSE [link EXCEPT ![At(p, n - 1)] = link[q]]
          /\ pool' = pool \cup {q}
          /\ count' = [count EXCEPT ![p] = @ - 1]
  /\ UNCHANGED <<active, listener, tail, source, socketVars>>

(* A RST from x takes the packet of x out of the queue.  The previous       *)
(* packet of the first one is, in the code, the first itself.               *)
RstQueue(p, x) ==
  /\ p \in active /\ ~ Owned(p, x)
  /\ \E n \in 1..count[p] :
       LET q == At(p, n)
           before == IF n = 1 THEN q ELSE At(p, n - 1)
       IN /\ source[q] = x
          /\ head' = [head EXCEPT ![p] = IF n = 1 THEN link[q] ELSE @]
          /\ link' = [link EXCEPT ![before] = link[q], ![q] = None]
          /\ source' = [source EXCEPT ![q] = None]
          /\ tail' = [tail EXCEPT ![p] = IF @ = q THEN before ELSE @]
          /\ pool' = pool \cup {q}
          /\ count' = [count EXCEPT ![p] = @ - 1]
  /\ UNCHANGED <<active, listener, socketVars>>

-----------------------------------------------------------------------------
(* _nx_tcp_server_socket_listen.                                            *)
Listen(s, p) ==
  /\ state[s] = "CLOSED" /\ ~ bound[s]
  /\ p \notin active /\ Cardinality(active) < MaxRequests
  /\ active' = active \cup {p} /\ listener' = [listener EXCEPT ![p] = s]
  /\ head' = [head EXCEPT ![p] = None] /\ tail' = [tail EXCEPT ![p] = None]
  /\ count' = [count EXCEPT ![p] = 0]
  /\ state' = [state EXCEPT ![s] = "LISTEN"] /\ port' = [port EXCEPT ![s] = p]
  /\ UNCHANGED <<packetVars, bound, peer, waiter>>

(* _nx_tcp_server_socket_relisten with nothing queued, and with a queued    *)
(* SYN, which the application's notify may turn down: then relisten still   *)
(* returns NX_SUCCESS.                                                      *)
RelistenIdle(s, p) ==
  /\ state[s] = "CLOSED" /\ ~ bound[s]
  /\ p \in active /\ listener[p] = None /\ count[p] = 0
  /\ listener' = [listener EXCEPT ![p] = s]
  /\ state' = [state EXCEPT ![s] = "LISTEN"] /\ port' = [port EXCEPT ![s] = p]
  /\ UNCHANGED <<active, head, tail, count, packetVars, bound, peer, waiter>>

(* A released packet is the pool's: nothing it held is used again.          *)
Forget(released) ==
  /\ pool' = pool \cup released
  /\ source' = [k \in Packets |-> IF k \in released THEN None ELSE source[k]]
  /\ link' = [k \in Packets |-> IF k \in released THEN None ELSE link[k]]

Dequeue(p) ==
  /\ head' = [head EXCEPT ![p] = link[@]]
  /\ tail' = [tail EXCEPT ![p] = IF head[p] = @ THEN None ELSE @]
  /\ count' = [count EXCEPT ![p] = @ - 1]
  /\ Forget({head[p]})

RelistenPending(s, p) ==
  /\ state[s] = "CLOSED" /\ ~ bound[s]
  /\ p \in active /\ listener[p] = None /\ count[p] # 0
  /\ Dequeue(p)
  /\ Take(s, p, source[head[p]])
  /\ state' = [state EXCEPT ![s] = "LISTEN"]
  /\ UNCHANGED <<active, listener, waiter>>

RelistenDeclined(s, p) ==
  /\ state[s] = "CLOSED" /\ ~ bound[s]
  /\ p \in active /\ listener[p] = None /\ count[p] # 0
  /\ source[head[p]] \in Declines
  /\ Dequeue(p)
  /\ UNCHANGED <<active, listener, socketVars>>

(* _nx_tcp_server_socket_unlisten: a socket that listens must be in the     *)
(* LISTEN state; without one the queue is flushed.                          *)
Unlisten(p) ==
  /\ p \in active
  /\ IF listener[p] # None
       THEN /\ state[listener[p]] = "LISTEN"
            /\ state' = [state EXCEPT ![listener[p]] = "CLOSED"]
            /\ listener' = [listener EXCEPT ![p] = None]
            /\ UNCHANGED <<head, tail, count, packetVars>>
       ELSE /\ head' = [head EXCEPT ![p] = None] /\ tail' = [tail EXCEPT ![p] = None]
            /\ count' = [count EXCEPT ![p] = 0]
            /\ Forget({QueueOf(p)[n] : n \in 1..count[p]})
            /\ UNCHANGED <<state, listener>>
  /\ active' = active \ {p}
  /\ UNCHANGED <<port, bound, peer, waiter>>

-----------------------------------------------------------------------------
(* _nx_tcp_server_socket_accept, before a SYN or after, up to its wait.     *)
Accept(s) ==
  /\ state[s] \in {"LISTEN", "SYN_RECEIVED"} /\ waiter[s] = "none"
  /\ state' = [state EXCEPT ![s] = "SYN_RECEIVED"]
  /\ waiter' = [waiter EXCEPT ![s] = "waiting"]
  /\ UNCHANGED <<queueVars, packetVars, port, bound, peer>>

Woken(s) ==
  waiter' = [waiter EXCEPT ![s] = IF @ = "waiting" /\ LateAccept THEN "failed" ELSE "none"]

(* _nx_tcp_connect_cleanup, when the wait expires or the socket is          *)
(* disconnected; then accept's own write, when its thread runs again.       *)
AcceptFails(s) ==
  /\ waiter[s] = "waiting"
  /\ Woken(s)
  /\ state' = [state EXCEPT ![s] = "LISTEN"]
  /\ UNCHANGED <<queueVars, packetVars, port, bound, peer>>
AcceptReturns(s) ==
  /\ waiter[s] = "failed"
  /\ waiter' = [waiter EXCEPT ![s] = "none"]
  /\ state' = [state EXCEPT ![s] = "LISTEN"]
  /\ UNCHANGED <<queueVars, packetVars, port, bound, peer>>

(* The connection: established; closed; or reset, which leaves a server     *)
(* socket in the LISTEN state, bound and without a peer.                    *)
Established(s) ==
  /\ state[s] = "SYN_RECEIVED" /\ bound[s] /\ peer[s] # None
  /\ state' = [state EXCEPT ![s] = "ESTABLISHED"]
  /\ waiter' = [waiter EXCEPT ![s] = IF @ = "waiting" THEN "none" ELSE @]
  /\ UNCHANGED <<queueVars, packetVars, port, bound, peer>>
Closed(s) ==
  /\ state[s] = "ESTABLISHED"
  /\ state' = [state EXCEPT ![s] = "CLOSED"]
  /\ UNCHANGED <<queueVars, packetVars, port, bound, peer, waiter>>
Reset(s) ==
  /\ state[s] \in {"SYN_RECEIVED", "ESTABLISHED"} /\ bound[s] /\ peer[s] # None
  /\ state' = [state EXCEPT ![s] = "LISTEN"]
  /\ peer' = [peer EXCEPT ![s] = None]
  /\ IF waiter[s] = "waiting" THEN Woken(s) ELSE UNCHANGED waiter
  /\ UNCHANGED <<queueVars, packetVars, port, bound>>


(* _nx_tcp_server_socket_unaccept: a bound socket leaves the port table,    *)
(* an unbound one leaves its listen request.                                *)
Unaccept(s) ==
  /\ \/ state[s] = "LISTEN"
     \/ state[s] = "CLOSED" /\ bound[s]
  /\ bound' = [bound EXCEPT ![s] = FALSE]
  /\ listener' = IF bound[s] THEN listener
                 ELSE [p \in Ports |-> IF p \in active /\ listener[p] = s THEN None
                                       ELSE listener[p]]
  /\ peer' = [peer EXCEPT ![s] = IF state[s] = "CLOSED" THEN None ELSE @]
  /\ state' = [state EXCEPT ![s] = "CLOSED"]
  /\ UNCHANGED <<active, head, tail, count, packetVars, port, waiter>>

Next ==
  \/ \E p \in Ports, x \in Sources :
       SynListener(p, x) \/ RstQueue(p, x) \/ \E k \in Packets : SynQueue(p, x, k)
  \/ \E p \in Ports, s \in Sockets :
       Listen(s, p) \/ RelistenIdle(s, p) \/ RelistenPending(s, p) \/ RelistenDeclined(s, p)
  \/ \E p \in Ports : Unlisten(p)
  \/ \E s \in Sockets :
       \/ Accept(s) \/ AcceptFails(s) \/ AcceptReturns(s)
       \/ Established(s) \/ Closed(s) \/ Reset(s) \/ Unaccept(s)

Spec == Init /\ [][Next]_vars
-----------------------------------------------------------------------------
(* Every variable has its type.                                             *)
TypeOK ==
  /\ active \subseteq Ports /\ listener \in [Ports -> Sockets \cup {None}]
  /\ head \in [Ports -> Packets \cup {None}] /\ tail \in [Ports -> Packets \cup {None}]
  /\ count \in [Ports -> 0..MaxQueue]
  /\ link \in [Packets -> Packets \cup {None}]
  /\ source \in [Packets -> Sources \cup {None}] /\ pool \subseteq Packets
  /\ state \in [Sockets -> {"CLOSED", "LISTEN", "SYN_RECEIVED", "ESTABLISHED"}]
  /\ port \in [Sockets -> Ports \cup {None}] /\ bound \in [Sockets -> BOOLEAN]
  /\ peer \in [Sockets -> Sources \cup {None}]
  /\ waiter \in [Sockets -> {"none", "waiting", "failed"}]

(* Each SYN packet is queued at one port, once, or was released once: the   *)
(* chain of count packets from the head ends at the tail, without a packet  *)
(* of the pool, whatever was dropped, withdrawn or taken from it.           *)
PacketsAccounted ==
  /\ \A p \in Ports : count[p] > 0 =>
       /\ At(p, count[p]) = tail[p] /\ link[tail[p]] = None
       /\ Cardinality({QueueOf(p)[n] : n \in 1..count[p]}) = count[p]
  /\ \A k \in Packets :
       k \in pool <=> ~ \E p \in Ports : \E n \in 1..count[p] : QueueOf(p)[n] = k

(* A request that has a socket has nothing queued, or those clients would   *)
(* wait beside an idle server.                                              *)
NobodyWaitsBesideListener ==
  \A p \in Ports : listener[p] # None => count[p] = 0

(* A client has one server socket or one place in the queue, never both.    *)
OneConnectionPerSource ==
  \A p \in Ports, x \in Sources :
    LET sockets == {s \in Sockets : bound[s] /\ port[s] = p /\ peer[s] = x}
    IN Cardinality(sockets) + (IF Queued(p, x) THEN 1 ELSE 0) <= 1

(* A listen request names an unbound socket in LISTEN or SYN_RECEIVED on    *)
(* its port, and every such socket has been named by one or is bound.       *)
ListenersServed ==
  \A s \in Sockets :
    ~ bound[s] /\ state[s] \in {"LISTEN", "SYN_RECEIVED"}
      <=> \E p \in active : listener[p] = s /\ port[s] = p

(* The queues as the backlog a listen request promises.                     *)
Backlogs == [p \in Ports |-> BacklogOf(p)]
=============================================================================
