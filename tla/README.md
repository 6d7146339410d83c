# NetX Duo for Arduino: a TLA+ verification project

NetX Duo is an embedded TCP/IP stack on the ThreadX kernel. This directory holds
TLA+ models of its concurrent core, the TLC configurations that check them, and
TLAPS proofs. Paths are relative to the repository; a bare file name is in
`src/`. `PROJECT.json` maps each definition to the lines it stands for.

How the code runs, in one paragraph: application threads call services; one IP
thread per IP instance runs the protocol handlers and the periodic processing;
the ThreadX timer thread fires time-outs; interrupt handlers belong to the
driver. Sockets are protected by the mutex `nx_ip_protection`, held by services
and by the IP thread. Packet pools and UDP receive queues are protected only by
`TX_DISABLE .. TX_RESTORE` (interrupts off), because the driver frees and delivers
packets from interrupts. A suspended thread sits on a circular list of what it
waits for, with a *cleanup pointer* that says a time-out may still take it off.

## 1. Inventory

| component | state it keeps | operations | interacts with | what is hard | what makes it correct | module |
|---|---|---|---|---|---|---|
| packet pool | available list and count, suspension list and count, a mark in each packet | allocate, release, chains, time-out cleanup | everything; the driver from interrupts | interrupt between any two sections; time-out against hand-over | no packet lost or given twice; nobody waits beside a free packet; service in order | `NetxPacketPool` |
| pool delete | the same list, walked | delete | waiters, interrupts | the walk gives up `TX_DISABLE` between two waiters | every waiter is woken and told | `NetxPoolDelete` |
| TCP transmit queue | sent list and count; two words of each packet | send, ACK, retransmit, flush; transmit release | packet pool, driver | the driver completes without the mutex; send gives the mutex up between its test and the queueing | the last user frees, once; every removed segment is freed; how far the queue exceeds its maximum | `NetxTcpTransmitQueue` |
| TCP client binding | port table, list of waiters at the owner, back pointers | bind, unbind, time-out | IP thread, timer thread | hand-over against time-out; two-stage time-outs | the result of bind tells who has the port; a free port reaches a waiter | `NetxTcpBind` |
| TCP connection | state, sequence numbers, FIN flags, timer, suspended threads | connect, accept, relisten, unaccept, disconnect; eleven states' handlers; timer | network, IP thread, services | loss, delay, repetition, reordering; old segments; simultaneous open and close; steps outside the mutex | both ends agree; nobody sleeps for a dead connection; a close that succeeds was orderly | `NetxTcpConnection` |
| TCP listen queue | listen requests, SYNs linked per port | listen, relisten, accept, unaccept, unlisten, SYN, RST of a queued SYN | packet pool, connection | overflow while another takes from it; a write outside the mutex | each SYN served, dropped or withdrawn once; no client beside an idle server | `NetxTcpListen` |
| TCP data transfer | windows, transmit and receive queue, suspended readers and writers, probe, timer | send, receive, ACK, data check, retransmit, probe, FIN | all of TCP | window edges, reassembly, the mutex given up inside send, lost window updates | bytes in order, once; the window is the room; what is written arrives | `NetxTcpReceive`, `NetxTcpTransfer` |
| UDP receiving | receive queue and count, suspended readers, ring of the port table | create, delete, bind, unbind, receive, packet receive | packet pool, IP thread, interrupts, driver threads | socket used after the mutex is given up; overflow; unbind's walk with interrupts on | a datagram goes to one reader of its port or is freed | `NetxUdpReceive` |
| UDP ports | waiters at the holder of a port | bind, unbind, time-out, delete | timer thread | time-out without the mutex | result tells table; hand-over in order | `NetxUdpBind` |
| ARP cache | dynamic, static and active lists, packets that wait | send, receive, six services, periodic update | driver, packet pool | entries reused while packets wait; the period walks what it moves | each waiting packet sent or freed once, in the end | `NetxArpCache` |
| Wi-Fi offload driver (`ports/bsp/b_l4s5i_iot01a/nx_driver_stm32l4.c`) | table of module sockets | connect, listen, accept, disconnect, bind, send, poll | TCP and UDP services, Wi-Fi module | slot reuse; orders of close, disconnect and listen; accept's steps outside the mutex | a slot belongs to one socket; peers are served | `NetxWifiOffload` |
| IP thread and events | event flags, deferred packet queue | deferred receive, event loop, timers | all | an event set between test and wait | no event lost | the actor that runs the handlers |
| IPv4 fragments | queue of received fragments, assembly queue of chains, reassembly times | fragment, receive, assemble, expire, enable, disable | packet pool, interrupts, IP thread's timer | order, copies, overlap; expiry and disable against arrival | a datagram is dispatched whole, or its fragments are freed | `NetxIpFragment` |
| DHCP client and server | lease and timers of each client; records, addresses, leases and sessions of the server | start, ask, stop, renew, release, decline; discover, request, expire | UDP, each other | two tables changed by messages and by two timers; losses; leases that end on both sides | no two clients use one address; a client that was started gets one | `NetxDhcp` |
| DNS, SNTP, MQTT clients | protocol state, retries, timers | request, answer, time-out | UDP or TCP | late and repeated answers | cache and QoS rules | |
| nx_cloud, Azure IoT | event flags of modules | register, set event, dispatch | MQTT, TLS | events against deregistration | every event dispatched | |
| TLS, DTLS | handshake state | handshake, retransmit | TCP, UDP, crypto | flights lost or repeated | handshake order | |
| ICMP, IGMP, RARP, IPv6/ND, crypto, trace, `nxe_` wrappers, vendored Azure SDK, board support, demo | see `PROJECT.json` | | | | | |

The shipped port (`nx_port_B_L4S5I_IOT01A.h`) disables IPv6 and compiles in
`NX_ENABLE_TCPIP_OFFLOAD` and `NX_ENABLE_INTERFACE_CAPABILITY`. Offload is a
capability of an interface, looked up at run time: `NetxWifiOffload` is about
interfaces that have it, the other modules about the host stack, which
interfaces without it use. Everything hard to test is listed, at its line, under
`hazards` in `PROJECT.json`.

## 2. Plan

The order was: what every other part depends on first, then what runs
concurrently, then what a user of the stack is promised.

1. `NetxPacketPool` with the abstract `NetxPacketOwnership`, proved.
2. `NetxTcpTransmitQueue` with the abstract `NetxSharedPacket`, proved.
3. `NetxTcpBind`, proved for any number of waiters.
4. `NetxTcpConnection`, its safety proved.
5. `NetxTcpListen` with the abstract `NetxSynBacklog`, proved; `NetxWifiOffload`,
   its safety proved; `NetxPoolDelete`.
6. `NetxTcpReceive` with the abstract `NetxByteStream`, proved; `NetxTcpTransfer`
   composed with it.
7. `NetxArpCache`, `NetxUdpReceive`, `NetxUdpBind`, proved; `MCNetxSockets`, which
   composes them with the listen requests: all its properties proved; `MCNetxHost`, which
   composes the others with one another: proved but for DHCP and liveness.
8. `NetxIpFragment`.
9. `NetxDhcp`.

Who goes on from here finds the remaining parts in section 6, with the reason
why each stands where it does. Proofs worth adding: that a NetX sender is a peer of
`NetxTcpReceive`, which would carry the theorems about it over to `NetxTcpTransfer`;
and that reassembly loses no fragment (`FragmentsAccounted`).

## 3. Modules and how they correspond to the code

**`NetxPacketPool`** One step per `TX_DISABLE` section of `_nx_packet_allocate`,
`_nx_packet_release`, `_nx_packet_pool_cleanup`. Callers are threads and one
interrupt handler `Isr`, which may not wait. Priorities are those ThreadX
enforces: an interrupt preempts everything, the timer thread preempts other
threads, so between its reading a cleanup pointer (`TimerExpire`) and calling it
(`PoolCleanup`) only the interrupt handler runs. In `_nx_packet_release` the part
after `TX_RESTORE` at 177 still has preemption disabled and works on a thread
already off the list, so it is one step with the section before it. Chains
(`ReleaseStart`) are released packet by packet. `mark` is the word that is
`NX_PACKET_FREE`, `NX_PACKET_ALLOCATED` or a link; a release of a packet that is
not `ALLOCATED` is counted and refused. The order of the free list and the
contents of packets are left out.

**`NetxPacketOwnership`, `NetxPacketPoolRefinement`** Ownership of packets with
no lists or waiting: a free packet is taken, an owner gives it back. The
refinement gives a packet handed to a resumed thread to that thread at once.

**`NetxPoolDelete`** The walk of `nx_packet_pool_delete.c` over the circular
list, one step between two of its `TX_DISABLE` sections, with the allocations,
releases and time-outs that made the list before it. Packets are counted. `Release`
is also the interrupt handler's, which comes between any two steps of the walk and
takes the head of the list whether the walk has resumed it or not; coming between the
load and the store of the walk's `count--` its own decrement is lost. `released` is a
history variable: the packets so handed over since the delete began.

**`NetxTcpTransmitQueue`** Three parties share a sent packet. `mark` and `txDone`
are the two words of the handshake: `nx_packet_tcp_queue_next` (a link while
queued, else `ALLOCATED` or `FREE`) and `NX_DRIVER_TX_DONE` in
`nx_packet_queue_next`. The IP thread's walks (ACK, retransmit, flush) hold the
mutex (`pc`), and the driver's `DriverDone` runs between any two of their steps,
which are as fine as the accesses to those words: `AckMark`, `AckTest`,
`AckLeave` are separate because the ACK walk does not disable interrupts;
`FlushOne` is one step because the flush does. A send has the steps its mutex gives
it: `Prepare` tests for room, `Number` reads the sequence number without the mutex,
`Send` queues if that is still the next number and the socket still open, `SendFails`
is the other case; `sending` says how far each has come, and `Writers` how many threads
send at once. Windows, RTT and contents are left out: an ACK covers any prefix, a
retransmission stops anywhere.

**`NetxSharedPacket`** What the handshake promises: a packet has a set of users
and is free exactly when the last one drops it.

**`NetxTcpBind`** Each socket has one application thread. `bound` is the port
table; `list`, `count`, `nxt`, `prv` are the circular list of threads suspended on
the holder of a port; `previous` is `nx_tcp_socket_bound_previous`, in which bind
saves that holder. Time-outs have the code's two stages: the timer thread
(`TimerExpire`) only marks the thread `_nx_tcp_cleanup_deferred` and raises an
event; the IP thread (`CheckStart` .. `CheckEnd`) walks sockets and waiters.
`MutexWait` is the ThreadX mutex, which reuses the link the walk follows. Two history
variables mark what the code then does wrong: `stale`, that a cleanup used a `previous`
that no longer holds the port (behaviours end there), and `lost`, that the check has
followed the link of a thread that waits for the mutex.

**`NetxTcpConnection`** Two sockets. `net` is the set of all segments ever sent:
any may arrive, more than once, in any order, or never. One action per service
and per handler; what a service does outside the mutex (accept's first test,
accept's failure path, disconnect after it was resumed) is an action of its own.
A received segment goes through `_nx_tcp_packet_process`,
`_nx_tcp_socket_packet_process` (window, RST, SYN), the ACK check, the data check
for a FIN, and the handler of the state; the whole chain is one action, for the
IP thread holds the mutex. Initial sequence numbers are random for the first
connection and then advance by at least 0x10000, which `IsnStep` stands for.

**`NetxTcpListen`, `NetxSynBacklog`** The queue of SYN packets at each port is the
code's: head, tail, count, and a link in each packet; `released` packets are the
pool's at once. A server socket goes through listen, SYN, accept, its end,
unaccept and relisten; what a connection does in between is
`NetxTcpConnection`'s, here it is established, closed or reset. `AcceptReturns` is
accept's own write after its wait, without the mutex. `NetxSynBacklog` is a
bounded sequence of sources; `BacklogOf` maps the linked queue to it.

**`NetxTcpReceive`** The receiving half, a record `rcv` with the fields of
`NX_TCP_SOCKET`, and operators from socket to socket that are composed as the
functions call each other: `Process` is the window test, `DataCheck` (trimming,
insertion, `READY` marks, hand-over to waiting threads, acknowledgment) and the
FIN. The receive queue keeps the packets, not the bytes, as the code does, so
overlaps are cut the way the code cuts them. The peer is anybody who stays within
the window it was told, or probes one byte beyond.

**`NetxTcpTransfer`, `NetxByteStream`** A NetX sender against that receiver. A call
of `nx_tcp_socket_send` has the steps its mutex gives it: `Prepare` (room, copy or
header), `Number` (the sequence number, read without the mutex), `Commit` (look
again, queue, send). Acknowledgments, the probe, the timer with its retries,
refused and timed-out calls, the FIN behind the data and the reset at the retry
limit are actions; the congestion window is any of `Congestion` wherever it is
read, and a fast retransmission may come with any duplicate acknowledgment.
`Ordered` chooses the network: first-in first-out with up to `Faults` losses and
timers longer than a round trip, or a set of messages that arrive at any time, in
any order, repeatedly. `NetxByteStream` is what applications are promised.

**`NetxUdpReceive`** `Bind`, `UnbindTable` and the rest of unbind run under the
mutex, receive and the time-out under `TX_DISABLE` only. Datagrams come from the IP
thread (`IpReceive`), an interrupt handler (`IsrReceive`, which also moves the table
entry to the socket it found) or a driver's thread (`DriverFind` ..
`DriverDeliver`, which gives the mutex up in between; `DriverThread`).
`PreemptUnbind` lets a resumed receiver run between two turns of unbind's walk.

**`NetxUdpBind`** Waiting for a port. `BindCleanup` is called by the timer thread
itself, also while unbind holds the mutex between `UnbindTable` and `HandOver`.
`GiveUp` says whether waits may expire.

**`NetxArpCache`** Sequences for the circular lists. `PeriodStart`, `PeriodAge`,
`PeriodAsk`, `PeriodGiveUp` are the turns of `_nx_arp_periodic_update`, which
go by `nx_ip_arp_dynamic_active_count` while they change it. `Kept` is what a list has
left when some of its entries are unlinked.

**`NetxIpFragment`** `FragmentPacket` cuts a datagram; `Receive` puts a fragment into
the queue, under `TX_DISABLE`, from an interrupt handler or the IP thread; `Take`,
`AssembleOne` and `Second` are the IP thread's, with the mutex. `AssembleOne` is a turn
of the loop of `_nx_ip_fragment_assembly`: a new chain behind the tail, or an
insertion by offset into the chain of the datagram, where a fragment with an equal
offset is replaced, and the dispatch of a datagram that became whole. `Disable` empties
the queues with the mutex and `Leave` releases what was in them without it. `tail` is
kept as the pointer it is, for everything that takes a chain out has to move it.
Which packet the pool gives makes no difference, so it is chosen. The network, which
repeats, loses and reorders, and `Router`, which cuts a fragment again, are external.

**`NetxDhcp`** Clients with one interface each, and the server of their link. A record
of the server is overwritten by each message of its client, as in the code: options
that are absent leave the last ones. `MarkAvailable`, `Assign` and `Finish` are shared
by all messages, as their functions are. Only leases are counted in time (`Tick`, for
clients and server alike); retransmissions and sessions may time out whenever their
timers run. Messages between one client and the server keep their order and may be
lost; a client's first DISCOVER waits until its earlier messages are gone, for the
transaction id, which never changes (`nxd_dhcp_client.c:3381`), would not tell them
apart (section 5).

**`NetxWifiOffload`** The table `nx_driver_sockets`, the offload branches of the
services and one action per turn of the driver thread over a slot, each of which holds
the mutex. accept does not: it tests the state before (`Accept`), waits with the mutex
(`AcceptSuspends`), has its wait ended by a time-out or a disconnect (`AcceptEnds`,
`Closes`), and writes LISTEN once more without it (`AcceptReturns`); the driver thread and
the services come between any two of these. `struck` is a history variable: one of
those writes met a socket that had gone on. `AcceptWaits` says whether accept may be
given a time to wait. The module (`link`, `server`, `pending`) is external.

**The suites** `MCNetxSockets`, `MCNetxHost`, `MCNetxTransfer` hold several small
instances each. `part` is chosen in Init and never changes; modules that name the
same variable share it, and the variables a part does not use are `None`. Since
parts share no state, one part behaves as it would alone, and one run, with one
set of properties, checks them all. A property is about the parts it names.
`MCNetxTcpReopen` does the same for two instances of `NetxTcpConnection`.

## 4. What is checked

`MC*.tla` only define sets, numbers, symmetry, views and the suites. "violation"
runs each check one sentence the repository says of itself, and find that the
code does otherwise.

| run | instance | states | shows |
|---|---|---|---|
| `pool` | 3 threads, interrupt handler, 2 packets, 1 refused release; symmetry | 8,704 | `PacketsAccounted`, `NoWaitBesideFree`, `WaitersConsistent`, `ServedInOrder`, `ImplementsOwnership` (refinement) |
| `txqueue` | 4 packets, 2 writers, queue of 2 | 133,891 | `TypeOK` (with the bound of the queue), `HandshakeTrue`, `LastUserFrees` (refinement), `RemovedIsFreed` (liveness) |
| `ack_race` | 3 packets, 2 writers, queue of 1 | | violates "the driver has not released the packet" |
| `bind` | 3 sockets, 1 port, 2 waiters | 330,648 | `ResultTellsTable`, `WaitersListed`, `NoTimeoutMissed`, `PortHandedOver` (action), `ExpiredWaitEnds` (liveness) |
| `connection` | client and server, 1 retry, 2 openings | 517,317 | `SleeperHasConnection` (with `TypeOK`), `AnswerOrGiveUp` (liveness) |
| `reopen` | client and server with 3 openings; two clients with 2 | 755,959 | `SameConnection`, `NoStrayReset`, `OrderlyClose` |
| `sockets` | seven parts, see `MCNetxSockets.tla`; symmetry | 352,549 | `DatagramsAccounted`, `UdpResultTellsTable`, `UdpPortDecides` (action), `ClientsAccounted`, `ArpConsistent`, `ImplementsBacklog` (refinement) |
| `host` | eleven parts, see `MCNetxHost.tla` | 214,117 | `OffloadConsistent`, `AddressesOwned`, `DeleteWakesAll` (action), `PeersServed`, `WalksEnd`, `ArpWaitingEnds`, `ClientBinds` (liveness) |
| `transfer` | four parts of TCP data, three of fragments, see `MCNetxTransfer.tla` | 193,008 | `QueuesHoldStream`, `WindowKept` (action), `ImplementsStream` (refinement), `AllArrives` (liveness); `FragmentsAccounted`, `FragmentsEnd` (liveness) |
| `arp_delete` | 2 entries, 2 addresses | | violates "loop through the active ARP entries" |
| `send_race` | 2 writers of one byte each | | violates "just resume the loop" |
| `fin_unacked` | 1 writer, window of 1, 1 loss | | violates "if advertised window isn't zero, reset zero window probe flag" |

The type invariants of the modules in a suite are conjuncts of its safety
properties. Every property of a passing run has a mutant, a plausible mistake written next to
the definition it replaces ("Mistake: ..."), that TLC shows to break it.

### Findings

* **`ack_race`** `nx_tcp_socket_state_ack_check.c:678-735` marks a packet and
  tests the driver's word with interrupts enabled; the driver may free the packet
  in between, after which the walk reads its header and rewrites its mark.
  `LastUserFrees` speaks of who frees, and still holds: the packet is freed once.
* **`arp_delete`** a deleted dynamic entry keeps its place before active ones while
  the count that the period goes by is lowered: an active entry behind it is no
  longer aged, and packets that wait there are neither sent nor released.
* **`send_race`** the loop of `nx_tcp_socket_send_internal.c` begins again with a
  packet that already has a header in front (706-721, 806-812): two writers on one
  socket, and a header enters the stream as data.
* **`fin_unacked`** the mark of a zero window probe outlives the opening of the
  window; ACKs, also that of the FIN, are then compared with a number one too high
  (`nx_tcp_socket_state_ack_check.c:114-117`), and FIN_WAIT_1 does not end.

### Bounds

* `MaxInvalid` caps the counter of refused releases, which nothing reads.
* `MaxWaiting` caps the waiters per port. The `bind` run has 2, with 3 sockets as
  many as there can be: a hand-over with one who still waits, a list of two that is
  walked while its first is resumed, a time-out of either. The UDP parts have 3
  waiters that stay, or 1 that may give up: with 2 the stale owner (section 5) makes
  the properties false.
* `Writers` 2: one that queues while the other stands between its test and its
  queueing, which is how the queue exceeds its maximum by one.
* `ULongMax`, `ULongSize` are the width of a `ULONG`, small so that a wrap below
  zero is visible, and far above every other number.
* `QueueMaximum` 2 with 4 packets: a queue that is beyond its maximum while another
  packet is with the driver or free. In UDP 1 and 2 with 2 and 3 datagrams: an overflow.
* `MaxOpens` caps initial sequence numbers: 3 is a first connection, and two
  more openings while its segments are about; 2 is one opening per end of a
  simultaneous open.
* `MaxRetries` 0 in `reopen` adds no safety behaviour: `net` keeps every segment
  for ever, so a retransmission arrives without being sent again. `connection`,
  whose liveness is about retries, has 1; `transfer` has 2 with 1 loss, and 1
  where the connection is to be given up.
* `Window` 4 and `IsnStep` 10 keep `IsnStep > Window + 2`. In the code the step is
  0x10000 plus a random number (`nxd_tcp_client_socket_connect.c:412-424`) and the
  window, without scaling, at most 65535. That 32-bit sequence numbers wrap is left
  out: the numbers of a run stay within a few windows of each other, where the
  code's signed differences and plain comparison agree.
* `WindowDefault` 1 to 4, streams of 2 to 6 bytes, segments of at most 1 to 4:
  enough for a closed window, a probe, a gap, an overlap on both sides and a
  segment that covers another.
* ARP: 3 entries, 2 or 3 addresses, 1 packet per entry before the oldest goes, one
  retry: reuse of an active entry, a ring of several, a give-up.
* Fragments: 3 packets, 4 arrivals, copies included; 3 datagrams of 2 units, or one of
  3 that may be cut in several ways: a gap, a copy, an overlap, a chain that leaves
  the queue from its middle or its end, an empty pool. `ReassemblyTime` 1 with times
  to live 0 to 2, so that a fragment may prolong a chain.
* DHCP: 2 clients, 1 or 2 addresses, 1 record where messages overlap. `Lease` 8 is
  the least whose renewal and rebinding times differ; `Interval` 1 or 2 units of it
  between two slow periods of the server, `MaxFailures` losses or expired sessions,
  `MaxCalls` calls after the start, `UnderWay` messages in a direction: 2, with a
  session that expires only where there is one record. An application asks for an
  address of the list and for one beside it.
* Offload: 2 slots for 3 TCP sockets (3 for UDP), one client and one server port; where
  accept waits, 2 sockets and 1 slot, which the listener and a client contend for.
* Pool delete: 1 packet. While threads wait it is with somebody, and each release
  hands it on, so an interrupt handler may release it in every turn of the walk.

`reopen` has a `VIEW` that leaves out what is overwritten before it is read: the
expected number of a client that is closed or opening and of a server that has taken
no SYN, the FIN flags of a closed or listening socket, the result of a disconnect that
has returned; the properties only read what the view keeps. `sockets` uses symmetry
of sockets and packets, in which it has no liveness property.

Deadlock is checked for the pool, the transmit queue and the `bind` run. It is
off where a bound ends the run (openings, bytes of a stream), where a pool has
been deleted, and in the suites, which hold such parts.

### Fairness

* transmit queue: the driver completes what it holds, and the IP thread finishes
  a walk it has begun (it holds the mutex and blocks on nothing);
* bind: the IP thread's deferred check is run and finished, and the mutex is
  granted to those that wait for it;
* connection: only the periodic processing of the IP thread. Nothing is assumed of
  the network, of the peer or of users;
* host: the driver thread, which sleeps and loops over all slots, visits every
  slot; the walks of pool delete and unbind, and the ARP period, go on; a DHCP
  client's timers fire (its timer thread runs every second) and both DHCP threads
  read what arrives. Users, peers, losses, time-outs and the end of a lease need not
  happen. Weak fairness is written out, as below;
* fragments: the IP thread handles its events and the timer's, and who disables
  fragmentation goes on to release; one condition for the three, for as arrivals
  are bounded they stop only when nothing is left to do;
* transfer: threads in send and receive go on and readers read, the program
  disconnects when it has sent all, the timers run, what is under way and not lost
  arrives. Losses, drops and expiring waits need not happen. There `WF` is written
  out (`[]<>~enabled \/ []<><<A>>_vars`) with the condition that enables the action,
  because TLC takes very long to find it; the condition is the action's guard and,
  where a step may change nothing, that it does.

`AnswerOrGiveUp` leaves out SYN_RECEIVED and FIN_WAIT_2. FIN_WAIT_2 has no timer,
as in RFC 793. A simultaneous open enters SYN_RECEIVED with its timer cleared
(`nx_tcp_socket_state_syn_sent.c:259`), so there it does not hold; see `hazards`.
`AllArrives` is about fewer losses than retries.

## 5. Behaviour seen while modelling, without a run of its own

Each of these follows from the model with other constants, or from reading; the
runs above are about instances without it, and the README of a run's bound names
it where it matters.

*TCP bind and accept.* After a hand-over the other waiters' saved owner is stale
(`nx_tcp_client_socket_unbind.c:218-224`): a later time-out edits the old owner's
list, and lists and counts are false from then on. The step is in `NetxTcpBind`
(`stale`), and its properties are about the behaviour up to it. The deferred check reads
the link of a thread it has just resumed (`nx_tcp_deferred_cleanup_check.c:117`): if that
thread waits for the mutex by then, the walk goes on among those that wait for the mutex
and may miss an expired waiter (`lost`; without it `NoTimeoutMissed` holds). accept tests the
state before it takes the mutex (`nx_tcp_server_socket_accept.c:92`) and not
again, so a handshake that completes in between leaves it suspended on an
established socket. A disconnect under a thread in accept lowers
`rx_sequence` twice (`nx_tcp_socket_disconnect.c:210-211` and
`nx_tcp_connect_cleanup.c:176-177`): a retried accept answers the client's SYN with a
number that is not that SYN's. accept's failure path writes LISTEN and the timer
again after its wait, without the mutex (199-203): over an unaccept it leaves a
socket in LISTEN without a request. When the application turns down the queued SYN,
relisten returns `NX_SUCCESS` although nothing listens
(`nx_tcp_server_socket_relisten.c:265-278`).

*Packet pool delete.* A release from an interrupt during the walk resumes a thread
that the walk resumes too; the count goes down twice and another thread is never
woken (`nx_packet_pool_delete.c:125`, `150`), against the comment at 122, "resume any and
all threads". One for each packet released, at most: that is what `DeleteWakesAll` says.
A release after the loop's test for the last waiter lets the count wrap below zero; the
walk then has as many turns as a ULONG has values.

*UDP.* From a driver's thread, `_nx_udp_packet_receive` tests only the socket's id
after it gave the mutex up (352): a socket unbound or bound elsewhere gets the
datagram, and 387 makes an unbound socket the table entry (`DriverThread`; the part
"driver" checks that even so none is handed out twice). unbind reads links of
receivers it has resumed (`nx_udp_socket_unbind.c:336-339`): one that suspends again,
or a time-out in between, leaves a receiver on an unbound socket (`PreemptUnbind`).
`_nx_udp_bind_cleanup` uses a stale owner too (108-127): with two waiters and a
hand-over it edits the wrong list, and the port goes to a thread whose bind has
failed. A packet that the filter takes makes a send through a driver with offload
return with the mutex held (`nxd_udp_socket_send.c:160`, `174`).

*TCP data.* With two writers on one socket: the probe's byte is that of the
first to be blocked, and another's packet may be sent at its number
(`nx_tcp_socket_send_internal.c:1018-1025`), so the byte a receiver took from the
probe is not the stream's; and because room is looked up before the mutex is given
up, the window and the queue's maximum may be exceeded, the latter by a packet for each
writer but one (`TypeOK` of `NetxTcpTransmitQueue`). A send
suspends on a socket that was reset between its test of the state (322-346) and its
wait (1043). An old ACK with window 0 that arrives after everything was
acknowledged and the timer stopped closes the window without a probe
(`nx_tcp_socket_state_ack_check.c:566-574`, `656`). Probes count as retries
(`timeout_retries`), and the probe's time-out is shifted by them without a bound.
The congestion window minus the bytes acknowledged may wrap (513). A FIN is recorded
although the segment was trimmed before it. A segment that is longer than the
window on both sides is refused. `rx_window_last_sent` wraps below zero when a
probe is taken, which `Grown` makes harmless. With a zero window an ACK or RST of
any number is taken (`nx_tcp_socket_packet_process.c:164`). The timer of the SYN+ACK
is not cleared when the connection is established
(`nx_tcp_socket_state_syn_received.c:147`).

*ARP.* After a give-up, which moves the entry, the period visits one entry twice
and another not at all in that round. The allocation of an entry takes the last
dynamic one, active or not, and releases what waits there.

*Fragments.* A datagram counts as whole when each offset is where the fragment before
it ends (`nx_ip_fragment_assembly.c`): fragments that overlap never do, so a datagram
that two routers cut differently expires although every byte arrived. A copy with a
higher time to live prolongs a chain. A driver's thread that tests
`nx_ip_fragment_assembly` just before a disable queues a fragment just after it; it
stays until assembly is enabled again and the next fragment arrives.

*DHCP.* The server ends a lease at the first slow period in which no whole period is
left of it (`nxd_dhcp_server.c:1688-1702`), so up to a period (1000 s by default)
before the client's own lease ends: with as many losses as there are tries to rebind,
two clients use one address. A DISCOVER of a bound client that arrives late puts its
record into SELECTING (3948), and the session timer then gives the address away
(1593-1660). A client that discovers with an address somebody else has is refused
with a NACK (4666-4677), which a client in SELECTING passes over
(`nxd_dhcp_client.c:5421-5463`): it repeats its DISCOVER for ever. The transaction id
is chosen once (3381), so a client that is stopped and started while messages are
under way takes answers to the earlier exchange. A forced renewal starts the remaining
time again (2061), and may go on using the address beyond the lease. Stopping leaves
the address at the interface (4064-4162). A lease that a client took from another
server is kept by this one for ever (`nxd_dhcp_server.c:3592`).

*Wi-Fi offload driver* (`nx_driver_stm32l4.c`). A refused connect or listen leaves
the owner in the slot (1275, 1300; `OpenMayFail`). A UDP bind on a full table is
undone with an unbind that uses an index the bind never set, and frees slot 0
(`nx_udp_socket_bind.c:124`). A slot reused for UDP keeps protocol, local port and
client mark until the first send, and is polled as its last user's (1398-1411). A
listen takes any slot with its local port, a client's too, for a duplicate listen and
starts no server (1215; `ClientPorts`). After the peer closed and before the
disconnect, a relisten gets the slot of the connection (1094, 1218; `Early`). Without
a listen callback the request goes on naming an established socket
(`nx_tcp_socket_driver_establish.c:167`; `ListenCallback`). While an accept is not
ready the driver thread sleeps with the IP mutex (1054). While a thread waits in accept and
its time runs out, or another thread disconnects, the driver thread may establish the
connection before accept writes LISTEN without the mutex
(`nx_tcp_server_socket_accept.c:199`): the socket then listens, with a connection of the
module open under it that no disconnect closes, and an unlisten or another socket's
relisten takes its slot. The same happens when accept found LISTEN before the mutex (92) and
waits on a socket that the driver thread has established meanwhile. `struck` marks the
write; up to it the properties hold, and requests and the count of slots also after it.

## 6. What is proved

The assumptions are those on the constants, and the theorems hold for every
instance that meets them: `PoolAssumption` (finite sets of threads and packets, the
interrupt handler is not a thread, null pointers are not objects),
`OwnerAssumption` (the name of the pool is not that of a caller), `QueueAssumption`
(finitely many packets, at least a writer, a queue that holds at least one),
`BindAssumption` (finitely many sockets, counters wide enough for those that may wait),
`ConnectionAssumption` (two ends, numbers, and
initial sequence numbers that advance by more than a window and 2),
`ListenAssumption` (finitely many ports, numbers, null pointers),
`OffloadAssumption` (a table with a slot, ports that are not zero, TCP and UDP sockets
that are not each other, null pointers), `ReceiveAssumption` (a stream, a window
of at least a byte, and 32-bit numbers, or any more than four windows) and
`ArpAssumption` (finitely many entries, a null pointer, an update rate and a queue
depth that are not zero), and `NetxUdpReceive`'s `ReceiveAssumption` and
`UdpBindAssumption` (finitely many sockets and threads, a null pointer, a queue that
holds a datagram). Where they are not an ASSUME of the model, the theorems state them as
a hypothesis. `SocketsAssumption`, an ASSUME of `MCNetxSockets`, is the conjunction of
its parts' assumptions; the theorems of `NetxSocketsProofs` rest on it alone. So do those of
`NetxHostProofs` on `HostAssumption` of `MCNetxHost`, which says besides that the table
of the part with UDP sockets has a slot for each.

Some proof modules hold the proofs about two models, each in a section of its own: the
second is an instance there (`Listen`, `Wifi`, `Udp`). They share facts that are not about
either: on rings and on sequences whose members are all different.

`NetxPacketPoolProofs`: `IInv` is the conjunction of `TypeOK`, `PacketsAccounted`,
`NoWaitBesideFree`, `WaitersConsistent` and two facts needed to make it inductive:
`ChainsOwned` (what is being released is owned by who releases it, each packet
once) and `GrantsReal` (a thread resumed with success carries a packet marked
`ALLOCATED` that nobody else has). Without the second, `AllocateReturn` could give
out any packet; without the first, a chain could release somebody else's. The
steps are sorted by what they do to packets (take, hand over, give back, neither)
in `StepKinds`, and each part of `IInv` is shown to survive each kind. From
`PoolInvariant` follow `TypeCorrect`, `PacketsStayAccounted`,
`NobodyWaitsBesideFree`, `WaitersStayConsistent`; and `WaitersServedInOrder`, an
action property.

The same module proves the refinement: under `IInv`, initial states map to initial
states and every step to an abstract step or a stutter: `PoolImplementsOwnership`.

`NetxTcpTransmitQueueProofs`: `IInv` is `TypeOK`, `HandshakeTrue` and `CountTrue`
with four facts that make it inductive. `SendsCounted` is about the writers that have
found room and are still to queue: together with the queue they are at most its
maximum and the writers but one, for who finds room finds the queue below its maximum
and at most the other writers on their way; this is the bound in `TypeOK`. `WalkShape` places the IP thread's walk in
relation to the queue: no packet twice, and what an ACK walk visits is off the
queue; without it a mark by the walk could fall on a packet still queued.
`UnqueuedOwned` says that a packet off the queue is in the pool, with the
application, or marked so that the driver's completion releases it; without it
a sent packet could already be with the driver. `TestedOwned` says that the packet
the ACK walk is about to release is nobody else's. What each step does to the set of
queued packets comes first (`SendQueued` .. `WalkEndQueued`), for it is all most
conjuncts need. From `QueueInvariant` follow `QueueTypeCorrect`,
`HandshakeStaysTrue` and `CountStaysTrue` (`CountTrue`, which no run checks, ends the
flush). What the ACK walk does to a packet that
it leaves to the driver (`ack_race`) is allowed by `IInv`: it stores the mark a second
time in a packet that may be free, or the application's, which is harmless to these
properties only because the packet cannot be sent while the walk holds the mutex.

Under the same `IInv` each step is one user of `NetxSharedPacket` taking or dropping
one packet, or a stutter: `LastUserIsReleaser`.

`NetxTcpBindProofs`: any number of sockets, ports and waiters. The waiters of a port are
one ring (`Cyclic`, the same notion as in the proofs about UDP receiving below): the
links lead from a waiter to a waiter and back, and who follows them comes by all. `IInv`
is `TypeOK` with, as long as nothing is `stale`: `WaitsTrue` (who waits is marked as
binding, for a port a socket holds), `TableTrue` (the table holds sockets whose last
bind succeeded, each once), `Listed` (ring, head and count of every socket are those
of its waiters), `CheckConsistent` (the check is at some thread, and the threads that
wait for the mutex are linked with one another) and, unless the check is `lost`,
`Pending`: of those whose time-out was deferred each has an event, or is on a list the
check will still come to, or among those that the rest of its walk reaches (`Reaches`)
although it unlinks threads as it goes. The lemmas `InsertCyclic`, `RemoveCyclic` and those
on `Reaches` are about rings only. Hand-over makes the first waiter the holder and leaves
the ring of the others as it is; that their `previous` is not moved along (section 5)
matters only when a cleanup uses it, so the invariant says nothing of it. From
`BindInvariant` follow `BindTypeCorrect`, `BindResultTrue`, `ListsTrue`, `TimeoutsSeen`
and the action property `PortsHandedOver`. All but the first hold up to a stale
cleanup: after it they are false of the code, so no stronger theorem exists.

`NetxTcpConnectionProofs`: two sockets, each client or server, a network that keeps
every segment ever sent, any number of connections after each other. The difficulty is
what an old segment may still do, so half of `IInv` is about segments. Of the sockets
it says where each is entered and what its timer and thread wait for (`PlaceFits`,
`ThreadFits`); that what it expects next is at most what the other will send next
(`ExpectsAtMost`); that one that expects what comes behind the other's FIN has taken
the FIN (`ExpectsBehindFin`), and one that saw its own FIN acknowledged sent one that
was taken (`FinAckTrue`); and that an established socket that expects what the other sends
next is itself expected by the other, once that one has taken a SYN (`Joined`). Of a
segment it says that its number is at most what its sender sends next, a SYN's, a FIN's
or the reset of an opening socket below it, and that it acknowledges at most what was
sent (`NumberOld`); that while its sender opens a connection, a segment with the newest
number acknowledges what the sender expects; and that a FIN was taken if everything
behind it is acknowledged (`AckTrue`). The argument: a new
initial number lies beyond the old ones by more than a window, so a segment of an
earlier connection never has the number that is expected, nor acknowledges a SYN just
sent; in SYN_RECEIVED and ESTABLISHED whatever has the number that is expected also
acknowledges this connection's SYN; a RST carries a number its receiver is past. There
is one lemma for each action (`ConnectKeeps` .. `StutterKeeps`), and under it one step for
each part. From `ConnectionInvariant` follow `ConnectionSleepers`, `ConnectionOfBoth`,
`ConnectionUndisturbed` and `ConnectionClosedOrderly`.

`NetxPortsProofs`, about `NetxUdpReceive`: any number of sockets, ports, threads and
packets, any length of the receive queue. Two rings are walked: that of the bound
sockets, by the search for a datagram's port, and that of a socket's waiters, by the
time-out and by unbind. A ring is known by what can be reached in it: `Cyclic` says that
the links lead from a member to a member and back, and that a set of members closed
under them is empty or all of it; `Reaches` is what is left of that when unbind has
taken some off. So a walk needs no count of its steps, and the lemmas on putting in and
taking out (`InsertCyclic`, `RemoveCyclic`, `ReachesOn`) are not about UDP. `IInv` says
that packets are at one place each (`Apart`, `Accounted`), that the table's ring is the
bound sockets (`TableLinked`), that a socket's ring is the threads that wait on it and
nobody waits beside a queued datagram (`WaitersLinked`), what unbind has left to do
(`UnbindGoesOn`: who has been resumed, who is still to be, and that the count it goes by is
the number of those), that the count is true, that an unbound socket has nothing left,
and that what is queued was sent to the socket's port (`ForPort`), without which a thread
could be given another port's datagram later. From `UdpInvariant` follow
`DatagramsInOneHand`, `NobodyWaits`, `UdpCountTrue`, `UdpTableTrue`, `UnboundLeftEmpty`,
and the action property `ThreadsGetTheirOwn`. The hypothesis `Calm` leaves out a driver's
thread and a resumed waiter or a time-out that runs before unbind is over; with either the
properties are false (section 5). `DatagramsOnce`, that no packet is at two places, needs
neither: it rests on `Apart` alone.

`NetxPortsProofs`, about `NetxTcpListen`: any number of ports, clients, sockets and packets, any length
of the queue. The model finds a queue as the code does, by walking links from the head
(`At`, a recursive function), so facts about it need induction over places. `Induction`
is proved from the least element of a set of numbers; with it `ChainExists` and
`ChainIs` give `QueueFacts` (each place is linked from the one before) and `NextQueueIs`
(to know a queue after a step, exhibit its places). Each action then changes the queues
in one of four ways: `Removed` (a RST, relisten), `Put`, `Shifted` (the oldest gives way)
or `Emptied`; for each there is a lemma that says which packet is at which place
afterwards (`RemovedPlaces` ..), and one that the parts of the invariant about queues
survive (`RemovedKeeps` ..): `QueueShape`, `QueuesApart`, `PoolRest` and `OnePlaceEach`.
The other parts are about requests and sockets: `Requests` (a request that has a socket
has no queue), `OneSocketEach`, `NotBoth` (no bound socket's peer waits in its queue),
`AcceptWaits` and, unless accept's last write comes late, `Served`. From `ListenInvariant`
follow `SynsStayAccounted`, `NobodyWaitsBesideIdle`, `OnePlacePerSource` and
`ListenersStayServed` (hypothesis `~ LateAccept`: with that write late the property is
false, section 5). Under the same invariant each step is a step of `NetxSynBacklog` or a
stutter: `ListenImplementsBacklog`.

`NetxPortsProofs`, about `NetxPoolDelete`: any number of threads and packets, and an
interrupt handler that releases packets between any two steps of the walk. Before the
delete the list is a ring of the threads that wait, and the count is their number
(`PoolLinked`). During the walk the ring is gone, for the walk does not unlink whom it
resumes. Two things hold at each of its steps. Until a packet is released, the threads
left are reached from where it stands, and the count is their number, or one more
between resuming and counting (`DeleteGoesOn`). And always, the threads still suspended
are at most those that the turns left can resume, with the packets released
(`TurnsReleased`, `TurnsTaken`): a release takes one turn away and adds one to
`released`, a turn of the walk resumes one thread at most. So when the count is 0,
no more are suspended than packets were released: `PoolDeleteWakesAll`, with the
action property that who is resumed was told, if none was.

`NetxTcpTransmitQueueProofs`, about `NetxWifiOffload`: any number of sockets and ports, any size of the table. The
invariant goes around the table: a slot names its owner (`ServerSlots`, `Owners`), a
socket remembers its slot (`Listeners`, `Connections`, `UdpUsers`), a request has one
slot (`OneSlotEach`, `RequestServed`) and a connection of the module has a user
(`Links`). What makes it hold is that a free slot, which keeps protocol and mark
of its last user, has no server's port (`FreeSlots`): the handler finds slots by port
and protocol, and would otherwise give a listen the slot of somebody else.
`RefusedKeeps` and `TakenKeeps` say once what a refused service, and one that gets
a slot, do; `RoomForUdp` counts: of a full table's slots, those with a server's port
inject into the ports and the others into the owners, so a UDP socket that is yet to
bind finds one free. From `OffloadInvariant` follow `SocketsOwnSlots`,
`LinksMatchStates`, `ListenersHaveServers`, `CloseWaitIsTrue`, and, if the module
refuses nothing, `NoSlotIsLost`. A write of LISTEN by accept over a socket that has gone
on (`struck`) ends what these say of sockets and connections; what goes on is that
requests name sockets that listen (`RequestsListen`) and, without UDP sockets, that no
slot is lost, which has an invariant of its own about the table and the requests alone
(`TableHeld`). `OnlyWaitsStrike` says that such a write needs an accept that was given a
time to wait. The hypotheses (`Plain`, `Room`) leave out what section 5
describes: without a listen callback, with a service called before the disconnect, or
with a client on a server's port the properties are false, and a full table lets a
UDP bind free another socket's slot. `host` checks the conjunction of these properties on
three instances, as `OffloadConsistent`, which `NetxHostProofs` proves.

`NetxTcpConnectionProofs`, about `NetxTcpReceive`: any stream, window and threads, and a peer that sends any
parts of the stream within what it was told, again, overlapping, in any order, with
probes one byte beyond. `IInv` says that there is a number k such that the first k
packets are READY and go without a gap up to `rx_sequence`, and the others begin
behind it (`Split`, `Gap`); that each packet has the bytes of the stream that its
number says and ends before the next begins (`Parts`, `Apart`); that what was given is
the stream up to the first READY byte; that the window lacks just the READY bytes; that
every packet ends within the window, and within what the peer was told but for a
probe's byte; that a FIN noted is the end of the stream; and that who waits has nothing
READY before it. The part that a handler may break between its steps (`Settled`) is
apart from the part that holds in the middle too (`Holds`), so that each stage has a
lemma of its own: `TrimIs`, `InsertKeeps`, `AppendKeeps`, `AdvanceKeeps`,
`HandOverKeeps`, `AckKeeps`, `DataCheckKeeps`, `EstablishedKeeps`, and `TakeKeeps` for a
receive call. Two things make it work. That an insertion keeps `Parts` and `Apart`
rests on the cuts being cuts of the same stream. And the window that the
peer was not told of is a difference of unsigned numbers, of which the second goes
below zero when a probe is taken: that the difference stays right while both shrink is
`WindowMoves`, that it never exceeds the window by more than the probe's byte follows
from what the peer was told when it sent what is queued.
The bytes of the queue are found by joining its packets, so `BytesAre` is an induction
over places, with `Induction` as in the proofs about listening. From `ReceiveInvariant` follow
`ReceiveTyped`, `QueueStaysInOrder`, `NoByteLost`, `WindowIsTheRoom`,
`NobodyWaitsBesideReady`, the action property `EdgeNeverGoesBack`, and
`ReceiveGivesStream`: every step is a step of `NetxByteStream` or a stutter. `transfer`
checks them on one instance, in `QueuesHoldStream`, `WindowKept` and
`ImplementsStream`, and there also against a NetX sender instead of any peer, which is
not proved.

`NetxArpCacheProofs`: any number of entries, addresses and packets, any rates and any
of the services. What an operation does to a list is stated once, as the set of its
entries and which stands before which (`KeptIs`, `AppendedIs`, `FrontAndLast`,
`RotatedIs`); `Kept` is a recursive function, so the first of these is an induction
over places. Then an action matters in what it fills into its one entry (`OneRecord`)
and in what it moves behind that entry (`OneMoved`). `IInv` says that the lists and the
ring agree (`Lists`), that the count is that of the active dynamic entries (`Counted`),
that an active static entry has its address and an active dynamic one an interface and,
without an address, a running timer (`Fields`), that no address has two entries
(`OneEntryEach`), where packets wait (`WaitsWhereAnswered`), and two things about
places that make the walks right although they go by a count and not by the entries:
no active entry stands behind one that lost its interface with its timer running
(`LostBehind`), and the period stands at one of the first entries, as many as it has
passed (`WalkWithin`). The count gives the rest: if the period stood at an entry without
an interface, all active dynamic entries would stand before it, so there would be fewer
than are counted (`AheadIs`, `InvAsks`); by the same count an invalidation comes past
every active one (`InvalidateKeeps`). From `ArpInvariant` follow `ArpTyped`, `CountIsTrue`,
`PacketsWaitWhereAnswered` and `PeriodAsksThroughInterface`. `sockets` checks their
conjunction, as `ArpConsistent`.

`NetxArpCacheProofs`, about `NetxUdpBind`: any number of sockets and ports. `BindInv`
says that the table holds who bound (`PortsTrue`), who may wait and for what
(`WaitersTrue`), what an unbind under way has left to do (`UnbindTrue`), and `Lined`: that
behind the holder of each port its waiters form a line, a sequence of different sockets
linked in a ring from the list's head. The order in the line is the order of arrival, so an
action is known by what it does to one line, nothing, one more at the end, or the first
goes (`Follows`, `LinesGoOn`). `WaitersListed` finds the waiters by walking from the
head, and `OvertakesNobody` compares places found that way; `WalkIs` and `WalkLine` say that
the walk is the line. From `UdpBindInvariant` follow `UdpResultsTrue`, `UdpBindingWaits`,
`UdpWaitersListed` and the action property `UdpPortsHandedOver`. The hypothesis `FewWait`:
if waits may end early (`GiveUp`), at most one thread waits for a port. With two the
stale owner of section 5 makes the properties false; without `GiveUp` any number may wait.

`NetxSocketsProofs`: the properties of `MCNetxSockets` itself, for any sockets, ports,
clients, threads and datagrams that `SocketsAssumption` admits. The module chooses one
of seven parts at the start and has one variable where several parts name one; so the
theorems of the other modules do not apply as they stand, for no part's `Spec` follows from
that of `MCNetxSockets`. What applies are their lemmas about one step: each part's
initial states have its invariant, and each step keeps it (`InitParts`, `StepsOfParts`,
`PartsKeep`). Their modules are instantiated with the parts' constants, and the lemmas
named Same say that a definition of the instance is that of the part. From
`PartsInvariant` follow `DatagramsStayAccounted`, `UdpPortsDecide`, `UdpResultsTellTable`,
`ClientsStayAccounted`, `ArpStaysConsistent` and `BacklogIsImplemented`, which are all the
properties of the run `sockets`. The parts' other constants are those of the run (a queue
of one datagram, two SYNs); for any values of them the theorems of the modules above
speak.

`NetxHostProofs`: in the same way, properties of `MCNetxHost` itself, for any sockets,
waiters, datagrams, entries and addresses that `HostAssumption` admits. `PartsInvariant` has an
invariant for each part that `OffloadConsistent` speaks of. That invariant is a conjunction of what each part
promises, so it needs more of the parts than their types: the driver's come from
`InvOwnsSlot`, `InvLinked`, `InvServed`, `InvAccounted` and `InvCloseWait`, for the parts with TCP
sockets, where accept waits in one, and the one with UDP sockets (`OffloadStaysConsistent`).
`DeleteWakesAllOfThem` is about the part that deletes a pool. Of the part with DHCP nothing is said.

Only model-checked: liveness (`RemovedIsFreed`, `ExpiredWaitEnds`,
`AnswerOrGiveUp`, `PeersServed`, `WalksEnd`, `ArpWaitingEnds`, `AllArrives`,
`FragmentsEnd`, `ClientBinds`), which is out of the prover's reach together with
ENABLED; everything about `NetxTcpTransfer` (the sender's queue and window, and the
stream from one NetX socket to another); `NetxIpFragment`, whose chains are built with
`SelectSeq`, which the prover cannot expand; and `NetxDhcp`, whose `AddressesOwned`
depends on how many losses and expired sessions fit into a lease, that is on the values
of `Interval` and `MaxFailures`.

## 7. What is not modelled

`PROJECT.json` lists every component with the reason. Of the repository's 308
thousand lines, most are vendored (the Azure SDK), arithmetic on large integers
(`nx_crypto`), parsing and building of records, certificates, options and messages
(TLS, X.509, the protocol clients), IPv6, which the shipped port disables, or
comments and error-checking wrappers around the services modelled here; none of
that has a state space that a model checker tells more about than a test. The
other protocol clients (DNS, SNTP, MQTT, Azure) and the TLS handshake do have state
machines; they sit above the sockets modelled here, each with one thread of its
own, and were left for after them.

In the parts that are modelled: callbacks to the application (connect, disconnect,
receive notify) are not taken, because a callback that calls a service is, in these
models, that service called later; checksums, options, RTT estimates, statistics
and trace are left out; the event flags of the IP thread appear as the actions
they trigger, except in `NetxTcpBind`, where losing one is the hazard.
