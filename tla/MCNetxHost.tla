----------------------------- MODULE MCNetxHost -----------------------------
(***************************************************************************)
(* The parts of the stack that promise something will happen, each on a    *)
(* small instance and under the fairness its scheduling gives: the Wi-Fi   *)
(* module's TCP and UDP sockets, the walks of pool delete and UDP unbind,  *)
(* the ARP cache, and DHCP: leases that are renewed or lost, a client that *)
(* stops while the server counts, one that asks for addresses, and         *)
(* messages that overlap at a server with one record.  As in               *)
(* MCNetxSockets, the part that runs is chosen at the start; a fair action *)
(* is the action in the part it belongs to.                                *)
(***************************************************************************)
EXTENDS Integers, FiniteSets, Sequences, TLC

CONSTANTS
  None,
  Two, Three,        \* sockets, ARP entries and addresses
  Datagrams,         \* packets
  Threads

VARIABLES
  part, port, list, count, nxt, prv, cleanup, tstate,
  slot, context, state, bound, request, accept, struck, link, server, pending,
  valid, available, used, status, step, walk, released,
  created, table, bnext, bprev, queue, waiting, on, got, free, for, unbinder, driver,
  dynamic, static, ring, entry,
  client, record, owner, lease, phase, toServer, toClient, failures, calls

One == {CHOOSE k \in Two : TRUE}

Offload == INSTANCE NetxWifiOffload WITH
  Tcp <- Three, Udp <- {}, SlotCount <- 2, ClientPorts <- {1}, ServerPorts <- {3},
  ListenCallback <- TRUE, OpenMayFail <- FALSE, Early <- {}, AcceptWaits <- FALSE
OffloadWaits == INSTANCE NetxWifiOffload WITH
  Tcp <- Two, Udp <- {}, SlotCount <- 1, ClientPorts <- {1}, ServerPorts <- {3},
  ListenCallback <- TRUE, OpenMayFail <- FALSE, Early <- {}, AcceptWaits <- TRUE
OffloadUdp == INSTANCE NetxWifiOffload WITH
  Tcp <- {}, Udp <- Three, SlotCount <- 3, ClientPorts <- {1, 2}, ServerPorts <- {},
  ListenCallback <- TRUE, OpenMayFail <- FALSE, Early <- {}, AcceptWaits <- FALSE
PoolDelete == INSTANCE NetxPoolDelete WITH
  Total <- 1, ULongMax <- 7
Unbind == INSTANCE NetxUdpReceive WITH
  Sockets <- One, Ports <- One, Threads <- Two, Packets <- Datagrams, QueueMaximum <- 2,
  DriverThread <- FALSE, PreemptUnbind <- FALSE
Arp == INSTANCE NetxArpCache WITH
  Entries <- Three, Addresses <- Two, Packets <- One, UpdateRate <- 1, ExpirationRate <- 1,
  MaxRetries <- 1, MaxQueue <- 1, Services <- {"set", "static", "static delete", "invalidate"}
ArpForEver == INSTANCE NetxArpCache WITH
  Entries <- Three, Addresses <- Three, Packets <- One, UpdateRate <- 1, ExpirationRate <- 0,
  MaxRetries <- 1, MaxQueue <- 1, Services <- {"invalidate"}
Leases == INSTANCE NetxDhcp WITH
  Clients <- Two, Callers <- {}, Addresses <- {1}, Asked <- {}, TableSize <- 2,
  Lease <- 8, MinRenew <- 1, Interval <- 1, UnderWay <- 1, MaxFailures <- 4, MaxCalls <- 0
Stops == INSTANCE NetxDhcp WITH
  Clients <- Two, Callers <- One, Addresses <- {1}, Asked <- {}, TableSize <- 2,
  Lease <- 8, MinRenew <- 1, Interval <- 2, UnderWay <- 1, MaxFailures <- 1, MaxCalls <- 1
Asks == INSTANCE NetxDhcp WITH
  Clients <- Two, Callers <- One, Addresses <- {1, 2}, Asked <- {1, 3}, TableSize <- 2,
  Lease <- None, MinRenew <- 1, Interval <- 1, UnderWay <- 1, MaxFailures <- 0, MaxCalls <- 1
Overlaps == INSTANCE NetxDhcp WITH
  Clients <- Two, Callers <- One, Addresses <- {1, 2}, Asked <- {}, TableSize <- 1,
  Lease <- None, MinRenew <- 1, Interval <- 1, UnderWay <- 2, MaxFailures <- 1, MaxCalls <- 1

ASSUME HostAssumption ==
  /\ Offload!OffloadAssumption /\ OffloadWaits!OffloadAssumption
  /\ OffloadUdp!OffloadAssumption
  /\ PoolDelete!DeleteAssumption /\ Unbind!ReceiveAssumption
  /\ Arp!ArpAssumption /\ ArpForEver!ArpAssumption
  /\ Leases!DhcpAssumption /\ Stops!DhcpAssumption
  /\ Asks!DhcpAssumption /\ Overlaps!DhcpAssumption
  /\ Cardinality(Three) <= 3

(* The variables of each module, and those it shares.                       *)
onlyOffload == <<slot, context, state, bound, request, accept, struck, link, server,
                 pending>>
onlyDelete == <<valid, available, used, status, step, released>>
onlyUdp == <<created, table, bnext, bprev, queue, waiting, on, got, free, for,
             unbinder, driver>>
onlyArp == <<dynamic, static, ring, entry>>
onlyDhcp == <<client, record, owner, lease, phase, toServer, toClient, failures, calls>>
threads == <<list, nxt, prv, cleanup, tstate>>
vars == <<part, port, count, walk, threads,
          onlyOffload, onlyDelete, onlyUdp, onlyArp, onlyDhcp>>

besideOffload == <<count, walk, threads, onlyDelete, onlyUdp, onlyArp, onlyDhcp>>
besideDelete == <<port, onlyOffload, onlyUdp, onlyArp, onlyDhcp>>
besideUdp == <<walk, onlyOffload, onlyDelete, onlyArp, onlyDhcp>>
besideArp == <<port, threads, onlyOffload, onlyDelete, onlyUdp, onlyDhcp>>
besideDhcp == <<port, count, walk, threads, onlyOffload, onlyDelete, onlyUdp, onlyArp>>

NoOffload ==
  /\ slot = None /\ context = None /\ state = None /\ bound = None /\ request = None
  /\ accept = None /\ struck = None /\ link = None /\ server = None /\ pending = None
NoDelete ==
  /\ valid = None /\ available = None /\ used = None
  /\ status = None /\ step = None /\ released = None
NoUdp ==
  /\ created = None /\ table = None /\ bnext = None /\ bprev = None /\ queue = None
  /\ waiting = None /\ on = None /\ got = None /\ free = None /\ for = None
  /\ unbinder = None /\ driver = None
NoArp == dynamic = None /\ static = None /\ ring = None /\ entry = None
NoDhcp ==
  /\ client = None /\ record = None /\ owner = None /\ lease = None /\ phase = None
  /\ toServer = None /\ toClient = None /\ failures = None /\ calls = None
NoThreads == list = None /\ nxt = None /\ prv = None /\ cleanup = None /\ tstate = None

Init ==
  \/ /\ \/ part = "offload" /\ Offload!Init
        \/ part = "offload waits" /\ OffloadWaits!Init
        \/ part = "offload udp" /\ OffloadUdp!Init
     /\ count = None /\ walk = None /\ NoThreads /\ NoDelete /\ NoUdp /\ NoArp /\ NoDhcp
  \/ /\ part = "delete" /\ PoolDelete!Init
     /\ port = None /\ NoOffload /\ NoUdp /\ NoArp /\ NoDhcp
  \/ /\ part = "unbind" /\ Unbind!Init
     /\ walk = None /\ NoOffload /\ NoDelete /\ NoArp /\ NoDhcp
  \/ /\ \/ part = "arp" /\ Arp!Init
        \/ part = "arp for ever" /\ ArpForEver!Init
     /\ port = None /\ NoThreads /\ NoOffload /\ NoDelete /\ NoUdp /\ NoDhcp
  \/ /\ \/ part = "leases" /\ Leases!Init
        \/ part = "stops" /\ Stops!Init
        \/ part = "asks" /\ Asks!Init
        \/ part = "overlaps" /\ Overlaps!Init
     /\ port = None /\ count = None /\ walk = None
     /\ NoThreads /\ NoOffload /\ NoDelete /\ NoUdp /\ NoArp

Next ==
  /\ UNCHANGED part
  /\ \/ part = "offload" /\ Offload!Next /\ UNCHANGED besideOffload
     \/ part = "offload waits" /\ OffloadWaits!Next /\ UNCHANGED besideOffload
     \/ part = "offload udp" /\ OffloadUdp!Next /\ UNCHANGED besideOffload
     \/ part = "delete" /\ PoolDelete!Next /\ UNCHANGED besideDelete
     \/ part = "unbind" /\ Unbind!Next /\ UNCHANGED besideUdp
     \/ part = "arp" /\ Arp!Next /\ UNCHANGED besideArp
     \/ part = "arp for ever" /\ ArpForEver!Next /\ UNCHANGED besideArp
     \/ /\ \/ part = "leases" /\ Leases!Next
           \/ part = "stops" /\ Stops!Next
           \/ part = "asks" /\ Asks!Next
           \/ part = "overlaps" /\ Overlaps!Next
        /\ UNCHANGED besideDhcp

Spec == Init /\ [][Next]_vars

(* The driver thread visits every slot, a walk goes on, the period ends, a  *)
(* client's timers fire and what was sent is read: where one part runs, one *)
(* fair action for all of them is one for each.  FairSpec is weak fairness  *)
(* of them, with what enables each written out.                             *)
Poll(i) ==
  \/ part = "offload" /\ Offload!DriverThread(i)
  \/ part = "offload waits" /\ i = 0 /\ OffloadWaits!DriverThread(i)
MayPoll(i) ==
  \/ part = "offload" /\ (Offload!MayEstablish(i) \/ Offload!MayReceiveClosed(i))
  \/ /\ part = "offload waits" /\ i = 0
     /\ OffloadWaits!MayEstablish(i) \/ OffloadWaits!MayReceiveClosed(i)
Walk ==
  \/ part = "delete" /\ PoolDelete!Delete
  \/ part = "unbind" /\ Unbind!Unbind
  \/ part = "arp" /\ Arp!PeriodicUpdate
  \/ part = "arp for ever" /\ ArpForEver!PeriodicUpdate
MayWalk ==
  \/ part = "delete" /\ step \notin {"none", "done", "fault"}
  \/ part = "unbind" /\ ~ Unbind!MutexFree
  \/ part \in {"arp", "arp for ever"} /\ (Arp!MutexFree => count > 0)
Sends(c) ==
  \/ part = "leases" /\ Leases!GoesOn(c)
  \/ part = "stops" /\ Stops!GoesOn(c)
  \/ part = "asks" /\ Asks!GoesOn(c)
  \/ part = "overlaps" /\ Overlaps!GoesOn(c)
InDhcp == part \in {"leases", "stops", "asks", "overlaps"}
MaySend(c) == InDhcp /\ Leases!CanGoOn(c)

FairSpec ==
  /\ Spec
  /\ \/ []<>~ (MayPoll(0) \/ MayWalk \/ \E c \in One : MaySend(c))
     \/ []<><<Poll(0) \/ Walk \/ \E c \in One : Sends(c)>>_vars
  /\ \/ []<>~ (MayPoll(1) \/ \E c \in Two \ One : MaySend(c))
     \/ []<><<Poll(1) \/ \E c \in Two \ One : Sends(c)>>_vars
-----------------------------------------------------------------------------
(* The driver's table, the module and the host's sockets agree: a user owns *)
(* its slot, the module has a connection for exactly the connected sockets, *)
(* a listener is served, no slot is lost, and a socket is told that its     *)
(* peer closed only when it did.  The variables of every part have their    *)
(* types.                                                                   *)
OffloadConsistent ==
  /\ part = "offload" =>
       /\ Offload!TypeOK /\ Offload!UserOwnsSlot /\ Offload!LinkTellsState /\ Offload!ListenerServed
       /\ Offload!SlotsAccounted /\ Offload!CloseWaitMeansClosed
  /\ part = "offload waits" =>
       /\ OffloadWaits!TypeOK /\ OffloadWaits!UserOwnsSlot /\ OffloadWaits!LinkTellsState
       /\ OffloadWaits!ListenerServed /\ OffloadWaits!SlotsAccounted
       /\ OffloadWaits!CloseWaitMeansClosed
  /\ part = "offload udp" =>
       OffloadUdp!TypeOK /\ OffloadUdp!UserOwnsSlot /\ OffloadUdp!LinkTellsState
  /\ part = "delete" => PoolDelete!TypeOK
  /\ part = "unbind" => Unbind!TypeOK
  /\ part = "arp" => Arp!TypeOK
  /\ part = "arp for ever" => ArpForEver!TypeOK

(* A client that uses an address has it from the server, which has it down  *)
(* as that client's: no two clients use one, whatever messages, leases and  *)
(* sessions are lost, and whoever asks for it.                              *)
AddressesOwned ==
  /\ part = "leases" => Leases!TypeOK /\ Leases!AddressesOwned
  /\ part = "stops" => Stops!TypeOK /\ Stops!AddressesOwned
  /\ part = "asks" => Asks!TypeOK /\ Asks!AddressesOwned
  /\ part = "overlaps" => Overlaps!TypeOK /\ Overlaps!AddressesOwned

(* What must come to an end.                                                *)
PeerWaits(i) ==
  \/ part = "offload" /\ \E s \in Three : Offload!Awaited(s, i) \/ Offload!Unnoticed(s, i)
  \/ /\ part = "offload waits" /\ i = 0
     /\ \E s \in Two : OffloadWaits!Awaited(s, i) \/ OffloadWaits!Unnoticed(s, i)
Unbinding == part = "unbind" /\ ~ Unbind!MutexFree
WaitsInArp(k) ==
  \/ part = "arp" /\ k \in Arp!Waiting
  \/ part = "arp for ever" /\ k \in ArpForEver!Waiting

(* A peer that waits at a listening socket is accepted, and one that closes *)
(* its connection is noticed, whatever slots are reused in between.         *)
PeersServed == \A i \in {0, 1} : PeerWaits(i) ~> ~ PeerWaits(i)

(* Deleting a pool resumes every waiter but one for each packet an          *)
(* interrupt releases meanwhile; until then the walk is always at a waiter, *)
(* and who is resumed by it is told that the pool was deleted.              *)
DeleteWakesAll ==
  /\ [](part = "delete" => PoolDelete!DeleteWakesAll /\ PoolDelete!WalkCounts)
  /\ [][part = "delete" => \A t \in Threads : PoolDelete!Told(t)]_vars

(* The walks of pool delete and UDP unbind come to their end.               *)
WalksEnd ==
  (step = "loop" ~> step = "done") /\ (Unbinding ~> ~ Unbinding)

(* A packet that waits for a physical address is sent or released.          *)
ArpWaitingEnds ==
  \A k \in One : WaitsInArp(k) ~> ~ WaitsInArp(k)

(* A client that was started gets an address, while the server has one for  *)
(* it that nobody else has.                                                 *)
Unserved(c) ==
  \/ part = "leases" /\ Leases!Unserved(c)
  \/ part = "stops" /\ Stops!Unserved(c)
  \/ part = "asks" /\ Asks!Unserved(c)
  \/ part = "overlaps" /\ Overlaps!Unserved(c)
ClientBinds == \A c \in Two : Unserved(c) ~> ~ Unserved(c)
=============================================================================
