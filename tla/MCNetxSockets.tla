---------------------------- MODULE MCNetxSockets ---------------------------
(***************************************************************************)
(* The parts of the stack that keep sockets' ports and queues, each on a   *)
(* small instance: receiving datagrams, with the IP thread and interrupts, *)
(* and from a driver's thread; UDP ports, with many waiters that stay, and *)
(* with one that may give up; TCP listen requests, with one port and a     *)
(* failed accept's late write, and with two; and the ARP cache under all   *)
(* its services.  The parts share no state, so each behaves beside the     *)
(* others as it does alone: the one that runs is chosen at the start, and  *)
(* a variable that several modules name is that of the part that runs.     *)
(***************************************************************************)
EXTENDS Integers, FiniteSets, Sequences, TLC

CONSTANTS
  None,
  Two, Three, Four,  \* sockets; packets with a SYN are three, too
  Ports, Threads, Sources, Datagrams

VARIABLES
  part, port, bound, list, nxt, prv, cleanup, tstate, count,
  created, table, bnext, bprev, queue, waiting, on, got, free, for, unbinder, driver,
  inProgress, previous, result, unbinding, step,
  active, listener, head, tail, link, source, pool, state, peer, waiter,
  dynamic, static, ring, entry, walk

OneSocket == {CHOOSE s \in Four \ Three : TRUE}
OnePort == {CHOOSE p \in Ports : TRUE}

Udp == INSTANCE NetxUdpReceive WITH
  Sockets <- Two, Packets <- Datagrams, QueueMaximum <- 1,
  DriverThread <- FALSE, PreemptUnbind <- FALSE
Driver == INSTANCE NetxUdpReceive WITH
  Sockets <- OneSocket, Packets <- Datagrams, QueueMaximum <- 1,
  DriverThread <- TRUE, PreemptUnbind <- FALSE
UdpPorts == INSTANCE NetxUdpBind WITH
  Sockets <- Four, Ports <- OnePort, MaxWaiting <- 3, GiveUp <- FALSE
UdpGiveUp == INSTANCE NetxUdpBind WITH Sockets <- Three, MaxWaiting <- 1, GiveUp <- TRUE
Listen == INSTANCE NetxTcpListen WITH
  Sockets <- Two, Ports <- OnePort, Packets <- Three, MaxQueue <- 2, MaxRequests <- 1,
  Declines <- {CHOOSE x \in Sources : TRUE}, LateAccept <- TRUE
ListenPorts == INSTANCE NetxTcpListen WITH
  Sockets <- Two, Packets <- Three, MaxQueue <- 2, MaxRequests <- 2,
  Declines <- {}, LateAccept <- FALSE
Arp == INSTANCE NetxArpCache WITH
  Entries <- Three, Addresses <- Sources, Packets <- Two, UpdateRate <- 1,
  ExpirationRate <- 0, MaxRetries <- 1, MaxQueue <- 1,
  Services <- {"ask", "set", "static", "static delete", "delete", "invalidate"}

ASSUME SocketsAssumption ==
  /\ Udp!ReceiveAssumption /\ Driver!ReceiveAssumption
  /\ Listen!ListenAssumption /\ ListenPorts!ListenAssumption
  /\ UdpPorts!UdpBindAssumption /\ UdpGiveUp!UdpBindAssumption
  /\ Arp!ArpAssumption

(* The variables of each module, and those it shares.                       *)
onlyReceive == <<created, table, bnext, bprev, queue, waiting, on, got, free, for,
                 unbinder, driver>>
onlyPorts == <<inProgress, previous, result, unbinding, step>>
onlyListen == <<active, listener, head, tail, link, source, pool, state, peer, waiter>>
onlyArp == <<dynamic, static, ring, entry, walk>>
threads == <<list, nxt, prv, cleanup, tstate>>
vars == <<part, port, bound, count, threads, onlyReceive, onlyPorts, onlyListen,
          onlyArp>>

NoReceive ==
  /\ created = None /\ table = None /\ bnext = None /\ bprev = None /\ queue = None
  /\ waiting = None /\ on = None /\ got = None /\ free = None /\ for = None
  /\ unbinder = None /\ driver = None
NoPorts ==
  /\ inProgress = None /\ previous = None /\ result = None
  /\ unbinding = None /\ step = None
NoListen ==
  /\ active = None /\ listener = None /\ head = None /\ tail = None /\ link = None
  /\ source = None /\ pool = None /\ state = None /\ peer = None /\ waiter = None
NoArp == dynamic = None /\ static = None /\ ring = None /\ entry = None /\ walk = None
NoThreads == list = None /\ nxt = None /\ prv = None /\ cleanup = None /\ tstate = None

Init ==
  \/ /\ \/ part = "receive" /\ Udp!Init
        \/ part = "driver" /\ Driver!Init
     /\ bound = None /\ NoPorts /\ NoListen /\ NoArp
  \/ /\ \/ part = "ports" /\ UdpPorts!Init
        \/ part = "give up" /\ UdpGiveUp!Init
     /\ count = None /\ NoReceive /\ NoListen /\ NoArp
  \/ /\ \/ part = "listen" /\ Listen!Init
        \/ part = "listen ports" /\ ListenPorts!Init
     /\ NoThreads /\ NoReceive /\ NoPorts /\ NoArp
  \/ /\ part = "arp" /\ Arp!Init
     /\ port = None /\ bound = None /\ NoThreads /\ NoReceive /\ NoPorts /\ NoListen

Next ==
  /\ UNCHANGED part
  /\ \/ /\ \/ part = "receive" /\ Udp!Next
           \/ part = "driver" /\ Driver!Next
        /\ UNCHANGED <<bound, onlyPorts, onlyListen, onlyArp>>
     \/ /\ \/ part = "ports" /\ UdpPorts!Next
           \/ part = "give up" /\ UdpGiveUp!Next
        /\ UNCHANGED <<count, onlyReceive, onlyListen, onlyArp>>
     \/ /\ \/ part = "listen" /\ Listen!Next
           \/ part = "listen ports" /\ ListenPorts!Next
        /\ UNCHANGED <<threads, onlyReceive, onlyPorts, onlyArp>>
     \/ /\ part = "arp" /\ Arp!Next
        /\ UNCHANGED <<port, bound, threads, onlyReceive, onlyPorts, onlyListen>>

Spec == Init /\ [][Next]_vars

Symmetric == Permutations(Two) \cup Permutations(Three)
-----------------------------------------------------------------------------
(* No datagram is lost or in two hands, the count that unbind goes by is    *)
(* the number it will find, nobody waits beside a queued datagram, and a    *)
(* socket that was unbound has neither waiters nor datagrams left and is    *)
(* not found in the port table.  A driver's thread that delivers to a       *)
(* socket that is gone may lose a datagram, but hands none out twice.       *)
(* (With this and the next three, every variable of the part that runs has  *)
(* its type; but the driver's thread can put a datagram on the queue an     *)
(* unbind is emptying, whose count is then beyond what it finds.)           *)
DatagramsAccounted ==
  /\ part = "receive" =>
       /\ Udp!TypeOK /\ Udp!PacketsAccounted /\ Udp!CountTrue /\ Udp!NobodyWaitsBesidePacket
       /\ Udp!UnboundIsEmpty /\ Udp!TableTrue
  /\ part = "driver" => Driver!NeverTwice

(* A thread gets datagrams for the port its socket is bound to; and a port  *)
(* that is given up goes to a thread that waits for it, none of whom is     *)
(* overtaken, however often the port changes hands.                         *)
UdpPortDecides ==
  [][/\ part = "receive" => \A t \in Threads : Udp!GetsOwn(t)
     /\ part = "ports" => UdpPorts!HandedToWaiter /\ UdpPorts!OvertakesNobody]_vars

(* The result of a UDP bind tells whether the socket has the port, a wait   *)
(* that ended left nothing behind, and who still waits is on the list of    *)
(* the socket that holds the port.                                          *)
UdpResultTellsTable ==
  /\ part = "give up" =>
       /\ UdpGiveUp!TypeOK
       /\ UdpGiveUp!ResultTellsTable /\ UdpGiveUp!BindingWaits /\ UdpGiveUp!WaitersListed
  /\ part = "ports" => UdpPorts!TypeOK /\ UdpPorts!ResultTellsTable /\ UdpPorts!WaitersListed

(* A client has one server socket or one place in the queue; a SYN that     *)
(* waits is queued once, and never beside an idle server; and a listen      *)
(* request names exactly the sockets that listen on its port.               *)
ClientsAccounted ==
  /\ part = "listen" =>
       /\ Listen!TypeOK /\ Listen!OneConnectionPerSource /\ Listen!PacketsAccounted
       /\ Listen!NobodyWaitsBesideListener
  /\ part = "listen ports" => ListenPorts!TypeOK /\ ListenPorts!ListenersServed

(* A packet waits for a physical address in one place, where an answer or   *)
(* the end of the retries will find it; the count that the walks over the   *)
(* ARP entries go by is right; and an entry whose interface was taken away  *)
(* is not asked for, though the period visits entries that were deleted.    *)
ArpConsistent ==
  part = "arp" =>
    Arp!TypeOK /\ Arp!CountsActive /\ Arp!WaitsWhereAnswered /\ Arp!AsksThroughInterface

(* The queue of SYNs implements the backlog a listen request promises.      *)
Backlog == INSTANCE NetxSynBacklog WITH
  Ports <- OnePort, MaxQueue <- 2,
  backlog <- IF part = "listen" THEN Listen!Backlogs ELSE [p \in OnePort |-> <<>>]
ImplementsBacklog == Backlog!Spec
=============================================================================
