-------------------------- MODULE NetxSocketsProofs -------------------------
(***************************************************************************)
(* Proofs of what MCNetxSockets checks: the invariants of its parts, which *)
(* the proofs of each component show for any values of its constants, are  *)
(* those of the part that runs, for any sockets, ports, clients, threads   *)
(* and datagrams.                                                          *)
(*                                                                         *)
(* A part and the module its proofs are about are the same module with the *)
(* same parameters: the lemmas named Same say so of the definitions used.  *)
(* NetxPortsProofs has the proofs about datagrams and about listening,     *)
(* NetxArpCacheProofs those about the ARP cache and about UDP ports, so    *)
(* an instance of either gives values to the constants of both.            *)
(***************************************************************************)
EXTENDS MCNetxSockets, TLAPS

Receiving == INSTANCE NetxPortsProofs WITH
  Sockets <- Two, Packets <- Datagrams, QueueMaximum <- 1,
  DriverThread <- FALSE, PreemptUnbind <- FALSE,
  MaxQueue <- 0, MaxRequests <- 0, Declines <- {}, LateAccept <- FALSE,
  Total <- 0, ULongMax <- 0, released <- None,
  valid <- None, available <- None, used <- None, status <- None
Driving == INSTANCE NetxPortsProofs WITH
  Sockets <- OneSocket, Packets <- Datagrams, QueueMaximum <- 1,
  DriverThread <- TRUE, PreemptUnbind <- FALSE,
  MaxQueue <- 0, MaxRequests <- 0, Declines <- {}, LateAccept <- FALSE,
  Total <- 0, ULongMax <- 0, released <- None,
  valid <- None, available <- None, used <- None, status <- None
Listening == INSTANCE NetxPortsProofs WITH
  Sockets <- Two, Ports <- OnePort, Packets <- Three, MaxQueue <- 2, MaxRequests <- 1,
  Declines <- {CHOOSE x \in Sources : TRUE}, LateAccept <- TRUE,
  QueueMaximum <- 1, DriverThread <- FALSE, PreemptUnbind <- FALSE,
  Total <- 0, ULongMax <- 0, released <- None,
  valid <- None, available <- None, used <- None, status <- None
Relistening == INSTANCE NetxPortsProofs WITH
  Sockets <- Two, Packets <- Three, MaxQueue <- 2, MaxRequests <- 2,
  Declines <- {}, LateAccept <- FALSE,
  QueueMaximum <- 1, DriverThread <- FALSE, PreemptUnbind <- FALSE,
  Total <- 0, ULongMax <- 0, released <- None,
  valid <- None, available <- None, used <- None, status <- None
Caching == INSTANCE NetxArpCacheProofs WITH
  Entries <- Three, Addresses <- Sources, Packets <- Two, UpdateRate <- 1,
  ExpirationRate <- 0, MaxRetries <- 1, MaxQueue <- 1,
  Services <- {"ask", "set", "static", "static delete", "delete", "invalidate"},
  Sockets <- Four, Ports <- OnePort, MaxWaiting <- 3, GiveUp <- FALSE
Expiring == INSTANCE NetxArpCacheProofs WITH
  Sockets <- Three, MaxWaiting <- 1, GiveUp <- TRUE,
  Entries <- Three, Addresses <- Sources, Packets <- Two, UpdateRate <- 1,
  ExpirationRate <- 0, MaxRetries <- 1, MaxQueue <- 1, Services <- {}
Promised == INSTANCE NetxSynBacklog WITH
  Ports <- OnePort, MaxQueue <- 2, backlog <- Listen!Backlogs

-----------------------------------------------------------------------------
(* What is used of the part that receives datagrams,                        *)
LEMMA SameReceiving ==
  /\ Udp!ReceiveAssumption <=> Receiving!ReceiveAssumption
  /\ Udp!Init <=> Receiving!Init
  /\ Udp!Next <=> Receiving!Next
  /\ Udp!TypeOK <=> Receiving!TypeOK
  /\ Udp!PacketsAccounted <=> Receiving!PacketsAccounted
  /\ Udp!CountTrue <=> Receiving!CountTrue
  /\ Udp!NobodyWaitsBesidePacket <=> Receiving!NobodyWaitsBesidePacket
  /\ Udp!UnboundIsEmpty <=> Receiving!UnboundIsEmpty
  /\ Udp!TableTrue <=> Receiving!TableTrue
<1>1. Udp!ReceiveAssumption <=> Receiving!ReceiveAssumption
  BY ZenonT(60) DEF
    Udp!ReceiveAssumption, Receiving!ReceiveAssumption, Udp!IsFiniteSet, Receiving!IsFiniteSet
<1>2. Udp!Init <=> Receiving!Init
  BY ZenonT(60) DEF
    Udp!Init, Receiving!Init, Udp!NoUnbind, Receiving!NoUnbind
<1>3. Udp!Next <=> Receiving!Next
  BY ZenonT(60) DEF
    Udp!Next, Receiving!Next, Udp!Bind, Receiving!Bind, Udp!Create, Receiving!Create,
    Udp!Delete, Receiving!Delete, Udp!DriverDeliver, Receiving!DriverDeliver, Udp!DriverDrop,
    Receiving!DriverDrop, Udp!DriverFind, Receiving!DriverFind, Udp!IpReceive,
    Receiving!IpReceive, Udp!IsrReceive, Receiving!IsrReceive, Udp!ReceiveExpires,
    Receiving!ReceiveExpires, Udp!ReceiveQueued, Receiving!ReceiveQueued, Udp!ReceiveWait,
    Receiving!ReceiveWait, Udp!Release, Receiving!Release, Udp!UnbindClear,
    Receiving!UnbindClear, Udp!UnbindCount, Receiving!UnbindCount, Udp!UnbindFlush,
    Receiving!UnbindFlush, Udp!UnbindTable, Receiving!UnbindTable, Udp!UnbindWalk,
    Receiving!UnbindWalk, Udp!Bound, Receiving!Bound, Udp!Found, Receiving!Found, Udp!MutexFree,
    Receiving!MutexFree, Udp!packetVars, Receiving!packetVars, Udp!queueVars,
    Receiving!queueVars, Udp!waitVars, Receiving!waitVars, Udp!Deliver, Receiving!Deliver,
    Udp!tableVars, Receiving!tableVars, Udp!Leave, Receiving!Leave, Udp!MayPreempt,
    Receiving!MayPreempt, Udp!Suspend, Receiving!Suspend, Udp!NoUnbind, Receiving!NoUnbind,
    Udp!Ring, Receiving!Ring, Udp!Queued, Receiving!Queued, Udp!Passes, Receiving!Passes
<1>4. Udp!TypeOK <=> Receiving!TypeOK
  BY ZenonT(60) DEF
    Udp!TypeOK, Receiving!TypeOK, Udp!Cardinality, Receiving!Cardinality
<1>5. Udp!PacketsAccounted <=> Receiving!PacketsAccounted
  BY ZenonT(60) DEF
    Udp!PacketsAccounted, Receiving!PacketsAccounted, Udp!Cardinality, Receiving!Cardinality,
    Udp!Places, Receiving!Places, Udp!At, Receiving!At
<1>6. Udp!CountTrue <=> Receiving!CountTrue
  BY ZenonT(60) DEF
    Udp!CountTrue, Receiving!CountTrue
<1>7. Udp!NobodyWaitsBesidePacket <=> Receiving!NobodyWaitsBesidePacket
  BY ZenonT(60) DEF
    Udp!NobodyWaitsBesidePacket, Receiving!NobodyWaitsBesidePacket
<1>8. Udp!UnboundIsEmpty <=> Receiving!UnboundIsEmpty
  BY ZenonT(60) DEF
    Udp!UnboundIsEmpty, Receiving!UnboundIsEmpty, Udp!Bound, Receiving!Bound
<1>9. Udp!TableTrue <=> Receiving!TableTrue
  BY ZenonT(60) DEF
    Udp!TableTrue, Receiving!TableTrue, Udp!Bound, Receiving!Bound, Udp!Ring, Receiving!Ring,
    Udp!Passes, Receiving!Passes
<1> QED BY <1>1, <1>2, <1>3, <1>4, <1>5, <1>6, <1>7, <1>8, <1>9

(* from a driver's thread too,                                              *)
LEMMA SameDriving ==
  /\ Driver!ReceiveAssumption <=> Driving!ReceiveAssumption
  /\ Driver!Init <=> Driving!Init
  /\ Driver!Next <=> Driving!Next
  /\ Driver!NeverTwice <=> Driving!NeverTwice
<1>1. Driver!ReceiveAssumption <=> Driving!ReceiveAssumption
  BY ZenonT(60) DEF
    Driver!ReceiveAssumption, Driving!ReceiveAssumption, Driver!IsFiniteSet, Driving!IsFiniteSet
<1>2. Driver!Init <=> Driving!Init
  BY ZenonT(60) DEF
    Driver!Init, Driving!Init, Driver!NoUnbind, Driving!NoUnbind
<1>3. Driver!Next <=> Driving!Next
  BY ZenonT(60) DEF
    Driver!Next, Driving!Next, Driver!Bind, Driving!Bind, Driver!Create, Driving!Create,
    Driver!Delete, Driving!Delete, Driver!DriverDeliver, Driving!DriverDeliver,
    Driver!DriverDrop, Driving!DriverDrop, Driver!DriverFind, Driving!DriverFind,
    Driver!IpReceive, Driving!IpReceive, Driver!IsrReceive, Driving!IsrReceive,
    Driver!ReceiveExpires, Driving!ReceiveExpires, Driver!ReceiveQueued, Driving!ReceiveQueued,
    Driver!ReceiveWait, Driving!ReceiveWait, Driver!Release, Driving!Release,
    Driver!UnbindClear, Driving!UnbindClear, Driver!UnbindCount, Driving!UnbindCount,
    Driver!UnbindFlush, Driving!UnbindFlush, Driver!UnbindTable, Driving!UnbindTable,
    Driver!UnbindWalk, Driving!UnbindWalk, Driver!Bound, Driving!Bound, Driver!Found,
    Driving!Found, Driver!MutexFree, Driving!MutexFree, Driver!packetVars, Driving!packetVars,
    Driver!queueVars, Driving!queueVars, Driver!waitVars, Driving!waitVars, Driver!Deliver,
    Driving!Deliver, Driver!tableVars, Driving!tableVars, Driver!Leave, Driving!Leave,
    Driver!MayPreempt, Driving!MayPreempt, Driver!Suspend, Driving!Suspend, Driver!NoUnbind,
    Driving!NoUnbind, Driver!Ring, Driving!Ring, Driver!Queued, Driving!Queued, Driver!Passes,
    Driving!Passes
<1>4. Driver!NeverTwice <=> Driving!NeverTwice
  BY ZenonT(60) DEF
    Driver!NeverTwice, Driving!NeverTwice, Driver!Cardinality, Driving!Cardinality,
    Driver!Places, Driving!Places, Driver!At, Driving!At
<1> QED BY <1>1, <1>2, <1>3, <1>4

(* of the part that listens on one port,                                    *)
LEMMA SameListening ==
  /\ Listen!ListenAssumption <=> Listening!Listen!ListenAssumption
  /\ Listen!Init <=> Listening!Listen!Init
  /\ Listen!Next <=> Listening!Listen!Next
  /\ Listen!TypeOK <=> Listening!Listen!TypeOK
  /\ Listen!OneConnectionPerSource <=> Listening!Listen!OneConnectionPerSource
  /\ Listen!PacketsAccounted <=> Listening!Listen!PacketsAccounted
  /\ Listen!NobodyWaitsBesideListener <=> Listening!Listen!NobodyWaitsBesideListener
<1>1. Listen!ListenAssumption <=> Listening!Listen!ListenAssumption
  BY ZenonT(60) DEF
    Listen!ListenAssumption, Listening!Listen!ListenAssumption, Listen!IsFiniteSet,
    Listening!Listen!IsFiniteSet
<1>2. Listen!Init <=> Listening!Listen!Init
  BY ZenonT(60) DEF
    Listen!Init, Listening!Listen!Init
<1>3. Listen!Next <=> Listening!Listen!Next
  BY ZenonT(60) DEF
    Listen!Next, Listening!Listen!Next, Listen!Accept, Listening!Listen!Accept,
    Listen!AcceptFails, Listening!Listen!AcceptFails, Listen!AcceptReturns,
    Listening!Listen!AcceptReturns, Listen!Closed, Listening!Listen!Closed, Listen!Established,
    Listening!Listen!Established, Listen!Listen, Listening!Listen!Listen,
    Listen!RelistenDeclined, Listening!Listen!RelistenDeclined, Listen!RelistenIdle,
    Listening!Listen!RelistenIdle, Listen!RelistenPending, Listening!Listen!RelistenPending,
    Listen!Reset, Listening!Listen!Reset, Listen!RstQueue, Listening!Listen!RstQueue,
    Listen!SynListener, Listening!Listen!SynListener, Listen!SynQueue,
    Listening!Listen!SynQueue, Listen!Unaccept, Listening!Listen!Unaccept, Listen!Unlisten,
    Listening!Listen!Unlisten, Listen!packetVars, Listening!Listen!packetVars, Listen!queueVars,
    Listening!Listen!queueVars, Listen!Woken, Listening!Listen!Woken, Listen!Cardinality,
    Listening!Listen!Cardinality, Listen!Dequeue, Listening!Listen!Dequeue, Listen!socketVars,
    Listening!Listen!socketVars, Listen!Take, Listening!Listen!Take, Listen!At,
    Listening!Listen!At, Listen!Owned, Listening!Listen!Owned, Listen!Enqueue,
    Listening!Listen!Enqueue, Listen!Queued, Listening!Listen!Queued, Listen!Unserved,
    Listening!Listen!Unserved, Listen!Forget, Listening!Listen!Forget, Listen!QueueOf,
    Listening!Listen!QueueOf, Listen!Linked, Listening!Listen!Linked, Listen!BacklogOf,
    Listening!Listen!BacklogOf, Listen!SourceOf, Listening!Listen!SourceOf
<1>4. Listen!TypeOK <=> Listening!Listen!TypeOK
  BY ZenonT(60) DEF
    Listen!TypeOK, Listening!Listen!TypeOK
<1>5. Listen!OneConnectionPerSource <=> Listening!Listen!OneConnectionPerSource
  BY ZenonT(60) DEF
    Listen!OneConnectionPerSource, Listening!Listen!OneConnectionPerSource, Listen!Cardinality,
    Listening!Listen!Cardinality, Listen!Queued, Listening!Listen!Queued, Listen!BacklogOf,
    Listening!Listen!BacklogOf, Listen!At, Listening!Listen!At, Listen!SourceOf,
    Listening!Listen!SourceOf, Listen!Linked, Listening!Listen!Linked
<1>6. Listen!PacketsAccounted <=> Listening!Listen!PacketsAccounted
  BY ZenonT(60) DEF
    Listen!PacketsAccounted, Listening!Listen!PacketsAccounted, Listen!At, Listening!Listen!At,
    Listen!Cardinality, Listening!Listen!Cardinality, Listen!QueueOf, Listening!Listen!QueueOf,
    Listen!Linked, Listening!Listen!Linked
<1>7. Listen!NobodyWaitsBesideListener <=> Listening!Listen!NobodyWaitsBesideListener
  BY ZenonT(60) DEF
    Listen!NobodyWaitsBesideListener, Listening!Listen!NobodyWaitsBesideListener
<1> QED BY <1>1, <1>2, <1>3, <1>4, <1>5, <1>6, <1>7

(* on several,                                                              *)
LEMMA SameRelistening ==
  /\ ListenPorts!ListenAssumption <=> Relistening!Listen!ListenAssumption
  /\ ListenPorts!Init <=> Relistening!Listen!Init
  /\ ListenPorts!Next <=> Relistening!Listen!Next
  /\ ListenPorts!TypeOK <=> Relistening!Listen!TypeOK
  /\ ListenPorts!ListenersServed <=> Relistening!Listen!ListenersServed
<1>1. ListenPorts!ListenAssumption <=> Relistening!Listen!ListenAssumption
  BY ZenonT(60) DEF
    ListenPorts!ListenAssumption, Relistening!Listen!ListenAssumption, ListenPorts!IsFiniteSet,
    Relistening!Listen!IsFiniteSet
<1>2. ListenPorts!Init <=> Relistening!Listen!Init
  BY ZenonT(60) DEF
    ListenPorts!Init, Relistening!Listen!Init
<1>3. ListenPorts!Next <=> Relistening!Listen!Next
  BY ZenonT(60) DEF
    ListenPorts!Next, Relistening!Listen!Next, ListenPorts!Accept, Relistening!Listen!Accept,
    ListenPorts!AcceptFails, Relistening!Listen!AcceptFails, ListenPorts!AcceptReturns,
    Relistening!Listen!AcceptReturns, ListenPorts!Closed, Relistening!Listen!Closed,
    ListenPorts!Established, Relistening!Listen!Established, ListenPorts!Listen,
    Relistening!Listen!Listen, ListenPorts!RelistenDeclined,
    Relistening!Listen!RelistenDeclined, ListenPorts!RelistenIdle,
    Relistening!Listen!RelistenIdle, ListenPorts!RelistenPending,
    Relistening!Listen!RelistenPending, ListenPorts!Reset, Relistening!Listen!Reset,
    ListenPorts!RstQueue, Relistening!Listen!RstQueue, ListenPorts!SynListener,
    Relistening!Listen!SynListener, ListenPorts!SynQueue, Relistening!Listen!SynQueue,
    ListenPorts!Unaccept, Relistening!Listen!Unaccept, ListenPorts!Unlisten,
    Relistening!Listen!Unlisten, ListenPorts!packetVars, Relistening!Listen!packetVars,
    ListenPorts!queueVars, Relistening!Listen!queueVars, ListenPorts!Woken,
    Relistening!Listen!Woken, ListenPorts!Cardinality, Relistening!Listen!Cardinality,
    ListenPorts!Dequeue, Relistening!Listen!Dequeue, ListenPorts!socketVars,
    Relistening!Listen!socketVars, ListenPorts!Take, Relistening!Listen!Take, ListenPorts!At,
    Relistening!Listen!At, ListenPorts!Owned, Relistening!Listen!Owned, ListenPorts!Enqueue,
    Relistening!Listen!Enqueue, ListenPorts!Queued, Relistening!Listen!Queued,
    ListenPorts!Unserved, Relistening!Listen!Unserved, ListenPorts!Forget,
    Relistening!Listen!Forget, ListenPorts!QueueOf, Relistening!Listen!QueueOf,
    ListenPorts!Linked, Relistening!Listen!Linked, ListenPorts!BacklogOf,
    Relistening!Listen!BacklogOf, ListenPorts!SourceOf, Relistening!Listen!SourceOf
<1>4. ListenPorts!TypeOK <=> Relistening!Listen!TypeOK
  BY ZenonT(60) DEF
    ListenPorts!TypeOK, Relistening!Listen!TypeOK
<1>5. ListenPorts!ListenersServed <=> Relistening!Listen!ListenersServed
  BY ZenonT(60) DEF
    ListenPorts!ListenersServed, Relistening!Listen!ListenersServed
<1> QED BY <1>1, <1>2, <1>3, <1>4, <1>5

(* and of the ARP cache.                                                    *)
LEMMA SameCaching ==
  /\ Arp!ArpAssumption <=> Caching!ArpAssumption
  /\ Arp!Init <=> Caching!Init
  /\ Arp!Next <=> Caching!Next
  /\ Arp!TypeOK <=> Caching!TypeOK
  /\ Arp!CountsActive <=> Caching!CountsActive
  /\ Arp!WaitsWhereAnswered <=> Caching!WaitsWhereAnswered
  /\ Arp!AsksThroughInterface <=> Caching!AsksThroughInterface
<1>1. Arp!ArpAssumption <=> Caching!ArpAssumption
  BY ZenonT(60) DEF
    Arp!ArpAssumption, Caching!ArpAssumption, Arp!IsFiniteSet, Caching!IsFiniteSet
<1>2. Arp!Init <=> Caching!Init
  BY ZenonT(60) DEF
    Arp!Init, Caching!Init, Arp!Cardinality, Caching!Cardinality, Arp!ToSet, Caching!ToSet
<1>3. Arp!Next <=> Caching!Next
  BY ZenonT(60) DEF
    Arp!Next, Caching!Next, Arp!Ask, Caching!Ask, Arp!Delete, Caching!Delete, Arp!Invalidate,
    Caching!Invalidate, Arp!MutexFree, Caching!MutexFree, Arp!PeriodicUpdate,
    Caching!PeriodicUpdate, Arp!Receive, Caching!Receive, Arp!ReceiveNew, Caching!ReceiveNew,
    Arp!SendAllocate, Caching!SendAllocate, Arp!SendKnown, Caching!SendKnown, Arp!SendWait,
    Caching!SendWait, Arp!Set, Caching!Set, Arp!StaticDelete, Caching!StaticDelete,
    Arp!StaticMove, Caching!StaticMove, Arp!StaticNew, Caching!StaticNew, Arp!Allocate,
    Caching!Allocate, Arp!Filled, Caching!Filled, Arp!Found, Caching!Found, Arp!Released,
    Caching!Released, Arp!Without, Caching!Without, Arp!Active, Caching!Active, Arp!Cardinality,
    Caching!Cardinality, Arp!Kept, Caching!Kept, Arp!PeriodAge, Caching!PeriodAge,
    Arp!PeriodAsk, Caching!PeriodAsk, Arp!PeriodGiveUp, Caching!PeriodGiveUp, Arp!PeriodStart,
    Caching!PeriodStart, Arp!Waiting, Caching!Waiting, Arp!Rotated, Caching!Rotated,
    Arp!StaticFilled, Caching!StaticFilled, Arp!Front, Caching!Front, Arp!Last, Caching!Last,
    Arp!ToSet, Caching!ToSet, Arp!WalkOn, Caching!WalkOn, Arp!Behind, Caching!Behind
<1>4. Arp!TypeOK <=> Caching!TypeOK
  BY ZenonT(60) DEF
    Arp!TypeOK, Caching!TypeOK, Arp!Cardinality, Caching!Cardinality, Arp!ToSet, Caching!ToSet
<1>5. Arp!CountsActive <=> Caching!CountsActive
  BY ZenonT(60) DEF
    Arp!CountsActive, Caching!CountsActive, Arp!Active, Caching!Active, Arp!Cardinality,
    Caching!Cardinality, Arp!Found, Caching!Found, Arp!ToSet, Caching!ToSet
<1>6. Arp!WaitsWhereAnswered <=> Caching!WaitsWhereAnswered
  BY ZenonT(60) DEF
    Arp!WaitsWhereAnswered, Caching!WaitsWhereAnswered, Arp!Active, Caching!Active,
    Arp!IsInjective, Caching!IsInjective, Arp!ToSet, Caching!ToSet
<1>7. Arp!AsksThroughInterface <=> Caching!AsksThroughInterface
  BY ZenonT(60) DEF
    Arp!AsksThroughInterface, Caching!AsksThroughInterface, Arp!MutexFree, Caching!MutexFree
<1> QED BY <1>1, <1>2, <1>3, <1>4, <1>5, <1>6, <1>7

(* Those of UDP ports that many wait for,                                   *)
LEMMA SamePorts ==
  /\ UdpPorts!UdpBindAssumption <=> Caching!Udp!UdpBindAssumption
  /\ UdpPorts!Init <=> Caching!Udp!Init
  /\ UdpPorts!Next <=> Caching!Udp!Next
  /\ UdpPorts!TypeOK <=> Caching!Udp!TypeOK
  /\ UdpPorts!ResultTellsTable <=> Caching!Udp!ResultTellsTable
  /\ UdpPorts!WaitersListed <=> Caching!Udp!WaitersListed
  /\ UdpPorts!HandedToWaiter <=> Caching!Udp!HandedToWaiter
  /\ UdpPorts!OvertakesNobody <=> Caching!Udp!OvertakesNobody
<1>1. UdpPorts!UdpBindAssumption <=> Caching!Udp!UdpBindAssumption
  BY ZenonT(60) DEF
    UdpPorts!UdpBindAssumption, Caching!Udp!UdpBindAssumption, UdpPorts!IsFiniteSet,
    Caching!Udp!IsFiniteSet
<1>2. UdpPorts!Init <=> Caching!Udp!Init
  BY ZenonT(60) DEF
    UdpPorts!Init, Caching!Udp!Init
<1>3. UdpPorts!Next <=> Caching!Udp!Next
  BY ZenonT(60) DEF
    UdpPorts!Next, Caching!Udp!Next, UdpPorts!BindFree, Caching!Udp!BindFree,
    UdpPorts!BindUnavailable, Caching!Udp!BindUnavailable, UdpPorts!BindWait,
    Caching!Udp!BindWait, UdpPorts!Expire, Caching!Udp!Expire, UdpPorts!HandOver,
    Caching!Udp!HandOver, UdpPorts!UnbindCleanup, Caching!Udp!UnbindCleanup,
    UdpPorts!UnbindTable, Caching!Udp!UnbindTable, UdpPorts!UnbindWaiting,
    Caching!Udp!UnbindWaiting, UdpPorts!MayBind, Caching!Udp!MayBind, UdpPorts!mutexVars,
    Caching!Udp!mutexVars, UdpPorts!threadVars, Caching!Udp!threadVars, UdpPorts!WaitOn,
    Caching!Udp!WaitOn, UdpPorts!BindCleanup, Caching!Udp!BindCleanup, UdpPorts!HandOverTo,
    Caching!Udp!HandOverTo, UdpPorts!MayUnbind, Caching!Udp!MayUnbind, UdpPorts!Bound,
    Caching!Udp!Bound, UdpPorts!MutexFree, Caching!Udp!MutexFree, UdpPorts!Cardinality,
    Caching!Udp!Cardinality, UdpPorts!HeadWithout, Caching!Udp!HeadWithout, UdpPorts!Unlink,
    Caching!Udp!Unlink
<1>4. UdpPorts!TypeOK <=> Caching!Udp!TypeOK
  BY ZenonT(60) DEF
    UdpPorts!TypeOK, Caching!Udp!TypeOK
<1>5. UdpPorts!ResultTellsTable <=> Caching!Udp!ResultTellsTable
  BY ZenonT(60) DEF
    UdpPorts!ResultTellsTable, Caching!Udp!ResultTellsTable, UdpPorts!Bound, Caching!Udp!Bound
<1>6. UdpPorts!WaitersListed <=> Caching!Udp!WaitersListed
  BY ZenonT(60) DEF
    UdpPorts!WaitersListed, Caching!Udp!WaitersListed, UdpPorts!Behind, Caching!Udp!Behind,
    UdpPorts!Cardinality, Caching!Udp!Cardinality, UdpPorts!Owner, Caching!Udp!Owner,
    UdpPorts!Waiting, Caching!Udp!Waiting, UdpPorts!Waits, Caching!Udp!Waits
<1>7. UdpPorts!HandedToWaiter <=> Caching!Udp!HandedToWaiter
  BY ZenonT(60) DEF
    UdpPorts!HandedToWaiter, Caching!Udp!HandedToWaiter, UdpPorts!Waits, Caching!Udp!Waits
<1>8. UdpPorts!OvertakesNobody <=> Caching!Udp!OvertakesNobody
  BY ZenonT(60) DEF
    UdpPorts!OvertakesNobody, Caching!Udp!OvertakesNobody, UdpPorts!Before, Caching!Udp!Before,
    UdpPorts!Waits, Caching!Udp!Waits, UdpPorts!Behind, Caching!Udp!Behind,
    UdpPorts!Cardinality, Caching!Udp!Cardinality, UdpPorts!Owner, Caching!Udp!Owner
<1> QED BY <1>1, <1>2, <1>3, <1>4, <1>5, <1>6, <1>7, <1>8

(* or that one waits for who may give up.                                   *)
LEMMA SameGiveUp ==
  /\ UdpGiveUp!UdpBindAssumption <=> Expiring!Udp!UdpBindAssumption
  /\ UdpGiveUp!Init <=> Expiring!Udp!Init
  /\ UdpGiveUp!Next <=> Expiring!Udp!Next
  /\ UdpGiveUp!TypeOK <=> Expiring!Udp!TypeOK
  /\ UdpGiveUp!ResultTellsTable <=> Expiring!Udp!ResultTellsTable
  /\ UdpGiveUp!WaitersListed <=> Expiring!Udp!WaitersListed
  /\ UdpGiveUp!BindingWaits <=> Expiring!Udp!BindingWaits
<1>1. UdpGiveUp!UdpBindAssumption <=> Expiring!Udp!UdpBindAssumption
  BY ZenonT(60) DEF
    UdpGiveUp!UdpBindAssumption, Expiring!Udp!UdpBindAssumption, UdpGiveUp!IsFiniteSet,
    Expiring!Udp!IsFiniteSet
<1>2. UdpGiveUp!Init <=> Expiring!Udp!Init
  BY ZenonT(60) DEF
    UdpGiveUp!Init, Expiring!Udp!Init
<1>3. UdpGiveUp!Next <=> Expiring!Udp!Next
  BY ZenonT(60) DEF
    UdpGiveUp!Next, Expiring!Udp!Next, UdpGiveUp!BindFree, Expiring!Udp!BindFree,
    UdpGiveUp!BindUnavailable, Expiring!Udp!BindUnavailable, UdpGiveUp!BindWait,
    Expiring!Udp!BindWait, UdpGiveUp!Expire, Expiring!Udp!Expire, UdpGiveUp!HandOver,
    Expiring!Udp!HandOver, UdpGiveUp!UnbindCleanup, Expiring!Udp!UnbindCleanup,
    UdpGiveUp!UnbindTable, Expiring!Udp!UnbindTable, UdpGiveUp!UnbindWaiting,
    Expiring!Udp!UnbindWaiting, UdpGiveUp!MayBind, Expiring!Udp!MayBind, UdpGiveUp!mutexVars,
    Expiring!Udp!mutexVars, UdpGiveUp!threadVars, Expiring!Udp!threadVars, UdpGiveUp!WaitOn,
    Expiring!Udp!WaitOn, UdpGiveUp!BindCleanup, Expiring!Udp!BindCleanup, UdpGiveUp!HandOverTo,
    Expiring!Udp!HandOverTo, UdpGiveUp!MayUnbind, Expiring!Udp!MayUnbind, UdpGiveUp!Bound,
    Expiring!Udp!Bound, UdpGiveUp!MutexFree, Expiring!Udp!MutexFree, UdpGiveUp!Cardinality,
    Expiring!Udp!Cardinality, UdpGiveUp!HeadWithout, Expiring!Udp!HeadWithout, UdpGiveUp!Unlink,
    Expiring!Udp!Unlink
<1>4. UdpGiveUp!TypeOK <=> Expiring!Udp!TypeOK
  BY ZenonT(60) DEF
    UdpGiveUp!TypeOK, Expiring!Udp!TypeOK
<1>5. UdpGiveUp!ResultTellsTable <=> Expiring!Udp!ResultTellsTable
  BY ZenonT(60) DEF
    UdpGiveUp!ResultTellsTable, Expiring!Udp!ResultTellsTable, UdpGiveUp!Bound,
    Expiring!Udp!Bound
<1>6. UdpGiveUp!WaitersListed <=> Expiring!Udp!WaitersListed
  BY ZenonT(60) DEF
    UdpGiveUp!WaitersListed, Expiring!Udp!WaitersListed, UdpGiveUp!Behind, Expiring!Udp!Behind,
    UdpGiveUp!Cardinality, Expiring!Udp!Cardinality, UdpGiveUp!Owner, Expiring!Udp!Owner,
    UdpGiveUp!Waiting, Expiring!Udp!Waiting, UdpGiveUp!Waits, Expiring!Udp!Waits
<1>7. UdpGiveUp!BindingWaits <=> Expiring!Udp!BindingWaits
  BY ZenonT(60) DEF
    UdpGiveUp!BindingWaits, Expiring!Udp!BindingWaits, UdpGiveUp!Waits, Expiring!Udp!Waits
<1> QED BY <1>1, <1>2, <1>3, <1>4, <1>5, <1>6, <1>7

(* What a thread gets, in a step.                                           *)
LEMMA SameGetsOwn == ASSUME NEW t \in Threads PROVE Udp!GetsOwn(t) <=> Receiving!GetsOwn(t)
BY ZenonT(60) DEF
    Udp!GetsOwn, Receiving!GetsOwn, Udp!Bound, Receiving!Bound, Udp!Held, Receiving!Held

-----------------------------------------------------------------------------
(* What each part keeps of itself while it runs.                            *)
Parts ==
  /\ part = "receive" => Receiving!IInv
  /\ part = "driver" => Driving!Shaped /\ Driving!Apart
  /\ part = "listen" => Listening!ListenInv
  /\ part = "listen ports" => Relistening!ListenInv
  /\ part = "arp" => Caching!IInv
  /\ part = "ports" => Caching!BindInv
  /\ part = "give up" => Expiring!BindInv

LEMMA Assumed ==
  /\ Receiving!Calm /\ Driving!ReceiveAssumption
  /\ Listening!Listen!ListenAssumption /\ Relistening!Listen!ListenAssumption
  /\ Caching!ArpAssumption /\ Caching!FewWait /\ Expiring!FewWait
<1>1. /\ Receiving!Calm /\ Driving!ReceiveAssumption
      /\ Listening!Listen!ListenAssumption /\ Relistening!Listen!ListenAssumption
      /\ Caching!ArpAssumption
  BY SocketsAssumption, SameReceiving, SameDriving, SameListening, SameRelistening,
     SameCaching DEF Receiving!Calm
<1>2. Caching!FewWait /\ Expiring!FewWait
  BY SocketsAssumption, SamePorts, SameGiveUp DEF Caching!FewWait, Expiring!FewWait
<1> QED BY <1>1, <1>2

(* The part that runs starts as it does alone,                              *)
LEMMA InitParts == ASSUME Init PROVE Parts
<1>1. ASSUME part = "receive" PROVE Receiving!IInv
  BY <1>1, Assumed, SameReceiving, Receiving!InitInv DEF Init
<1>2. ASSUME part = "driver" PROVE Driving!Shaped /\ Driving!Apart
  BY <1>2, Assumed, SameDriving, Driving!InitShaped DEF Init
<1>3. ASSUME part = "listen" PROVE Listening!ListenInv
  BY <1>3, Assumed, SameListening, Listening!ListenInitTrue DEF Init
<1>4. ASSUME part = "listen ports" PROVE Relistening!ListenInv
  BY <1>4, Assumed, SameRelistening, Relistening!ListenInitTrue DEF Init
<1>5. ASSUME part = "arp" PROVE Caching!IInv
  BY <1>5, Assumed, SameCaching, Caching!InitTrue DEF Init
<1>6. ASSUME part = "ports" PROVE Caching!BindInv
  <2>1. Caching!Udp!UdpBindAssumption /\ Caching!Udp!Init
    BY <1>6, Assumed, SamePorts DEF Init, Caching!FewWait
  <2> QED BY <2>1, Caching!BindInit
<1>7. ASSUME part = "give up" PROVE Expiring!BindInv
  <2>1. Expiring!Udp!UdpBindAssumption /\ Expiring!Udp!Init
    BY <1>7, Assumed, SameGiveUp DEF Init, Expiring!FewWait
  <2> QED BY <2>1, Expiring!BindInit
<1> QED BY <1>1, <1>2, <1>3, <1>4, <1>5, <1>6, <1>7 DEF Parts

(* and takes its own steps, or none.                                        *)
LEMMA StepsOfParts ==
  ASSUME [Next]_vars
  PROVE  /\ part' = part
         /\ part = "receive" => [Receiving!Next]_(Receiving!vars)
         /\ part = "driver" => [Driving!Next]_(Driving!vars)
         /\ part = "listen" => [Listening!Listen!Next]_(Listening!Listen!vars)
         /\ part = "listen ports" => [Relistening!Listen!Next]_(Relistening!Listen!vars)
         /\ part = "arp" => [Caching!Next]_(Caching!vars)
         /\ part = "ports" => [Caching!Udp!Next]_(Caching!Udp!vars)
         /\ part = "give up" => [Expiring!Udp!Next]_(Expiring!Udp!vars)
<1>1. CASE Next
  BY <1>1, SameReceiving, SameDriving, SameListening, SameRelistening, SameCaching,
     SamePorts, SameGiveUp DEF Next
<1>2. CASE UNCHANGED vars
  <2>1. part' = part BY <1>2 DEF vars
  <2>2. UNCHANGED Receiving!vars
    BY <1>2 DEF vars, threads, onlyReceive, Receiving!vars, Receiving!tableVars,
                Receiving!queueVars, Receiving!waitVars, Receiving!packetVars
  <2>3. UNCHANGED Driving!vars
    BY <1>2 DEF vars, threads, onlyReceive, Driving!vars, Driving!tableVars,
                Driving!queueVars, Driving!waitVars, Driving!packetVars
  <2>4. UNCHANGED Listening!Listen!vars
    BY <1>2 DEF vars, onlyListen, Listening!Listen!vars, Listening!Listen!queueVars,
                Listening!Listen!packetVars, Listening!Listen!socketVars
  <2>5. UNCHANGED Relistening!Listen!vars
    BY <1>2 DEF vars, onlyListen, Relistening!Listen!vars, Relistening!Listen!queueVars,
                Relistening!Listen!packetVars, Relistening!Listen!socketVars
  <2>6. UNCHANGED Caching!vars
    BY <1>2 DEF vars, onlyArp, Caching!vars
  <2>7. UNCHANGED Caching!Udp!vars /\ UNCHANGED Expiring!Udp!vars
    BY <1>2 DEF vars, onlyPorts, threads, Caching!Udp!vars, Caching!Udp!threadVars,
                Caching!Udp!mutexVars, Expiring!Udp!vars, Expiring!Udp!threadVars,
                Expiring!Udp!mutexVars
  <2> QED BY <2>1, <2>2, <2>3, <2>4, <2>5, <2>6, <2>7
<1> QED BY <1>1, <1>2

LEMMA PartsKeep == ASSUME Parts, [Next]_vars PROVE Parts'
<1>1. ASSUME part' = "receive" PROVE Receiving!IInv'
  <2>1. Receiving!IInv /\ [Receiving!Next]_(Receiving!vars) BY <1>1, StepsOfParts DEF Parts
  <2> QED BY <2>1, Assumed, Receiving!StepKeeps
<1>2. ASSUME part' = "driver" PROVE Driving!Shaped' /\ Driving!Apart'
  <2>1. Driving!Shaped /\ Driving!Apart /\ [Driving!Next]_(Driving!vars)
    BY <1>2, StepsOfParts DEF Parts
  <2>2. Driving!Shaped' BY <2>1, Assumed, Driving!ShapedKeeps
  <2>3. Driving!Apart' BY <2>1, Assumed, Driving!ApartKeeps
  <2> QED BY <2>2, <2>3
<1>3. ASSUME part' = "listen" PROVE Listening!ListenInv'
  <2>1. Listening!ListenInv /\ [Listening!Listen!Next]_(Listening!Listen!vars)
    BY <1>3, StepsOfParts DEF Parts
  <2> QED BY <2>1, Assumed, Listening!ListenStepKeeps
<1>4. ASSUME part' = "listen ports" PROVE Relistening!ListenInv'
  <2>1. Relistening!ListenInv /\ [Relistening!Listen!Next]_(Relistening!Listen!vars)
    BY <1>4, StepsOfParts DEF Parts
  <2> QED BY <2>1, Assumed, Relistening!ListenStepKeeps
<1>5. ASSUME part' = "arp" PROVE Caching!IInv'
  <2>1. Caching!IInv /\ [Caching!Next]_(Caching!vars) BY <1>5, StepsOfParts DEF Parts
  <2> QED BY <2>1, Assumed, Caching!StepKeeps
<1>6. ASSUME part' = "ports" PROVE Caching!BindInv'
  <2>1. Caching!BindInv /\ [Caching!Udp!Next]_(Caching!Udp!vars)
    BY <1>6, StepsOfParts DEF Parts
  <2> QED BY <2>1, Assumed, Caching!BindStepKeeps
<1>7. ASSUME part' = "give up" PROVE Expiring!BindInv'
  <2>1. Expiring!BindInv /\ [Expiring!Udp!Next]_(Expiring!Udp!vars)
    BY <1>7, StepsOfParts DEF Parts
  <2> QED BY <2>1, Assumed, Expiring!BindStepKeeps
<1> QED BY <1>1, <1>2, <1>3, <1>4, <1>5, <1>6, <1>7 DEF Parts

(* Whatever part runs, it keeps its invariant; the theorems below say what  *)
(* follows of each.                                                         *)
THEOREM PartsInvariant == Spec => []Parts
<1>1. Init => Parts BY InitParts
<1>2. Parts /\ [Next]_vars => Parts' BY PartsKeep
<1> QED BY <1>1, <1>2, PTL DEF Spec

-----------------------------------------------------------------------------
(* Of datagrams: between the IP thread, interrupts, receive, expiry and     *)
(* unbind none is lost or in two hands, the count unbind goes by is the     *)
(* number of packets it finds, nobody waits beside a queued datagram, an    *)
(* unbound socket is left with nothing, and the port table's rings are the  *)
(* bound sockets; a driver's thread that delivers to a socket that is gone  *)
(* never makes two hands hold one datagram.                                 *)
THEOREM DatagramsStayAccounted == Spec => []DatagramsAccounted
<1>1. ASSUME Parts PROVE DatagramsAccounted
  <2>1. ASSUME part = "receive"
        PROVE  /\ Receiving!TypeOK /\ Receiving!PacketsAccounted /\ Receiving!CountTrue
               /\ Receiving!NobodyWaitsBesidePacket
               /\ Receiving!UnboundIsEmpty /\ Receiving!TableTrue
    <3>1. Receiving!IInv BY <1>1, <2>1 DEF Parts
    <3> QED BY <3>1, Assumed, Receiving!InvSays
  <2>2. ASSUME part = "driver" PROVE Driving!NeverTwice
    <3>1. Driving!Shaped /\ Driving!Apart BY <1>1, <2>2 DEF Parts
    <3> QED BY <3>1, Assumed, Driving!OnePlace DEF Driving!NeverTwice
  <2> QED BY <2>1, <2>2, SameReceiving, SameDriving DEF DatagramsAccounted
<1> QED BY <1>1, PartsInvariant, PTL

(* A thread gets datagrams for the port its socket is bound to; and a port  *)
(* that is given up goes to a thread that waits for it, none of whom is     *)
(* overtaken by another, however often the port changes hands.              *)
THEOREM UdpPortsDecide == Spec => UdpPortDecides
<1>1. ASSUME Parts, [Next]_vars
      PROVE  /\ part = "receive" => \A t \in Threads : Udp!GetsOwn(t)
             /\ part = "ports" => UdpPorts!HandedToWaiter /\ UdpPorts!OvertakesNobody
  <2>1. ASSUME part = "receive", NEW t \in Threads PROVE Udp!GetsOwn(t)
    <3>1. Receiving!IInv /\ [Receiving!Next]_(Receiving!vars)
      BY <1>1, <2>1, StepsOfParts DEF Parts
    <3>2. Receiving!GetsOwn(t) BY <3>1, Assumed, Receiving!StepGetsOwn
    <3> QED BY <3>2, SameGetsOwn
  <2>2. ASSUME part = "ports"
        PROVE  Caching!Udp!HandedToWaiter /\ Caching!Udp!OvertakesNobody
    <3>1. Caching!BindInv /\ [Caching!Udp!Next]_(Caching!Udp!vars)
      BY <1>1, <2>2, StepsOfParts DEF Parts
    <3>2. Caching!Udp!HandedToWaiter BY <3>1, Assumed, Caching!StepHandsOver
    <3>3. Caching!Udp!OvertakesNobody BY <3>1, Assumed, Caching!StepOvertakesNobody
    <3> QED BY <3>2, <3>3
  <2> QED BY <2>1, <2>2, SamePorts
<1> QED BY <1>1, PartsInvariant, PTL DEF Spec, UdpPortDecides

(* The result of a UDP bind tells whether the socket has the port, a wait   *)
(* that ended left nothing behind, and who still waits is on the list of    *)
(* the socket that holds the port, linked in a ring.                        *)
THEOREM UdpResultsTellTable == Spec => []UdpResultTellsTable
<1>1. ASSUME Parts PROVE UdpResultTellsTable
  <2>1. ASSUME part = "give up"
        PROVE  /\ Expiring!Udp!TypeOK /\ Expiring!Udp!ResultTellsTable
               /\ Expiring!Udp!BindingWaits /\ Expiring!Udp!WaitersListed
    <3>1. Expiring!BindInv BY <1>1, <2>1 DEF Parts
    <3>2. Expiring!Udp!WaitersListed BY <3>1, Assumed, Expiring!InvListed
    <3> QED BY <3>1, <3>2 DEF Expiring!BindInv, Expiring!PortsTrue, Expiring!WaitersTrue,
                              Expiring!Udp!BindingWaits
  <2>2. ASSUME part = "ports"
        PROVE  /\ Caching!Udp!TypeOK /\ Caching!Udp!ResultTellsTable
               /\ Caching!Udp!WaitersListed
    <3>1. Caching!BindInv BY <1>1, <2>2 DEF Parts
    <3>2. Caching!Udp!WaitersListed BY <3>1, Assumed, Caching!InvListed
    <3> QED BY <3>1, <3>2 DEF Caching!BindInv, Caching!PortsTrue
  <2> QED BY <2>1, <2>2, SamePorts, SameGiveUp DEF UdpResultTellsTable
<1> QED BY <1>1, PartsInvariant, PTL

(* Of clients: however SYN, RST, relisten, accept, unaccept and unlisten    *)
(* meet, a client has one server socket or one place in the queue, each SYN *)
(* packet is at one place or released, no client waits beside an idle       *)
(* socket, and a request names exactly the sockets that listen.             *)
THEOREM ClientsStayAccounted == Spec => []ClientsAccounted
<1>1. ASSUME Parts PROVE ClientsAccounted
  <2>1. ASSUME part = "listen"
        PROVE  /\ Listening!Listen!TypeOK /\ Listening!Listen!OneConnectionPerSource
               /\ Listening!Listen!PacketsAccounted
               /\ Listening!Listen!NobodyWaitsBesideListener
    <3>1. Listening!ListenInv BY <1>1, <2>1 DEF Parts
    <3>2. Listening!Listen!TypeOK BY <3>1 DEF Listening!ListenInv
    <3>3. Listening!Listen!NobodyWaitsBesideListener
      BY <3>1 DEF Listening!ListenInv, Listening!Requests,
                  Listening!Listen!NobodyWaitsBesideListener
    <3>4. Listening!Listen!OneConnectionPerSource
      BY <3>1, Assumed, Listening!InvOneConnection
    <3>5. Listening!Listen!PacketsAccounted BY <3>1, Assumed, Listening!InvAccounted
    <3> QED BY <3>2, <3>3, <3>4, <3>5
  <2>2. ASSUME part = "listen ports"
        PROVE  Relistening!Listen!TypeOK /\ Relistening!Listen!ListenersServed
    <3>1. Relistening!ListenInv BY <1>1, <2>2 DEF Parts
    <3>2. Relistening!Listen!TypeOK BY <3>1 DEF Relistening!ListenInv
    <3>3. Relistening!Listen!ListenersServed BY <3>1, Assumed, Relistening!InvServed
    <3> QED BY <3>2, <3>3
  <2> QED BY <2>1, <2>2, SameListening, SameRelistening DEF ClientsAccounted
<1> QED BY <1>1, PartsInvariant, PTL

(* Of the ARP cache: under all its services the count its walks go by is    *)
(* that of the active dynamic entries, a packet waits where an answer or    *)
(* the end of the retries finds it, and the period asks for no address      *)
(* through an interface that was taken away.                                *)
THEOREM ArpStaysConsistent == Spec => []ArpConsistent
<1>1. ASSUME Parts PROVE ArpConsistent
  <2>1. ASSUME part = "arp"
        PROVE  /\ Caching!TypeOK /\ Caching!CountsActive /\ Caching!WaitsWhereAnswered
               /\ Caching!AsksThroughInterface
    <3>1. Caching!IInv BY <1>1, <2>1 DEF Parts
    <3>2. Caching!TypeOK BY <3>1, Assumed, Caching!InvTyped
    <3>3. Caching!CountsActive BY <3>1, Assumed, Caching!InvCounts
    <3>4. Caching!WaitsWhereAnswered BY <3>1 DEF Caching!IInv, Caching!Cache
    <3>5. Caching!AsksThroughInterface BY <3>1, Assumed, Caching!InvAsks
    <3> QED BY <3>2, <3>3, <3>4, <3>5
  <2> QED BY <2>1, SameCaching DEF ArpConsistent
<1> QED BY <1>1, PartsInvariant, PTL
-----------------------------------------------------------------------------
(* The queue of the part that listens, as its proofs name it,               *)
LEMMA SameBacklogs == Listen!Backlogs = Listening!Listen!Backlogs
BY ZenonT(60) DEF
    Listen!Backlogs, Listening!Listen!Backlogs, Listen!BacklogOf, Listening!Listen!BacklogOf,
    Listen!At, Listening!Listen!At, Listen!SourceOf, Listening!Listen!SourceOf, Listen!Linked,
    Listening!Listen!Linked

(* whose steps are those of the backlog promised.                           *)
LEMMA SameBacklog ==
  /\ Promised!Next <=> Listening!Backlog!Next
  /\ Promised!Init <=> Listening!Backlog!Init
<1>1. Promised!Next <=> Listening!Backlog!Next
  BY ZenonT(60) DEF
    Promised!Next, Listening!Backlog!Next, Promised!Arrive, Listening!Backlog!Arrive,
    Promised!Close, Listening!Backlog!Close, Promised!Serve, Listening!Backlog!Serve,
    Promised!Withdraw, Listening!Backlog!Withdraw, Promised!Waits, Listening!Backlog!Waits,
    Listen!Backlogs, Listening!Listen!Backlogs, Listen!BacklogOf, Listening!Listen!BacklogOf,
    Listen!At, Listening!Listen!At, Listen!SourceOf, Listening!Listen!SourceOf, Listen!Linked,
    Listening!Listen!Linked
<1>2. Promised!Init <=> Listening!Backlog!Init
  BY ZenonT(60) DEF
    Promised!Init, Listening!Backlog!Init,
    Listen!Backlogs, Listening!Listen!Backlogs, Listen!BacklogOf, Listening!Listen!BacklogOf,
    Listen!At, Listening!Listen!At, Listen!SourceOf, Listening!Listen!SourceOf, Listen!Linked,
    Listening!Listen!Linked
<1> QED BY <1>1, <1>2

(* The linked queues of SYN packets implement the backlog a listen request  *)
(* promises: at most MaxQueue sources wait, oldest first; one more drives   *)
(* out the oldest, a RST takes back that of its source, relisten serves the *)
(* oldest and unlisten closes all.                                          *)
THEOREM BacklogIsImplemented == Spec => ImplementsBacklog
<1> DEFINE kept == IF part = "listen" THEN Listen!Backlogs ELSE [p \in OnePort |-> <<>>]
<1>1. ASSUME Init PROVE Backlog!Init
  <2>1. CASE part = "listen"
    <3>1. Listening!Backlog!Init
      BY <1>1, <2>1, Assumed, SameListening, Listening!InitOfBacklog DEF Init
    <3>2. kept = Listen!Backlogs BY <2>1
    <3> QED BY <3>1, <3>2, SameBacklog DEF Backlog!Init, Promised!Init
  <2>2. CASE part # "listen"
    BY <2>2 DEF Backlog!Init
  <2> QED BY <2>1, <2>2
<1>2. ASSUME Parts, [Next]_vars PROVE [Backlog!Next]_kept
  <2>0. part' = part BY <1>2, StepsOfParts
  <2>1. CASE part = "listen"
    <3>1. [Listening!Backlog!Next]_(Listening!Listen!Backlogs)
      <4>1. Listening!ListenInv /\ [Listening!Listen!Next]_(Listening!Listen!vars)
        BY <1>2, <2>1, StepsOfParts DEF Parts
      <4> QED BY <4>1, Assumed, Listening!StepOfBacklog
    <3>2. Listen!Backlogs' = Listening!Listen!Backlogs'
      BY ZenonT(60) DEF
         Listen!Backlogs, Listening!Listen!Backlogs, Listen!BacklogOf,
         Listening!Listen!BacklogOf, Listen!At, Listening!Listen!At, Listen!SourceOf,
         Listening!Listen!SourceOf, Listen!Linked, Listening!Listen!Linked
    <3>3. [Promised!Next]_(Listen!Backlogs)
      BY <3>1, <3>2, SameBacklogs, SameBacklog
    <3>4. kept = Listen!Backlogs /\ kept' = Listen!Backlogs' BY <2>0, <2>1
    <3>5. CASE UNCHANGED Listen!Backlogs BY <3>4, <3>5
    <3>6. CASE Promised!Next
      <4>1. ASSUME NEW p \in OnePort, NEW x \in Sources, Promised!Arrive(p, x)
            PROVE  Backlog!Arrive(p, x)
        <5>1. ~ (\E k \in DOMAIN kept[p] : kept[p][k] = x)
          <6> HIDE DEF kept
          <6> QED BY <3>4, <4>1 DEF Promised!Arrive, Promised!Waits
        <5>2. kept' = [kept EXCEPT ![p] =
                IF Len(@) < 2 THEN Append(@, x) ELSE Tail(Append(@, x))]
          <6> HIDE DEF kept
          <6> QED BY <3>4, <4>1, Zenon DEF Promised!Arrive
        <5> QED BY <5>1, <5>2, Zenon DEF Backlog!Arrive, Backlog!Waits
      <4>2. ASSUME NEW p \in OnePort, NEW x \in Sources, Promised!Withdraw(p, x)
            PROVE  Backlog!Withdraw(p, x)
        <5>1. \E k \in DOMAIN kept[p] :
                /\ kept[p][k] = x
                /\ kept' = [kept EXCEPT ![p] =
                              SubSeq(@, 1, k - 1) \o SubSeq(@, k + 1, Len(@))]
          <6> HIDE DEF kept
          <6> QED BY <3>4, <4>2, Zenon DEF Promised!Withdraw
        <5> QED BY <5>1, Zenon DEF Backlog!Withdraw
      <4>3. ASSUME NEW p \in OnePort, Promised!Serve(p) PROVE Backlog!Serve(p)
        <5>1. kept[p] # <<>> /\ kept' = [kept EXCEPT ![p] = Tail(@)]
          <6> HIDE DEF kept
          <6> QED BY <3>4, <4>3, Zenon DEF Promised!Serve
        <5> QED BY <5>1, Zenon DEF Backlog!Serve
      <4>4. ASSUME NEW p \in OnePort, Promised!Close(p) PROVE Backlog!Close(p)
        <5>1. kept' = [kept EXCEPT ![p] = <<>>]
          <6> HIDE DEF kept
          <6> QED BY <3>4, <4>4, Zenon DEF Promised!Close
        <5> QED BY <5>1, Zenon DEF Backlog!Close
      <4> QED BY <3>6, <4>1, <4>2, <4>3, <4>4, Zenon DEF Promised!Next, Backlog!Next
    <3> QED BY <3>3, <3>5, <3>6
  <2>2. CASE part # "listen"
    BY <2>0, <2>2
  <2> QED BY <2>1, <2>2
<1> QED BY <1>1, <1>2, PartsInvariant, PTL DEF Spec, ImplementsBacklog, Backlog!Spec
=============================================================================
