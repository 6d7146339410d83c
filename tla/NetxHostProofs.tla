---------------------------- MODULE NetxHostProofs --------------------------
(***************************************************************************)
(* Proofs of what MCNetxHost checks of the Wi-Fi module's sockets, of pool *)
(* delete, UDP unbind and the ARP cache, as NetxSocketsProofs has them for *)
(* MCNetxSockets: what is shown of each component for any values of its    *)
(* constants holds of the part that runs.                                  *)
(*                                                                         *)
(* A part and the module its proofs are about are the same module with the *)
(* same parameters: the lemmas named Same say so of the definitions used.  *)
(* NetxTcpTransmitQueueProofs has the proofs about the driver, and         *)
(* NetxPortsProofs those about pool delete.                                *)
(***************************************************************************)
EXTENDS MCNetxHost, FiniteSetTheorems, TLAPS

OfTcp == INSTANCE NetxTcpTransmitQueueProofs WITH
  Tcp <- Three, Udp <- {}, SlotCount <- 2, ClientPorts <- {1}, ServerPorts <- {3},
  ListenCallback <- TRUE, OpenMayFail <- FALSE, Early <- {}, AcceptWaits <- FALSE,
  Packets <- {}, QueueMaximum <- 1, Writers <- 1, sending <- None,
  mark <- None, txDone <- None, app <- None, sentCount <- None, open <- None, pc <- None
OfWaits == INSTANCE NetxTcpTransmitQueueProofs WITH
  Tcp <- Two, Udp <- {}, SlotCount <- 1, ClientPorts <- {1}, ServerPorts <- {3},
  ListenCallback <- TRUE, OpenMayFail <- FALSE, Early <- {}, AcceptWaits <- TRUE,
  Packets <- {}, QueueMaximum <- 1, Writers <- 1, sending <- None,
  mark <- None, txDone <- None, app <- None, sentCount <- None, open <- None, pc <- None
OfUdp == INSTANCE NetxTcpTransmitQueueProofs WITH
  Tcp <- {}, Udp <- Three, SlotCount <- 3, ClientPorts <- {1, 2}, ServerPorts <- {},
  ListenCallback <- TRUE, OpenMayFail <- FALSE, Early <- {}, AcceptWaits <- FALSE,
  Packets <- {}, QueueMaximum <- 1, Writers <- 1, sending <- None,
  mark <- None, txDone <- None, app <- None, sentCount <- None, open <- None, pc <- None
OfDelete == INSTANCE NetxPortsProofs WITH
  Total <- 1, ULongMax <- 7,
  Sockets <- {}, Ports <- {}, Packets <- {}, QueueMaximum <- 1,
  DriverThread <- FALSE, PreemptUnbind <- FALSE,
  Sources <- {}, MaxQueue <- 0, MaxRequests <- 0, Declines <- {}, LateAccept <- FALSE,
  active <- None, listener <- None, head <- None, tail <- None, source <- None,
  pool <- None, peer <- None, waiter <- None
OfUnbind == INSTANCE NetxPortsProofs WITH
  Sockets <- One, Ports <- One, Threads <- Two, Packets <- Datagrams, QueueMaximum <- 2,
  DriverThread <- FALSE, PreemptUnbind <- FALSE,
  Sources <- {}, MaxQueue <- 0, MaxRequests <- 0, Declines <- {}, LateAccept <- FALSE,
  Total <- 0, ULongMax <- 0,
  active <- None, listener <- None, head <- None, tail <- None, source <- None,
  pool <- None, peer <- None, waiter <- None
OfArp == INSTANCE NetxArpCacheProofs WITH
  Entries <- Three, Addresses <- Two, Packets <- One, UpdateRate <- 1, ExpirationRate <- 1,
  MaxRetries <- 1, MaxQueue <- 1, Services <- {"set", "static", "static delete", "invalidate"},
  Sockets <- {}, Ports <- {}, MaxWaiting <- 0, GiveUp <- FALSE,
  inProgress <- None, previous <- None, result <- None, unbinding <- None
OfArpForEver == INSTANCE NetxArpCacheProofs WITH
  Entries <- Three, Addresses <- Three, Packets <- One, UpdateRate <- 1, ExpirationRate <- 0,
  MaxRetries <- 1, MaxQueue <- 1, Services <- {"invalidate"},
  Sockets <- {}, Ports <- {}, MaxWaiting <- 0, GiveUp <- FALSE,
  inProgress <- None, previous <- None, result <- None, unbinding <- None

-----------------------------------------------------------------------------
(* What is used of the driver's TCP sockets,                                *)
LEMMA SameTcp ==
  /\ Offload!OffloadAssumption <=> OfTcp!Wifi!OffloadAssumption
  /\ Offload!Init <=> OfTcp!Wifi!Init
  /\ Offload!Next <=> OfTcp!Wifi!Next
  /\ Offload!TypeOK <=> OfTcp!Wifi!TypeOK
  /\ Offload!UserOwnsSlot <=> OfTcp!Wifi!UserOwnsSlot
  /\ Offload!LinkTellsState <=> OfTcp!Wifi!LinkTellsState
  /\ Offload!ListenerServed <=> OfTcp!Wifi!ListenerServed
  /\ Offload!SlotsAccounted <=> OfTcp!Wifi!SlotsAccounted
  /\ Offload!CloseWaitMeansClosed <=> OfTcp!Wifi!CloseWaitMeansClosed
<1>1. Offload!OffloadAssumption <=> OfTcp!Wifi!OffloadAssumption
  BY ZenonT(60) DEF
    Offload!OffloadAssumption, OfTcp!Wifi!OffloadAssumption, Offload!NoRequest,
    OfTcp!Wifi!NoRequest, Offload!Ports, OfTcp!Wifi!Ports, Offload!Sockets, OfTcp!Wifi!Sockets
<1>2. Offload!Init <=> OfTcp!Wifi!Init
  BY ZenonT(60) DEF
    Offload!Init, OfTcp!Wifi!Init, Offload!NoRequest, OfTcp!Wifi!NoRequest, Offload!Slots,
    OfTcp!Wifi!Slots, Offload!Sockets, OfTcp!Wifi!Sockets, Offload!UnusedSlot,
    OfTcp!Wifi!UnusedSlot
<1>3. Offload!Next <=> OfTcp!Wifi!Next
  BY ZenonT(60) DEF
    Offload!Next, OfTcp!Wifi!Next, Offload!Accept, OfTcp!Wifi!Accept, Offload!AcceptEnds,
    OfTcp!Wifi!AcceptEnds, Offload!AcceptReturns, OfTcp!Wifi!AcceptReturns,
    Offload!AcceptSuspends, OfTcp!Wifi!AcceptSuspends, Offload!Connect, OfTcp!Wifi!Connect,
    Offload!Disconnect, OfTcp!Wifi!Disconnect, Offload!DriverThread, OfTcp!Wifi!DriverThread,
    Offload!Listen, OfTcp!Wifi!Listen, Offload!PeerCloses, OfTcp!Wifi!PeerCloses,
    Offload!PeerConnects, OfTcp!Wifi!PeerConnects, Offload!Relisten, OfTcp!Wifi!Relisten,
    Offload!Slots, OfTcp!Wifi!Slots, Offload!UdpBind, OfTcp!Wifi!UdpBind, Offload!UdpSend,
    OfTcp!Wifi!UdpSend, Offload!UdpUnbind, OfTcp!Wifi!UdpUnbind, Offload!Unaccept,
    OfTcp!Wifi!Unaccept, Offload!Unlisten, OfTcp!Wifi!Unlisten, Offload!Listening,
    OfTcp!Wifi!Listening, Offload!acceptOnly, OfTcp!Wifi!acceptOnly, Offload!WaitFails,
    OfTcp!Wifi!WaitFails, Offload!acceptVars, OfTcp!Wifi!acceptVars, Offload!moduleVars,
    OfTcp!Wifi!moduleVars, Offload!tableVars, OfTcp!Wifi!tableVars, Offload!Connected,
    OfTcp!Wifi!Connected, Offload!FreeSlot, OfTcp!Wifi!FreeSlot, Offload!Outcomes,
    OfTcp!Wifi!Outcomes, Offload!Closes, OfTcp!Wifi!Closes, Offload!MayDisconnect,
    OfTcp!Wifi!MayDisconnect, Offload!Establish, OfTcp!Wifi!Establish, Offload!ReceiveClosed,
    OfTcp!Wifi!ReceiveClosed, Offload!DriverListen, OfTcp!Wifi!DriverListen, Offload!NoRequest,
    OfTcp!Wifi!NoRequest, Offload!StopServer, OfTcp!Wifi!StopServer, Offload!UnlistenSlot,
    OfTcp!Wifi!UnlistenSlot, Offload!stackVars, OfTcp!Wifi!stackVars, Offload!UdpUnbindSlot,
    OfTcp!Wifi!UdpUnbindSlot, Offload!First, OfTcp!Wifi!First, Offload!MayEstablish,
    OfTcp!Wifi!MayEstablish, Offload!MayReceiveClosed, OfTcp!Wifi!MayReceiveClosed,
    Offload!ListenResult, OfTcp!Wifi!ListenResult, Offload!TcpSlot, OfTcp!Wifi!TcpSlot,
    Offload!Awaiting, OfTcp!Wifi!Awaiting, Offload!Polled, OfTcp!Wifi!Polled
<1>4. Offload!TypeOK <=> OfTcp!Wifi!TypeOK
  BY ZenonT(60) DEF
    Offload!TypeOK, OfTcp!Wifi!TypeOK, Offload!NoRequest, OfTcp!Wifi!NoRequest, Offload!Ports,
    OfTcp!Wifi!Ports, Offload!Slots, OfTcp!Wifi!Slots, Offload!Sockets, OfTcp!Wifi!Sockets
<1>5. Offload!UserOwnsSlot <=> OfTcp!Wifi!UserOwnsSlot
  BY ZenonT(60) DEF
    Offload!UserOwnsSlot, OfTcp!Wifi!UserOwnsSlot, Offload!Slots, OfTcp!Wifi!Slots,
    Offload!Sockets, OfTcp!Wifi!Sockets, Offload!Uses, OfTcp!Wifi!Uses, Offload!Connected,
    OfTcp!Wifi!Connected
<1>6. Offload!LinkTellsState <=> OfTcp!Wifi!LinkTellsState
  BY ZenonT(60) DEF
    Offload!LinkTellsState, OfTcp!Wifi!LinkTellsState, Offload!Slots, OfTcp!Wifi!Slots,
    Offload!Sockets, OfTcp!Wifi!Sockets, Offload!Uses, OfTcp!Wifi!Uses, Offload!Connected,
    OfTcp!Wifi!Connected
<1>7. Offload!ListenerServed <=> OfTcp!Wifi!ListenerServed
  BY ZenonT(60) DEF
    Offload!ListenerServed, OfTcp!Wifi!ListenerServed, Offload!Listening, OfTcp!Wifi!Listening
<1>8. Offload!SlotsAccounted <=> OfTcp!Wifi!SlotsAccounted
  BY ZenonT(60) DEF
    Offload!SlotsAccounted, OfTcp!Wifi!SlotsAccounted, Offload!NoRequest, OfTcp!Wifi!NoRequest,
    Offload!Slots, OfTcp!Wifi!Slots, Offload!Uses, OfTcp!Wifi!Uses, Offload!Connected,
    OfTcp!Wifi!Connected
<1>9. Offload!CloseWaitMeansClosed <=> OfTcp!Wifi!CloseWaitMeansClosed
  BY ZenonT(60) DEF
    Offload!CloseWaitMeansClosed, OfTcp!Wifi!CloseWaitMeansClosed
<1> QED BY <1>1, <1>2, <1>3, <1>4, <1>5, <1>6, <1>7, <1>8, <1>9

(* with a time to wait in accept,                                          *)
LEMMA SameWaits ==
  /\ OffloadWaits!OffloadAssumption <=> OfWaits!Wifi!OffloadAssumption
  /\ OffloadWaits!Init <=> OfWaits!Wifi!Init
  /\ OffloadWaits!Next <=> OfWaits!Wifi!Next
  /\ OffloadWaits!TypeOK <=> OfWaits!Wifi!TypeOK
  /\ OffloadWaits!UserOwnsSlot <=> OfWaits!Wifi!UserOwnsSlot
  /\ OffloadWaits!LinkTellsState <=> OfWaits!Wifi!LinkTellsState
  /\ OffloadWaits!ListenerServed <=> OfWaits!Wifi!ListenerServed
  /\ OffloadWaits!SlotsAccounted <=> OfWaits!Wifi!SlotsAccounted
  /\ OffloadWaits!CloseWaitMeansClosed <=> OfWaits!Wifi!CloseWaitMeansClosed
<1>1. OffloadWaits!OffloadAssumption <=> OfWaits!Wifi!OffloadAssumption
  BY ZenonT(60) DEF
    OffloadWaits!OffloadAssumption, OfWaits!Wifi!OffloadAssumption, OffloadWaits!NoRequest,
    OfWaits!Wifi!NoRequest, OffloadWaits!Ports, OfWaits!Wifi!Ports, OffloadWaits!Sockets,
    OfWaits!Wifi!Sockets
<1>2. OffloadWaits!Init <=> OfWaits!Wifi!Init
  BY ZenonT(60) DEF
    OffloadWaits!Init, OfWaits!Wifi!Init, OffloadWaits!NoRequest, OfWaits!Wifi!NoRequest,
    OffloadWaits!Slots, OfWaits!Wifi!Slots, OffloadWaits!Sockets, OfWaits!Wifi!Sockets,
    OffloadWaits!UnusedSlot, OfWaits!Wifi!UnusedSlot
<1>3. OffloadWaits!Next <=> OfWaits!Wifi!Next
  BY ZenonT(60) DEF
    OffloadWaits!Next, OfWaits!Wifi!Next, OffloadWaits!Accept, OfWaits!Wifi!Accept,
    OffloadWaits!AcceptEnds, OfWaits!Wifi!AcceptEnds, OffloadWaits!AcceptReturns,
    OfWaits!Wifi!AcceptReturns, OffloadWaits!AcceptSuspends, OfWaits!Wifi!AcceptSuspends,
    OffloadWaits!Connect, OfWaits!Wifi!Connect, OffloadWaits!Disconnect,
    OfWaits!Wifi!Disconnect, OffloadWaits!DriverThread, OfWaits!Wifi!DriverThread,
    OffloadWaits!Listen, OfWaits!Wifi!Listen, OffloadWaits!PeerCloses, OfWaits!Wifi!PeerCloses,
    OffloadWaits!PeerConnects, OfWaits!Wifi!PeerConnects, OffloadWaits!Relisten,
    OfWaits!Wifi!Relisten, OffloadWaits!Slots, OfWaits!Wifi!Slots, OffloadWaits!UdpBind,
    OfWaits!Wifi!UdpBind, OffloadWaits!UdpSend, OfWaits!Wifi!UdpSend, OffloadWaits!UdpUnbind,
    OfWaits!Wifi!UdpUnbind, OffloadWaits!Unaccept, OfWaits!Wifi!Unaccept, OffloadWaits!Unlisten,
    OfWaits!Wifi!Unlisten, OffloadWaits!Listening, OfWaits!Wifi!Listening,
    OffloadWaits!acceptOnly, OfWaits!Wifi!acceptOnly, OffloadWaits!WaitFails,
    OfWaits!Wifi!WaitFails, OffloadWaits!acceptVars, OfWaits!Wifi!acceptVars,
    OffloadWaits!moduleVars, OfWaits!Wifi!moduleVars, OffloadWaits!tableVars,
    OfWaits!Wifi!tableVars, OffloadWaits!Connected, OfWaits!Wifi!Connected,
    OffloadWaits!FreeSlot, OfWaits!Wifi!FreeSlot, OffloadWaits!Outcomes, OfWaits!Wifi!Outcomes,
    OffloadWaits!Closes, OfWaits!Wifi!Closes, OffloadWaits!MayDisconnect,
    OfWaits!Wifi!MayDisconnect, OffloadWaits!Establish, OfWaits!Wifi!Establish,
    OffloadWaits!ReceiveClosed, OfWaits!Wifi!ReceiveClosed, OffloadWaits!DriverListen,
    OfWaits!Wifi!DriverListen, OffloadWaits!NoRequest, OfWaits!Wifi!NoRequest,
    OffloadWaits!StopServer, OfWaits!Wifi!StopServer, OffloadWaits!UnlistenSlot,
    OfWaits!Wifi!UnlistenSlot, OffloadWaits!stackVars, OfWaits!Wifi!stackVars,
    OffloadWaits!UdpUnbindSlot, OfWaits!Wifi!UdpUnbindSlot, OffloadWaits!First,
    OfWaits!Wifi!First, OffloadWaits!MayEstablish, OfWaits!Wifi!MayEstablish,
    OffloadWaits!MayReceiveClosed, OfWaits!Wifi!MayReceiveClosed, OffloadWaits!ListenResult,
    OfWaits!Wifi!ListenResult, OffloadWaits!TcpSlot, OfWaits!Wifi!TcpSlot,
    OffloadWaits!Awaiting, OfWaits!Wifi!Awaiting, OffloadWaits!Polled, OfWaits!Wifi!Polled
<1>4. OffloadWaits!TypeOK <=> OfWaits!Wifi!TypeOK
  BY ZenonT(60) DEF
    OffloadWaits!TypeOK, OfWaits!Wifi!TypeOK, OffloadWaits!NoRequest, OfWaits!Wifi!NoRequest,
    OffloadWaits!Ports, OfWaits!Wifi!Ports, OffloadWaits!Slots, OfWaits!Wifi!Slots,
    OffloadWaits!Sockets, OfWaits!Wifi!Sockets
<1>5. OffloadWaits!UserOwnsSlot <=> OfWaits!Wifi!UserOwnsSlot
  BY ZenonT(60) DEF
    OffloadWaits!UserOwnsSlot, OfWaits!Wifi!UserOwnsSlot, OffloadWaits!Slots,
    OfWaits!Wifi!Slots, OffloadWaits!Sockets, OfWaits!Wifi!Sockets, OffloadWaits!Uses,
    OfWaits!Wifi!Uses, OffloadWaits!Connected, OfWaits!Wifi!Connected
<1>6. OffloadWaits!LinkTellsState <=> OfWaits!Wifi!LinkTellsState
  BY ZenonT(60) DEF
    OffloadWaits!LinkTellsState, OfWaits!Wifi!LinkTellsState, OffloadWaits!Slots,
    OfWaits!Wifi!Slots, OffloadWaits!Sockets, OfWaits!Wifi!Sockets, OffloadWaits!Uses,
    OfWaits!Wifi!Uses, OffloadWaits!Connected, OfWaits!Wifi!Connected
<1>7. OffloadWaits!ListenerServed <=> OfWaits!Wifi!ListenerServed
  BY ZenonT(60) DEF
    OffloadWaits!ListenerServed, OfWaits!Wifi!ListenerServed, OffloadWaits!Listening,
    OfWaits!Wifi!Listening
<1>8. OffloadWaits!SlotsAccounted <=> OfWaits!Wifi!SlotsAccounted
  BY ZenonT(60) DEF
    OffloadWaits!SlotsAccounted, OfWaits!Wifi!SlotsAccounted, OffloadWaits!NoRequest,
    OfWaits!Wifi!NoRequest, OffloadWaits!Slots, OfWaits!Wifi!Slots, OffloadWaits!Uses,
    OfWaits!Wifi!Uses, OffloadWaits!Connected, OfWaits!Wifi!Connected
<1>9. OffloadWaits!CloseWaitMeansClosed <=> OfWaits!Wifi!CloseWaitMeansClosed
  BY ZenonT(60) DEF
    OffloadWaits!CloseWaitMeansClosed, OfWaits!Wifi!CloseWaitMeansClosed
<1> QED BY <1>1, <1>2, <1>3, <1>4, <1>5, <1>6, <1>7, <1>8, <1>9

(* of UDP sockets,                                                          *)
LEMMA SameUdp ==
  /\ OffloadUdp!OffloadAssumption <=> OfUdp!Wifi!OffloadAssumption
  /\ OffloadUdp!Init <=> OfUdp!Wifi!Init
  /\ OffloadUdp!Next <=> OfUdp!Wifi!Next
  /\ OffloadUdp!TypeOK <=> OfUdp!Wifi!TypeOK
  /\ OffloadUdp!UserOwnsSlot <=> OfUdp!Wifi!UserOwnsSlot
  /\ OffloadUdp!LinkTellsState <=> OfUdp!Wifi!LinkTellsState
<1>1. OffloadUdp!OffloadAssumption <=> OfUdp!Wifi!OffloadAssumption
  BY ZenonT(60) DEF
    OffloadUdp!OffloadAssumption, OfUdp!Wifi!OffloadAssumption, OffloadUdp!NoRequest,
    OfUdp!Wifi!NoRequest, OffloadUdp!Ports, OfUdp!Wifi!Ports, OffloadUdp!Sockets,
    OfUdp!Wifi!Sockets
<1>2. OffloadUdp!Init <=> OfUdp!Wifi!Init
  BY ZenonT(60) DEF
    OffloadUdp!Init, OfUdp!Wifi!Init, OffloadUdp!NoRequest, OfUdp!Wifi!NoRequest,
    OffloadUdp!Slots, OfUdp!Wifi!Slots, OffloadUdp!Sockets, OfUdp!Wifi!Sockets,
    OffloadUdp!UnusedSlot, OfUdp!Wifi!UnusedSlot
<1>3. OffloadUdp!Next <=> OfUdp!Wifi!Next
  BY ZenonT(60) DEF
    OffloadUdp!Next, OfUdp!Wifi!Next, OffloadUdp!Accept, OfUdp!Wifi!Accept,
    OffloadUdp!AcceptEnds, OfUdp!Wifi!AcceptEnds, OffloadUdp!AcceptReturns,
    OfUdp!Wifi!AcceptReturns, OffloadUdp!AcceptSuspends, OfUdp!Wifi!AcceptSuspends,
    OffloadUdp!Connect, OfUdp!Wifi!Connect, OffloadUdp!Disconnect, OfUdp!Wifi!Disconnect,
    OffloadUdp!DriverThread, OfUdp!Wifi!DriverThread, OffloadUdp!Listen, OfUdp!Wifi!Listen,
    OffloadUdp!PeerCloses, OfUdp!Wifi!PeerCloses, OffloadUdp!PeerConnects,
    OfUdp!Wifi!PeerConnects, OffloadUdp!Relisten, OfUdp!Wifi!Relisten, OffloadUdp!Slots,
    OfUdp!Wifi!Slots, OffloadUdp!UdpBind, OfUdp!Wifi!UdpBind, OffloadUdp!UdpSend,
    OfUdp!Wifi!UdpSend, OffloadUdp!UdpUnbind, OfUdp!Wifi!UdpUnbind, OffloadUdp!Unaccept,
    OfUdp!Wifi!Unaccept, OffloadUdp!Unlisten, OfUdp!Wifi!Unlisten, OffloadUdp!Listening,
    OfUdp!Wifi!Listening, OffloadUdp!acceptOnly, OfUdp!Wifi!acceptOnly, OffloadUdp!WaitFails,
    OfUdp!Wifi!WaitFails, OffloadUdp!acceptVars, OfUdp!Wifi!acceptVars, OffloadUdp!moduleVars,
    OfUdp!Wifi!moduleVars, OffloadUdp!tableVars, OfUdp!Wifi!tableVars, OffloadUdp!Connected,
    OfUdp!Wifi!Connected, OffloadUdp!FreeSlot, OfUdp!Wifi!FreeSlot, OffloadUdp!Outcomes,
    OfUdp!Wifi!Outcomes, OffloadUdp!Closes, OfUdp!Wifi!Closes, OffloadUdp!MayDisconnect,
    OfUdp!Wifi!MayDisconnect, OffloadUdp!Establish, OfUdp!Wifi!Establish,
    OffloadUdp!ReceiveClosed, OfUdp!Wifi!ReceiveClosed, OffloadUdp!DriverListen,
    OfUdp!Wifi!DriverListen, OffloadUdp!NoRequest, OfUdp!Wifi!NoRequest, OffloadUdp!StopServer,
    OfUdp!Wifi!StopServer, OffloadUdp!UnlistenSlot, OfUdp!Wifi!UnlistenSlot,
    OffloadUdp!stackVars, OfUdp!Wifi!stackVars, OffloadUdp!UdpUnbindSlot,
    OfUdp!Wifi!UdpUnbindSlot, OffloadUdp!First, OfUdp!Wifi!First, OffloadUdp!MayEstablish,
    OfUdp!Wifi!MayEstablish, OffloadUdp!MayReceiveClosed, OfUdp!Wifi!MayReceiveClosed,
    OffloadUdp!ListenResult, OfUdp!Wifi!ListenResult, OffloadUdp!TcpSlot, OfUdp!Wifi!TcpSlot,
    OffloadUdp!Awaiting, OfUdp!Wifi!Awaiting, OffloadUdp!Polled, OfUdp!Wifi!Polled
<1>4. OffloadUdp!TypeOK <=> OfUdp!Wifi!TypeOK
  BY ZenonT(60) DEF
    OffloadUdp!TypeOK, OfUdp!Wifi!TypeOK, OffloadUdp!NoRequest, OfUdp!Wifi!NoRequest,
    OffloadUdp!Ports, OfUdp!Wifi!Ports, OffloadUdp!Slots, OfUdp!Wifi!Slots, OffloadUdp!Sockets,
    OfUdp!Wifi!Sockets
<1>5. OffloadUdp!UserOwnsSlot <=> OfUdp!Wifi!UserOwnsSlot
  BY ZenonT(60) DEF
    OffloadUdp!UserOwnsSlot, OfUdp!Wifi!UserOwnsSlot, OffloadUdp!Slots, OfUdp!Wifi!Slots,
    OffloadUdp!Sockets, OfUdp!Wifi!Sockets, OffloadUdp!Uses, OfUdp!Wifi!Uses,
    OffloadUdp!Connected, OfUdp!Wifi!Connected
<1>6. OffloadUdp!LinkTellsState <=> OfUdp!Wifi!LinkTellsState
  BY ZenonT(60) DEF
    OffloadUdp!LinkTellsState, OfUdp!Wifi!LinkTellsState, OffloadUdp!Slots, OfUdp!Wifi!Slots,
    OffloadUdp!Sockets, OfUdp!Wifi!Sockets, OffloadUdp!Uses, OfUdp!Wifi!Uses,
    OffloadUdp!Connected, OfUdp!Wifi!Connected
<1> QED BY <1>1, <1>2, <1>3, <1>4, <1>5, <1>6

(* of pool delete,                                                          *)
LEMMA SameDelete ==
  /\ PoolDelete!DeleteAssumption <=> OfDelete!Pool!DeleteAssumption
  /\ PoolDelete!Init <=> OfDelete!Pool!Init
  /\ PoolDelete!Next <=> OfDelete!Pool!Next
  /\ PoolDelete!TypeOK <=> OfDelete!Pool!TypeOK
  /\ PoolDelete!DeleteWakesAll <=> OfDelete!Pool!DeleteWakesAll
  /\ PoolDelete!WalkCounts <=> OfDelete!Pool!WalkCounts
<1>1. PoolDelete!DeleteAssumption <=> OfDelete!Pool!DeleteAssumption
  BY ZenonT(60) DEF
    PoolDelete!DeleteAssumption, OfDelete!Pool!DeleteAssumption, PoolDelete!Cardinality,
    OfDelete!Pool!Cardinality, PoolDelete!IsFiniteSet, OfDelete!Pool!IsFiniteSet
<1>2. PoolDelete!Init <=> OfDelete!Pool!Init
  BY ZenonT(60) DEF
    PoolDelete!Init, OfDelete!Pool!Init
<1>3. PoolDelete!Next <=> OfDelete!Pool!Next
  BY ZenonT(60) DEF
    PoolDelete!Next, OfDelete!Pool!Next, PoolDelete!Allocate, OfDelete!Pool!Allocate,
    PoolDelete!AllocateWait, OfDelete!Pool!AllocateWait, PoolDelete!Delete,
    OfDelete!Pool!Delete, PoolDelete!Release, OfDelete!Pool!Release, PoolDelete!Timeout,
    OfDelete!Pool!Timeout, PoolDelete!deleteVars, OfDelete!Pool!deleteVars, PoolDelete!listVars,
    OfDelete!Pool!listVars, PoolDelete!threadVars, OfDelete!Pool!threadVars,
    PoolDelete!poolVars, OfDelete!Pool!poolVars, PoolDelete!DeleteCount,
    OfDelete!Pool!DeleteCount, PoolDelete!DeleteLoop, OfDelete!Pool!DeleteLoop,
    PoolDelete!DeleteMove, OfDelete!Pool!DeleteMove, PoolDelete!DeleteResume,
    OfDelete!Pool!DeleteResume, PoolDelete!DeleteStart, OfDelete!Pool!DeleteStart,
    PoolDelete!Down, OfDelete!Pool!Down, PoolDelete!Unlink, OfDelete!Pool!Unlink
<1>4. PoolDelete!TypeOK <=> OfDelete!Pool!TypeOK
  BY ZenonT(60) DEF
    PoolDelete!TypeOK, OfDelete!Pool!TypeOK
<1>5. PoolDelete!DeleteWakesAll <=> OfDelete!Pool!DeleteWakesAll
  BY ZenonT(60) DEF
    PoolDelete!DeleteWakesAll, OfDelete!Pool!DeleteWakesAll, PoolDelete!Cardinality,
    OfDelete!Pool!Cardinality, PoolDelete!Suspended, OfDelete!Pool!Suspended
<1>6. PoolDelete!WalkCounts <=> OfDelete!Pool!WalkCounts
  BY ZenonT(60) DEF
    PoolDelete!WalkCounts, OfDelete!Pool!WalkCounts, PoolDelete!Cardinality,
    OfDelete!Pool!Cardinality, PoolDelete!Suspended, OfDelete!Pool!Suspended
<1> QED BY <1>1, <1>2, <1>3, <1>4, <1>5, <1>6

(* of UDP unbind,                                                           *)
LEMMA SameUnbind ==
  /\ Unbind!ReceiveAssumption <=> OfUnbind!ReceiveAssumption
  /\ Unbind!Init <=> OfUnbind!Init
  /\ Unbind!Next <=> OfUnbind!Next
  /\ Unbind!TypeOK <=> OfUnbind!TypeOK
<1>1. Unbind!ReceiveAssumption <=> OfUnbind!ReceiveAssumption
  BY ZenonT(60) DEF
    Unbind!ReceiveAssumption, OfUnbind!ReceiveAssumption, Unbind!IsFiniteSet,
    OfUnbind!IsFiniteSet
<1>2. Unbind!Init <=> OfUnbind!Init
  BY ZenonT(60) DEF
    Unbind!Init, OfUnbind!Init, Unbind!NoUnbind, OfUnbind!NoUnbind
<1>3. Unbind!Next <=> OfUnbind!Next
  BY ZenonT(60) DEF
    Unbind!Next, OfUnbind!Next, Unbind!Bind, OfUnbind!Bind, Unbind!Create, OfUnbind!Create,
    Unbind!Delete, OfUnbind!Delete, Unbind!DriverDeliver, OfUnbind!DriverDeliver,
    Unbind!DriverDrop, OfUnbind!DriverDrop, Unbind!DriverFind, OfUnbind!DriverFind,
    Unbind!IpReceive, OfUnbind!IpReceive, Unbind!IsrReceive, OfUnbind!IsrReceive,
    Unbind!ReceiveExpires, OfUnbind!ReceiveExpires, Unbind!ReceiveQueued,
    OfUnbind!ReceiveQueued, Unbind!ReceiveWait, OfUnbind!ReceiveWait, Unbind!Release,
    OfUnbind!Release, Unbind!UnbindClear, OfUnbind!UnbindClear, Unbind!UnbindCount,
    OfUnbind!UnbindCount, Unbind!UnbindFlush, OfUnbind!UnbindFlush, Unbind!UnbindTable,
    OfUnbind!UnbindTable, Unbind!UnbindWalk, OfUnbind!UnbindWalk, Unbind!Bound, OfUnbind!Bound,
    Unbind!Found, OfUnbind!Found, Unbind!MutexFree, OfUnbind!MutexFree, Unbind!packetVars,
    OfUnbind!packetVars, Unbind!queueVars, OfUnbind!queueVars, Unbind!waitVars,
    OfUnbind!waitVars, Unbind!Deliver, OfUnbind!Deliver, Unbind!tableVars, OfUnbind!tableVars,
    Unbind!Leave, OfUnbind!Leave, Unbind!MayPreempt, OfUnbind!MayPreempt, Unbind!Suspend,
    OfUnbind!Suspend, Unbind!NoUnbind, OfUnbind!NoUnbind, Unbind!Ring, OfUnbind!Ring,
    Unbind!Queued, OfUnbind!Queued, Unbind!Passes, OfUnbind!Passes
<1>4. Unbind!TypeOK <=> OfUnbind!TypeOK
  BY ZenonT(60) DEF
    Unbind!TypeOK, OfUnbind!TypeOK, Unbind!Cardinality, OfUnbind!Cardinality
<1> QED BY <1>1, <1>2, <1>3, <1>4

(* and of the ARP cache, with entries that grow old                         *)
LEMMA SameArp ==
  /\ Arp!ArpAssumption <=> OfArp!ArpAssumption
  /\ Arp!Init <=> OfArp!Init
  /\ Arp!Next <=> OfArp!Next
  /\ Arp!TypeOK <=> OfArp!TypeOK
<1>1. Arp!ArpAssumption <=> OfArp!ArpAssumption
  BY ZenonT(60) DEF
    Arp!ArpAssumption, OfArp!ArpAssumption, Arp!IsFiniteSet, OfArp!IsFiniteSet
<1>2. Arp!Init <=> OfArp!Init
  BY ZenonT(60) DEF
    Arp!Init, OfArp!Init, Arp!Cardinality, OfArp!Cardinality, Arp!ToSet, OfArp!ToSet
<1>3. Arp!Next <=> OfArp!Next
  BY ZenonT(60) DEF
    Arp!Next, OfArp!Next, Arp!Ask, OfArp!Ask, Arp!Delete, OfArp!Delete, Arp!Invalidate,
    OfArp!Invalidate, Arp!MutexFree, OfArp!MutexFree, Arp!PeriodicUpdate, OfArp!PeriodicUpdate,
    Arp!Receive, OfArp!Receive, Arp!ReceiveNew, OfArp!ReceiveNew, Arp!SendAllocate,
    OfArp!SendAllocate, Arp!SendKnown, OfArp!SendKnown, Arp!SendWait, OfArp!SendWait, Arp!Set,
    OfArp!Set, Arp!StaticDelete, OfArp!StaticDelete, Arp!StaticMove, OfArp!StaticMove,
    Arp!StaticNew, OfArp!StaticNew, Arp!Allocate, OfArp!Allocate, Arp!Filled, OfArp!Filled,
    Arp!Found, OfArp!Found, Arp!Released, OfArp!Released, Arp!Without, OfArp!Without,
    Arp!Active, OfArp!Active, Arp!Cardinality, OfArp!Cardinality, Arp!Kept, OfArp!Kept,
    Arp!PeriodAge, OfArp!PeriodAge, Arp!PeriodAsk, OfArp!PeriodAsk, Arp!PeriodGiveUp,
    OfArp!PeriodGiveUp, Arp!PeriodStart, OfArp!PeriodStart, Arp!Waiting, OfArp!Waiting,
    Arp!Rotated, OfArp!Rotated, Arp!StaticFilled, OfArp!StaticFilled, Arp!Front, OfArp!Front,
    Arp!Last, OfArp!Last, Arp!ToSet, OfArp!ToSet, Arp!WalkOn, OfArp!WalkOn, Arp!Behind,
    OfArp!Behind
<1>4. Arp!TypeOK <=> OfArp!TypeOK
  BY ZenonT(60) DEF
    Arp!TypeOK, OfArp!TypeOK, Arp!Cardinality, OfArp!Cardinality, Arp!ToSet, OfArp!ToSet
<1> QED BY <1>1, <1>2, <1>3, <1>4

(* and with entries that do not.                                            *)
LEMMA SameArpForEver ==
  /\ ArpForEver!ArpAssumption <=> OfArpForEver!ArpAssumption
  /\ ArpForEver!Init <=> OfArpForEver!Init
  /\ ArpForEver!Next <=> OfArpForEver!Next
  /\ ArpForEver!TypeOK <=> OfArpForEver!TypeOK
<1>1. ArpForEver!ArpAssumption <=> OfArpForEver!ArpAssumption
  BY ZenonT(60) DEF
    ArpForEver!ArpAssumption, OfArpForEver!ArpAssumption, ArpForEver!IsFiniteSet,
    OfArpForEver!IsFiniteSet
<1>2. ArpForEver!Init <=> OfArpForEver!Init
  BY ZenonT(60) DEF
    ArpForEver!Init, OfArpForEver!Init, ArpForEver!Cardinality, OfArpForEver!Cardinality,
    ArpForEver!ToSet, OfArpForEver!ToSet
<1>3. ArpForEver!Next <=> OfArpForEver!Next
  BY ZenonT(60) DEF
    ArpForEver!Next, OfArpForEver!Next, ArpForEver!Ask, OfArpForEver!Ask, ArpForEver!Delete,
    OfArpForEver!Delete, ArpForEver!Invalidate, OfArpForEver!Invalidate, ArpForEver!MutexFree,
    OfArpForEver!MutexFree, ArpForEver!PeriodicUpdate, OfArpForEver!PeriodicUpdate,
    ArpForEver!Receive, OfArpForEver!Receive, ArpForEver!ReceiveNew, OfArpForEver!ReceiveNew,
    ArpForEver!SendAllocate, OfArpForEver!SendAllocate, ArpForEver!SendKnown,
    OfArpForEver!SendKnown, ArpForEver!SendWait, OfArpForEver!SendWait, ArpForEver!Set,
    OfArpForEver!Set, ArpForEver!StaticDelete, OfArpForEver!StaticDelete, ArpForEver!StaticMove,
    OfArpForEver!StaticMove, ArpForEver!StaticNew, OfArpForEver!StaticNew, ArpForEver!Allocate,
    OfArpForEver!Allocate, ArpForEver!Filled, OfArpForEver!Filled, ArpForEver!Found,
    OfArpForEver!Found, ArpForEver!Released, OfArpForEver!Released, ArpForEver!Without,
    OfArpForEver!Without, ArpForEver!Active, OfArpForEver!Active, ArpForEver!Cardinality,
    OfArpForEver!Cardinality, ArpForEver!Kept, OfArpForEver!Kept, ArpForEver!PeriodAge,
    OfArpForEver!PeriodAge, ArpForEver!PeriodAsk, OfArpForEver!PeriodAsk,
    ArpForEver!PeriodGiveUp, OfArpForEver!PeriodGiveUp, ArpForEver!PeriodStart,
    OfArpForEver!PeriodStart, ArpForEver!Waiting, OfArpForEver!Waiting, ArpForEver!Rotated,
    OfArpForEver!Rotated, ArpForEver!StaticFilled, OfArpForEver!StaticFilled, ArpForEver!Front,
    OfArpForEver!Front, ArpForEver!Last, OfArpForEver!Last, ArpForEver!ToSet,
    OfArpForEver!ToSet, ArpForEver!WalkOn, OfArpForEver!WalkOn, ArpForEver!Behind,
    OfArpForEver!Behind
<1>4. ArpForEver!TypeOK <=> OfArpForEver!TypeOK
  BY ZenonT(60) DEF
    ArpForEver!TypeOK, OfArpForEver!TypeOK, ArpForEver!Cardinality, OfArpForEver!Cardinality,
    ArpForEver!ToSet, OfArpForEver!ToSet
<1> QED BY <1>1, <1>2, <1>3, <1>4

(* What a thread that waits in the pool is told, in a step.                 *)
LEMMA SameTold == ASSUME NEW t \in Threads PROVE PoolDelete!Told(t) <=> OfDelete!Pool!Told(t)
BY ZenonT(60) DEF
    PoolDelete!Told, OfDelete!Pool!Told

-----------------------------------------------------------------------------
(* What each part keeps of itself while it runs.                            *)
Parts ==
  /\ part = "offload" => OfTcp!TableInv
  /\ part = "offload waits" => OfWaits!TableInv
  /\ part = "offload udp" => OfUdp!OffloadInv
  /\ part = "delete" => OfDelete!DeleteInv
  /\ part = "unbind" => OfUnbind!IInv
  /\ part = "arp" => OfArp!IInv
  /\ part = "arp for ever" => OfArpForEver!IInv

(* The queue of the driver's other proofs is given no packets.              *)
LEMMA NoQueue ==
  /\ OfTcp!IsFiniteSet({}) /\ OfWaits!IsFiniteSet({}) /\ OfUdp!IsFiniteSet({})
  /\ 1 \in Nat \ {0}
<1>1. IsFiniteSet({}) BY FS_EmptySet
<1> QED BY <1>1 DEF IsFiniteSet, OfTcp!IsFiniteSet, OfWaits!IsFiniteSet, OfUdp!IsFiniteSet

LEMMA Assumed ==
  /\ OfTcp!Given /\ OfWaits!Given /\ OfUdp!Given
  /\ OfDelete!Pool!DeleteAssumption /\ OfUnbind!Calm
  /\ OfArp!ArpAssumption /\ OfArpForEver!ArpAssumption
<1>1. /\ OfTcp!Wifi!OffloadAssumption /\ OfWaits!Wifi!OffloadAssumption
      /\ OfUdp!Wifi!OffloadAssumption
      /\ OfDelete!Pool!DeleteAssumption /\ OfUnbind!ReceiveAssumption
      /\ OfArp!ArpAssumption /\ OfArpForEver!ArpAssumption
  BY HostAssumption, SameTcp, SameWaits, SameUdp, SameDelete, SameUnbind, SameArp,
     SameArpForEver
<1>2. OfTcp!Given BY <1>1 DEF OfTcp!Given, OfTcp!Plain, OfTcp!Room
<1>3. OfUdp!Given
  <2>1. IsFiniteSet(Three) /\ Cardinality(Three) <= 3
    BY HostAssumption DEF Arp!ArpAssumption, Arp!IsFiniteSet, IsFiniteSet
  <2>2. OfUdp!Wifi!Sockets = Three BY DEF OfUdp!Wifi!Sockets
  <2>3. IsFiniteSet({}) /\ Cardinality({}) = 0 BY FS_EmptySet
  <2>4. Cardinality(Three) \in Nat BY <2>1, FS_CardinalityType
  <2>5. 3 >= Cardinality(OfUdp!Wifi!Sockets) + Cardinality({}) BY <2>1, <2>2, <2>3, <2>4
  <2>6. 3 >= OfUdp!Cardinality(OfUdp!Wifi!Sockets) + OfUdp!Cardinality({})
    BY <2>5 DEF Cardinality, OfUdp!Cardinality
  <2>7. OfUdp!IsFiniteSet(OfUdp!Wifi!Sockets)
    BY <2>1, <2>2 DEF IsFiniteSet, OfUdp!IsFiniteSet
  <2> QED BY <1>1, <2>6, <2>7, NoQueue DEF OfUdp!Given, OfUdp!Plain, OfUdp!Room
<1>4. OfWaits!Given BY <1>1 DEF OfWaits!Given, OfWaits!Plain, OfWaits!Room
<1>5. OfUnbind!Calm BY <1>1 DEF OfUnbind!Calm
<1> QED BY <1>1, <1>2, <1>3, <1>4, <1>5

(* The part that runs starts as it does alone,                              *)
LEMMA InitParts == ASSUME Init PROVE Parts
<1>1. ASSUME part = "offload" PROVE OfTcp!TableInv
  BY <1>1, Assumed, NoQueue, SameTcp, OfTcp!TableInvInit DEF Init
<1>7. ASSUME part = "offload waits" PROVE OfWaits!TableInv
  BY <1>7, Assumed, NoQueue, SameWaits, OfWaits!TableInvInit DEF Init
<1>2. ASSUME part = "offload udp" PROVE OfUdp!OffloadInv
  BY <1>2, Assumed, NoQueue, SameUdp, OfUdp!InitTrue DEF Init
<1>3. ASSUME part = "delete" PROVE OfDelete!DeleteInv
  <2>1. OfDelete!Pool!DeleteAssumption /\ OfDelete!Pool!Init
    BY <1>3, Assumed, SameDelete DEF Init
  <2> QED BY <2>1, OfDelete!DeleteInit
<1>4. ASSUME part = "unbind" PROVE OfUnbind!IInv
  BY <1>4, Assumed, SameUnbind, OfUnbind!InitInv DEF Init
<1>5. ASSUME part = "arp" PROVE OfArp!IInv
  BY <1>5, Assumed, SameArp, OfArp!InitTrue DEF Init
<1>6. ASSUME part = "arp for ever" PROVE OfArpForEver!IInv
  BY <1>6, Assumed, SameArpForEver, OfArpForEver!InitTrue DEF Init
<1> QED BY <1>1, <1>2, <1>3, <1>4, <1>5, <1>6, <1>7 DEF Parts

(* and takes its own steps, or none.                                        *)
LEMMA StepsOfParts ==
  ASSUME [Next]_vars
  PROVE  /\ part' = part
         /\ part = "offload" => [OfTcp!Wifi!Next]_(OfTcp!Wifi!vars)
         /\ part = "offload waits" => [OfWaits!Wifi!Next]_(OfWaits!Wifi!vars)
         /\ part = "offload udp" => [OfUdp!Wifi!Next]_(OfUdp!Wifi!vars)
         /\ part = "delete" => [OfDelete!Pool!Next]_(OfDelete!Pool!vars)
         /\ part = "unbind" => [OfUnbind!Next]_(OfUnbind!vars)
         /\ part = "arp" => [OfArp!Next]_(OfArp!vars)
         /\ part = "arp for ever" => [OfArpForEver!Next]_(OfArpForEver!vars)
<1>1. CASE Next
  BY <1>1, SameTcp, SameWaits, SameUdp, SameDelete, SameUnbind, SameArp, SameArpForEver
  DEF Next
<1>2. CASE UNCHANGED vars
  <2>1. part' = part BY <1>2 DEF vars
  <2>2. UNCHANGED <<OfTcp!Wifi!vars, OfWaits!Wifi!vars, OfUdp!Wifi!vars>>
    BY <1>2 DEF vars, onlyOffload, OfTcp!Wifi!vars, OfTcp!Wifi!tableVars,
                OfTcp!Wifi!stackVars, OfTcp!Wifi!acceptVars, OfTcp!Wifi!moduleVars,
                OfWaits!Wifi!vars, OfWaits!Wifi!tableVars, OfWaits!Wifi!stackVars,
                OfWaits!Wifi!acceptVars, OfWaits!Wifi!moduleVars,
                OfUdp!Wifi!vars, OfUdp!Wifi!tableVars, OfUdp!Wifi!stackVars,
                OfUdp!Wifi!acceptVars, OfUdp!Wifi!moduleVars
  <2>3. UNCHANGED OfDelete!Pool!vars
    BY <1>2 DEF vars, threads, onlyDelete, OfDelete!Pool!vars, OfDelete!Pool!poolVars,
                OfDelete!Pool!listVars, OfDelete!Pool!threadVars, OfDelete!Pool!deleteVars
  <2>4. UNCHANGED OfUnbind!vars
    BY <1>2 DEF vars, threads, onlyUdp, OfUnbind!vars, OfUnbind!tableVars,
                OfUnbind!queueVars, OfUnbind!waitVars, OfUnbind!packetVars
  <2>5. UNCHANGED OfArp!vars /\ UNCHANGED OfArpForEver!vars
    BY <1>2 DEF vars, onlyArp, OfArp!vars, OfArpForEver!vars
  <2> QED BY <2>1, <2>2, <2>3, <2>4, <2>5
<1> QED BY <1>1, <1>2

LEMMA PartsKeep == ASSUME Parts, [Next]_vars PROVE Parts'
<1>1. ASSUME part' = "offload" PROVE OfTcp!TableInv'
  <2>1. OfTcp!TableInv /\ [OfTcp!Wifi!Next]_(OfTcp!Wifi!vars) BY <1>1, StepsOfParts DEF Parts
  <2> QED BY <2>1, Assumed, NoQueue, OfTcp!TableInvKept
<1>7. ASSUME part' = "offload waits" PROVE OfWaits!TableInv'
  <2>1. OfWaits!TableInv /\ [OfWaits!Wifi!Next]_(OfWaits!Wifi!vars)
    BY <1>7, StepsOfParts DEF Parts
  <2> QED BY <2>1, Assumed, NoQueue, OfWaits!TableInvKept
<1>2. ASSUME part' = "offload udp" PROVE OfUdp!OffloadInv'
  <2>1. OfUdp!OffloadInv /\ [OfUdp!Wifi!Next]_(OfUdp!Wifi!vars) BY <1>2, StepsOfParts DEF Parts
  <2> QED BY <2>1, Assumed, NoQueue, OfUdp!StepKeeps
<1>3. ASSUME part' = "delete" PROVE OfDelete!DeleteInv'
  <2>1. OfDelete!DeleteInv /\ [OfDelete!Pool!Next]_(OfDelete!Pool!vars)
    BY <1>3, StepsOfParts DEF Parts
  <2> QED BY <2>1, Assumed, OfDelete!DeleteStepKeeps
<1>4. ASSUME part' = "unbind" PROVE OfUnbind!IInv'
  <2>1. OfUnbind!IInv /\ [OfUnbind!Next]_(OfUnbind!vars) BY <1>4, StepsOfParts DEF Parts
  <2> QED BY <2>1, Assumed, OfUnbind!StepKeeps
<1>5. ASSUME part' = "arp" PROVE OfArp!IInv'
  <2>1. OfArp!IInv /\ [OfArp!Next]_(OfArp!vars) BY <1>5, StepsOfParts DEF Parts
  <2> QED BY <2>1, Assumed, OfArp!StepKeeps
<1>6. ASSUME part' = "arp for ever" PROVE OfArpForEver!IInv'
  <2>1. OfArpForEver!IInv /\ [OfArpForEver!Next]_(OfArpForEver!vars)
    BY <1>6, StepsOfParts DEF Parts
  <2> QED BY <2>1, Assumed, OfArpForEver!StepKeeps
<1> QED BY <1>1, <1>2, <1>3, <1>4, <1>5, <1>6, <1>7 DEF Parts

(* Whatever part runs, it keeps its invariant (of DHCP nothing is said).    *)
THEOREM PartsInvariant == Spec => []Parts
<1>1. Init => Parts BY InitParts
<1>2. Parts /\ [Next]_vars => Parts' BY PartsKeep
<1> QED BY <1>1, <1>2, PTL DEF Spec

-----------------------------------------------------------------------------
(* The driver's table, the Wi-Fi module and the sockets agree: a user owns  *)
(* its slot, the module has a connection for exactly the connected sockets, *)
(* a listener is served, and a socket is told that its peer closed only     *)
(* when it did, until accept writes LISTEN over a socket that has gone on;  *)
(* and no slot is lost, even then.  The other parts' variables have their   *)
(* types.                                                                   *)
THEOREM OffloadStaysConsistent == Spec => []OffloadConsistent
<1>1. ASSUME Parts PROVE OffloadConsistent
  <2>1. ASSUME part = "offload"
        PROVE  /\ OfTcp!Wifi!TypeOK /\ OfTcp!Wifi!UserOwnsSlot /\ OfTcp!Wifi!LinkTellsState
               /\ OfTcp!Wifi!ListenerServed /\ OfTcp!Wifi!SlotsAccounted
               /\ OfTcp!Wifi!CloseWaitMeansClosed
    <3>1. OfTcp!OffloadInv /\ OfTcp!TableHeld BY <1>1, <2>1 DEF Parts, OfTcp!TableInv
    <3>2. OfTcp!Wifi!TypeOK BY <3>1 DEF OfTcp!OffloadInv
    <3>3. OfTcp!Wifi!UserOwnsSlot BY <3>1, Assumed, NoQueue, OfTcp!InvOwnsSlot
    <3>4. OfTcp!Wifi!LinkTellsState BY <3>1, Assumed, NoQueue, OfTcp!InvLinked
    <3>5. OfTcp!Wifi!ListenerServed BY <3>1, Assumed, NoQueue, OfTcp!InvServed
    <3>6. OfTcp!Wifi!SlotsAccounted BY <3>1, <3>2, Assumed, NoQueue, OfTcp!HeldAccounted
    <3>7. OfTcp!Wifi!CloseWaitMeansClosed BY <3>1, NoQueue, OfTcp!InvCloseWait
    <3> QED BY <3>2, <3>3, <3>4, <3>5, <3>6, <3>7
  <2>7. ASSUME part = "offload waits"
        PROVE  /\ OfWaits!Wifi!TypeOK /\ OfWaits!Wifi!UserOwnsSlot /\ OfWaits!Wifi!LinkTellsState
               /\ OfWaits!Wifi!ListenerServed /\ OfWaits!Wifi!SlotsAccounted
               /\ OfWaits!Wifi!CloseWaitMeansClosed
    <3>1. OfWaits!OffloadInv /\ OfWaits!TableHeld BY <1>1, <2>7 DEF Parts, OfWaits!TableInv
    <3>2. OfWaits!Wifi!TypeOK BY <3>1 DEF OfWaits!OffloadInv
    <3>3. OfWaits!Wifi!UserOwnsSlot BY <3>1, Assumed, NoQueue, OfWaits!InvOwnsSlot
    <3>4. OfWaits!Wifi!LinkTellsState BY <3>1, Assumed, NoQueue, OfWaits!InvLinked
    <3>5. OfWaits!Wifi!ListenerServed BY <3>1, Assumed, NoQueue, OfWaits!InvServed
    <3>6. OfWaits!Wifi!SlotsAccounted BY <3>1, <3>2, Assumed, NoQueue, OfWaits!HeldAccounted
    <3>7. OfWaits!Wifi!CloseWaitMeansClosed BY <3>1, NoQueue, OfWaits!InvCloseWait
    <3> QED BY <3>2, <3>3, <3>4, <3>5, <3>6, <3>7
  <2>2. ASSUME part = "offload udp"
        PROVE  OfUdp!Wifi!TypeOK /\ OfUdp!Wifi!UserOwnsSlot /\ OfUdp!Wifi!LinkTellsState
    <3>1. OfUdp!OffloadInv BY <1>1, <2>2 DEF Parts
    <3>2. OfUdp!Wifi!TypeOK BY <3>1 DEF OfUdp!OffloadInv
    <3>3. OfUdp!Wifi!UserOwnsSlot BY <3>1, Assumed, NoQueue, OfUdp!InvOwnsSlot
    <3>4. OfUdp!Wifi!LinkTellsState BY <3>1, Assumed, NoQueue, OfUdp!InvLinked
    <3> QED BY <3>2, <3>3, <3>4
  <2>3. ASSUME part = "delete" PROVE OfDelete!Pool!TypeOK
    <3>1. OfDelete!DeleteInv BY <1>1, <2>3 DEF Parts
    <3> QED BY <3>1, Assumed, OfDelete!DeleteSays
  <2>4. ASSUME part = "unbind" PROVE OfUnbind!TypeOK
    <3>1. OfUnbind!IInv BY <1>1, <2>4 DEF Parts
    <3> QED BY <3>1, Assumed, OfUnbind!InvSays
  <2>5. ASSUME part = "arp" PROVE OfArp!TypeOK
    <3>1. OfArp!IInv BY <1>1, <2>5 DEF Parts
    <3> QED BY <3>1, Assumed, OfArp!InvTyped
  <2>6. ASSUME part = "arp for ever" PROVE OfArpForEver!TypeOK
    <3>1. OfArpForEver!IInv BY <1>1, <2>6 DEF Parts
    <3> QED BY <3>1, Assumed, OfArpForEver!InvTyped
  <2> QED BY <2>1, <2>2, <2>3, <2>4, <2>5, <2>6, <2>7, SameTcp, SameWaits, SameUdp, SameDelete,
             SameUnbind, SameArp, SameArpForEver DEF OffloadConsistent
<1> QED BY <1>1, PartsInvariant, PTL

(* Deleting a pool resumes every waiter but one for each packet that an     *)
(* interrupt handler releases meanwhile; and while it releases none the     *)
(* walk is always at a waiter, its count is that of those left, and who is  *)
(* resumed by it is told that the pool was deleted.                         *)
THEOREM DeleteWakesAllOfThem == Spec => DeleteWakesAll
<1> DEFINE Woken == part = "delete" => PoolDelete!DeleteWakesAll /\ PoolDelete!WalkCounts
<1>1. ASSUME Parts PROVE Woken
  <2> SUFFICES ASSUME part = "delete"
               PROVE  PoolDelete!DeleteWakesAll /\ PoolDelete!WalkCounts
    OBVIOUS
  <2>1. OfDelete!DeleteInv BY <1>1 DEF Parts
  <2>2. OfDelete!Pool!DeleteWakesAll /\ OfDelete!Pool!WalkCounts
    BY <2>1, Assumed, OfDelete!DeleteSays
  <2> QED BY <2>2, SameDelete
<1>2. ASSUME Parts, [Next]_vars
      PROVE  part = "delete" => \A t \in Threads : PoolDelete!Told(t)
  <2> SUFFICES ASSUME part = "delete", NEW t \in Threads PROVE PoolDelete!Told(t)
    OBVIOUS
  <2>1. OfDelete!DeleteInv /\ [OfDelete!Pool!Next]_(OfDelete!Pool!vars)
    BY <1>2, StepsOfParts DEF Parts
  <2>2. OfDelete!Pool!Told(t) BY <2>1, Assumed, OfDelete!DeleteTells
  <2> QED BY <2>2, SameTold
<1> QED BY <1>1, <1>2, PartsInvariant, PTL DEF Spec, DeleteWakesAll
=============================================================================
