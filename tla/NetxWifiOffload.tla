--------------------------- MODULE NetxWifiOffload --------------------------
(***************************************************************************)
(* TCP/IP offload to the Wi-Fi module: the driver's table of module        *)
(* sockets, shared by the offload handler, which the TCP and UDP services  *)
(* call, and by the driver thread, which polls every slot.  The services   *)
(* and a turn of the thread over one slot run under the IP mutex, except   *)
(* that accept tests the state before it takes the mutex and, after a wait *)
(* that failed, writes it without.                                         *)
(* (nx_driver_stm32l4.c, nx_tcp_socket_driver_establish.c,                 *)
(* nx_tcp_socket_driver_packet_receive.c and the offload branches of       *)
(* connect, disconnect, listen, relisten, unaccept, unlisten, and of UDP   *)
(* bind, unbind and send)                                                  *)
(*                                                                         *)
(* Data is left out: a poll looks only at whether the peer has closed.     *)
(* The module (link, server, pending) is external.                         *)
(***************************************************************************)
EXTENDS Integers, FiniteSets

CONSTANTS
  Tcp, Udp,        \* sockets of the two kinds
  None,            \* NX_NULL
  SlotCount,       \* NX_DRIVER_SOCKETS_MAXIMUM
  ClientPorts,     \* local ports clients and UDP sockets bind
  ServerPorts,     \* local ports servers listen on
  ListenCallback,  \* the application gives listen a callback
  OpenMayFail,     \* the module may refuse to open or to listen
  AcceptWaits,     \* accept may be given a time to wait
  Early            \* services called before a connection is disconnected

Slots == 0..(SlotCount - 1)
Ports == ClientPorts \cup ServerPorts
Sockets == Tcp \cup Udp
NoRequest == "no request"

OffloadAssumption ==
  /\ SlotCount \in Nat \ {0} /\ {None, NoRequest} \cap Sockets = {} /\ None # NoRequest
  /\ Tcp \cap Udp = {} /\ Ports \subseteq Nat \ {0}
  /\ {ListenCallback, OpenMayFail, AcceptWaits} \subseteq BOOLEAN
  /\ Early \subseteq {"relisten", "unaccept", "unlisten"}

VARIABLES
  slot,     \* nx_driver_sockets; rport is 0 or 1: only "is it zero" is asked
  context,  \* nx_tcp_socket_tcpip_offload_context, nx_udp_socket_...
  state,    \* nx_tcp_socket_state
  port,     \* nx_tcp_socket_port
  bound,    \* nx_tcp_socket_bound_next of a server, nx_udp_socket_bound_next
  request,  \* active listen request of a port: none, or its socket or NULL
  accept,   \* the thread in accept: it tested the state, waits, or has failed
  struck,   \* accept has written LISTEN over a socket that had gone on (history)
  link,     \* the module's connection of a slot
  server,   \* the module listens on a slot
  pending   \* a peer waits to be accepted there

tableVars == <<slot, context>>
acceptVars == <<accept, struck>>
stackVars == <<state, port, bound, request, acceptVars>>
moduleVars == <<link, server, pending>>
vars == <<tableVars, stackVars, moduleVars>>

UnusedSlot == [owner |-> None, proto |-> "none", lport |-> 0, rport |-> 0,
               conn |-> FALSE, client |-> FALSE]

Init ==
  /\ slot = [i \in Slots |-> UnusedSlot]
  /\ context = [s \in Sockets |-> 0]
  /\ state = [s \in Tcp |-> "CLOSED"] /\ port = [s \in Tcp |-> 0]
  /\ bound = [s \in Sockets |-> FALSE]
  /\ request = [p \in ServerPorts |-> NoRequest]
  /\ accept = [s \in Tcp |-> "none"] /\ struck = FALSE
  /\ link = [i \in Slots |-> "none"]
  /\ server = [i \in Slots |-> FALSE] /\ pending = [i \in Slots |-> FALSE]

-----------------------------------------------------------------------------
(* The handler's loops end at the first slot that fits, or at SlotCount.    *)
First(S) == IF S = {} THEN SlotCount ELSE CHOOSE i \in S : \A j \in S : i <= j
FreeSlot == First({i \in Slots : slot[i].owner = None})
TcpSlot(t, p) == First({i \in Slots : t[i].lport = p /\ t[i].proto = "TCP"})

Connected(s) == state[s] \in {"ESTABLISHED", "CLOSE_WAIT"}

Outcomes == IF OpenMayFail THEN {TRUE, FALSE} ELSE {TRUE}

(* The possible results of the LISTEN operation: a slot that has the port   *)
(* already, connected or not; no free slot; a new one, whose server the     *)
(* module starts or refuses.                                                *)
ListenResult(ok, t, i, started) ==
  [ok |-> ok, slot |-> t, index |-> i,
   server |-> IF started THEN [server EXCEPT ![i] = TRUE] ELSE server]

DriverListen(s, p) ==
  LET d == TcpSlot(slot, p)
      f == FreeSlot
  IN IF d # SlotCount
       THEN IF slot[d].conn
              THEN {ListenResult(FALSE, slot, context[s], FALSE)}
              ELSE {ListenResult(TRUE, [slot EXCEPT ![d].owner = s], d, FALSE)}
     ELSE IF f = SlotCount
       THEN {ListenResult(FALSE, slot, context[s], FALSE)}
     ELSE {IF ok
             THEN ListenResult(TRUE,
                    [slot EXCEPT ![f] = [owner |-> s, proto |-> "TCP", lport |-> p,
                                         rport |-> 0, conn |-> FALSE, client |-> FALSE]],
                    f, TRUE)
             ELSE ListenResult(FALSE, [slot EXCEPT ![f].owner = s], f, FALSE)
           : ok \in Outcomes}

(* The UNLISTEN operation on table t and servers v.                         *)
UnlistenSlot(t, p) ==
  LET i == TcpSlot(t, p)
  IN IF i = SlotCount THEN t ELSE [t EXCEPT ![i].owner = None, ![i].lport = 0]
StopServer(t, v, p) ==
  LET i == TcpSlot(t, p) IN IF i = SlotCount THEN v ELSE [v EXCEPT ![i] = FALSE]

-----------------------------------------------------------------------------
(* _nxd_tcp_client_socket_driver_connect of a closed socket bound to port   *)
(* p: with no free slot, refused by the module, or connected at once.       *)
Connect(s, p) ==
  LET i == FreeSlot
  IN /\ state[s] = "CLOSED" /\ ~ bound[s] /\ accept[s] = "none" /\ i # SlotCount
     /\ \A o \in Tcp \ {s} : Connected(o) => port[o] # p
     /\ context' = [context EXCEPT ![s] = i]
     /\ \E ok \in Outcomes :
          IF ok
            THEN /\ slot' = [slot EXCEPT ![i].owner = s, ![i].lport = p, ![i].rport = 1,
                                         ![i].proto = "TCP", ![i].client = TRUE]
                 /\ state' = [state EXCEPT ![s] = "ESTABLISHED"]
                 /\ link' = [link EXCEPT ![i] = "open"]
            ELSE slot' = [slot EXCEPT ![i].owner = s] /\ UNCHANGED <<state, link>>
     /\ port' = [port EXCEPT ![s] = p]
     /\ UNCHANGED <<bound, request, acceptVars, server, pending>>

(* _nx_tcp_connect_cleanup when a time-out or a disconnect ends the wait of *)
(* accept: the socket listens again, whatever it did since the test.        *)
Listening(s) == state[s] \in {"LISTEN", "SYN_RECEIVED"}
WaitFails(s) ==
  /\ state' = [state EXCEPT ![s] = "LISTEN"]
  /\ accept' = [accept EXCEPT ![s] = "failed"]
  /\ struck' = (struck \/ ~ Listening(s))

(* _nx_tcp_socket_disconnect does something for a socket with a connection  *)
(* or one that waits for a peer; who waits in accept is resumed.            *)
MayDisconnect(s) == Connected(s) \/ (state[s] = "SYN_RECEIVED" /\ bound[s])
Closes(s) ==
  IF accept[s] = "waiting" THEN WaitFails(s)
  ELSE state' = [state EXCEPT ![s] = "CLOSED"] /\ UNCHANGED acceptVars

(* Mistake: disconnect keeps a client's slot.                               *)
DisconnectKeepSlot(s) ==
  /\ MayDisconnect(s)
  /\ link' = [link EXCEPT ![context[s]] = "none"]
  /\ slot' = [slot EXCEPT ![context[s]].conn = FALSE]
  /\ Closes(s)
  /\ UNCHANGED <<context, port, bound, request, server, pending>>

(* _nx_tcp_socket_disconnect, and DISCONNECT of the driver: a client's slot *)
(* is free again, a server's keeps listening.                               *)
Disconnect(s) ==
  LET i == context[s]
  IN /\ MayDisconnect(s)
     /\ link' = [link EXCEPT ![i] = IF slot[i].rport = 0 THEN @ ELSE "none"]
     /\ slot' = [slot EXCEPT ![i] =
                   IF @.rport # 0 /\ ~ @.client THEN [@ EXCEPT !.conn = FALSE]
                   ELSE [@ EXCEPT !.owner = None]]
     /\ Closes(s)
     /\ UNCHANGED <<context, port, bound, request, server, pending>>

-----------------------------------------------------------------------------
(* _nx_tcp_server_socket_listen: if the driver refuses, the request is      *)
(* withdrawn with unlisten, the driver's part included.                     *)
Listen(s, p) ==
  /\ state[s] = "CLOSED" /\ ~ bound[s] /\ accept[s] = "none" /\ request[p] = NoRequest
  /\ port' = [port EXCEPT ![s] = p]
  /\ \E r \in DriverListen(s, p) :
       /\ context' = [context EXCEPT ![s] = r.index]
       /\ IF r.ok
            THEN /\ slot' = r.slot /\ server' = r.server
                 /\ state' = [state EXCEPT ![s] = "LISTEN"]
                 /\ request' = [request EXCEPT ![p] = s]
            ELSE /\ slot' = UnlistenSlot(r.slot, p)
                 /\ server' = StopServer(r.slot, r.server, p)
                 /\ UNCHANGED <<state, request>>
  /\ UNCHANGED <<bound, acceptVars, link, pending>>

(* _nx_tcp_server_socket_relisten: the SYN queue stays empty, as no segment *)
(* reaches the host's TCP.                                                  *)
Relisten(s, p) ==
  /\ state[s] = "CLOSED" /\ ~ bound[s] /\ accept[s] = "none" /\ request[p] = None
  /\ "relisten" \in Early \/ \A o \in Tcp : state[o] = "CLOSE_WAIT" => port[o] # p
  /\ \E r \in DriverListen(s, p) :
       /\ context' = [context EXCEPT ![s] = r.index]
       /\ slot' = r.slot /\ server' = r.server
       /\ IF r.ok
            THEN /\ state' = [state EXCEPT ![s] = "LISTEN"]
                 /\ port' = [port EXCEPT ![s] = p]
                 /\ request' = [request EXCEPT ![p] = s]
            ELSE UNCHANGED <<state, port, request>>
  /\ UNCHANGED <<bound, acceptVars, link, pending>>

(* _nx_tcp_server_socket_accept.  A thread in it has the socket to itself,  *)
(* but for a disconnect.  Without a wait the test, made again under the     *)
(* mutex, is one step.                                                      *)
acceptOnly(s, phase) ==
  /\ accept' = [accept EXCEPT ![s] = phase]
  /\ UNCHANGED <<tableVars, port, bound, request, moduleVars>>
Accept(s) ==
  /\ Listening(s) /\ accept[s] = "none"
  /\ \/ /\ AcceptWaits /\ acceptOnly(s, "tested") /\ UNCHANGED <<state, struck>>
     \/ /\ state' = [state EXCEPT ![s] = "SYN_RECEIVED"]
        /\ acceptOnly(s, "none") /\ UNCHANGED struck
(* With the mutex, it waits, whatever the state is by then.                 *)
AcceptSuspends(s) ==
  /\ accept[s] = "tested"
  /\ state' = [state EXCEPT ![s] = IF @ = "LISTEN" THEN "SYN_RECEIVED" ELSE @]
  /\ acceptOnly(s, "waiting") /\ UNCHANGED struck
(* The wait ends; or, where nobody waits, a disconnect of a socket without  *)
(* an interface yet, or the last retry of a SYN that the offload interface  *)
(* never sends.                                                             *)
AcceptEnds(s) ==
  /\ \/ accept[s] = "waiting" /\ WaitFails(s)
     \/ /\ accept[s] # "waiting" /\ state[s] = "SYN_RECEIVED"
        /\ state' = [state EXCEPT ![s] = "LISTEN"] /\ UNCHANGED acceptVars
  /\ UNCHANGED <<tableVars, port, bound, request, moduleVars>>
(* The thread itself writes LISTEN once more, later and without the mutex.  *)
AcceptReturns(s) ==
  /\ accept[s] = "failed"
  /\ state' = [state EXCEPT ![s] = "LISTEN"]
  /\ struck' = (struck \/ ~ Listening(s))
  /\ acceptOnly(s, "none")

(* _nx_tcp_server_socket_unaccept does not call the driver.                 *)
Unaccept(s) ==
  /\ accept[s] = "none"
  /\ \/ state[s] = "LISTEN"
     \/ state[s] = "CLOSE_WAIT" /\ "unaccept" \in Early
     \/ state[s] = "CLOSED" /\ bound[s]
  /\ bound' = [bound EXCEPT ![s] = FALSE]
  /\ request' = IF bound[s] THEN request
                ELSE [p \in ServerPorts |-> IF request[p] = s THEN None ELSE request[p]]
  /\ state' = [state EXCEPT ![s] = "CLOSED"]
  /\ UNCHANGED <<tableVars, port, acceptVars, moduleVars>>

(* _nx_tcp_server_socket_unlisten and UNLISTEN.                             *)
Unlisten(p) ==
  /\ request[p] # NoRequest
  /\ "unlisten" \in Early \/ \A s \in Tcp : Connected(s) => port[s] # p
  /\ IF request[p] = None THEN UNCHANGED state
     ELSE /\ state[request[p]] = "LISTEN"
          /\ state' = [state EXCEPT ![request[p]] = "CLOSED"]
  /\ request' = [request EXCEPT ![p] = NoRequest]
  /\ slot' = UnlistenSlot(slot, p) /\ server' = StopServer(slot, server, p)
  /\ pending' = [i \in Slots |-> pending[i] /\ server'[i]]
  /\ UNCHANGED <<context, port, bound, acceptVars, link>>

-----------------------------------------------------------------------------
(* _nx_udp_socket_bind of a free port and UDP_BIND; when the table is full  *)
(* the bind is undone with unbind, the driver's part included, whose index  *)
(* was never set.                                                           *)
UdpUnbindSlot(u) ==
  LET i == context[u]
  IN /\ slot' = [slot EXCEPT ![i].owner = None]
     /\ link' = [link EXCEPT ![i] = IF slot[i].rport = 0 THEN @ ELSE "none"]

UdpBind(u) ==
  /\ ~ bound[u]
  /\ IF FreeSlot = SlotCount
       THEN UdpUnbindSlot(u) /\ UNCHANGED <<context, bound>>
       ELSE /\ slot' = [slot EXCEPT ![FreeSlot].owner = u, ![FreeSlot].rport = 0]
            /\ context' = [context EXCEPT ![u] = FreeSlot]
            /\ bound' = [bound EXCEPT ![u] = TRUE]
            /\ UNCHANGED link
  /\ UNCHANGED <<state, port, request, acceptVars, server, pending>>

(* _nx_udp_socket_unbind and UDP_UNBIND.                                    *)
UdpUnbind(u) ==
  /\ bound[u]
  /\ UdpUnbindSlot(u)
  /\ bound' = [bound EXCEPT ![u] = FALSE]
  /\ UNCHANGED <<context, state, port, request, acceptVars, server, pending>>

(* UDP_SEND: the first one opens the module's connection.                   *)
UdpSend(u, p) ==
  LET i == context[u]
  IN /\ bound[u] /\ slot[i].rport = 0
     /\ slot' = [slot EXCEPT ![i].lport = p, ![i].rport = 1,
                             ![i].proto = "UDP", ![i].client = TRUE]
     /\ link' = [link EXCEPT ![i] = "open"]
     /\ UNCHANGED <<context, stackVars, server, pending>>

-----------------------------------------------------------------------------
(* A turn of the driver thread over a slot.  What it does with the socket   *)
(* of a slot it does not skip depends on the slot's protocol alone.         *)
(* Mistake: a slot without a remote port is skipped.                        *)
PolledConnected(i) ==
  slot[i].owner # None /\ slot[i].lport # 0 /\ slot[i].rport # 0

Polled(i) ==
  slot[i].owner # None /\ (slot[i].lport # 0 \/ slot[i].rport # 0)
Awaiting(i) == slot[i].proto = "TCP" /\ ~ slot[i].conn /\ ~ slot[i].client

(* _nx_tcp_socket_driver_establish and ACCEPT.                              *)
MayEstablish(i) ==
  LET s == slot[i].owner
  IN /\ Polled(i) /\ Awaiting(i) /\ s \in Tcp
     /\ state[s] \in {"LISTEN", "SYN_RECEIVED"} /\ ~ bound[s]
     /\ pending[context[s]]
Establish(i) ==
  LET s == slot[i].owner
      j == context[s]
  IN /\ MayEstablish(i)
     /\ pending' = [pending EXCEPT ![j] = FALSE]
     /\ link' = [link EXCEPT ![j] = "open"]
     /\ slot' = [slot EXCEPT ![j].rport = 1, ![j].conn = TRUE]
     /\ request' = IF ListenCallback THEN [request EXCEPT ![port[s]] = None] ELSE request
     /\ bound' = [bound EXCEPT ![s] = TRUE]
     /\ state' = [state EXCEPT ![s] = "ESTABLISHED"]
     /\ accept' = [accept EXCEPT ![s] = IF @ = "waiting" THEN "none" ELSE @]
     /\ UNCHANGED <<context, port, struck, server>>

(* WIFI_ReceiveData fails: _nx_tcp_socket_driver_packet_receive(NULL), when *)
(* it has something to change.                                              *)
MayReceiveClosed(i) ==
  LET s == slot[i].owner
  IN /\ Polled(i) /\ ~ Awaiting(i) /\ s \in Tcp /\ slot[i].proto = "TCP"
     /\ link[i] = "closed by peer" /\ (state[s] = "ESTABLISHED" \/ slot[i].conn)
ReceiveClosed(i) ==
  LET s == slot[i].owner
  IN /\ MayReceiveClosed(i)
     /\ state' = [state EXCEPT ![s] = IF @ = "ESTABLISHED" THEN "CLOSE_WAIT" ELSE @]
     /\ slot' = [slot EXCEPT ![i].conn = FALSE]
     /\ UNCHANGED <<context, port, bound, request, acceptVars, moduleVars>>

DriverThread(i) == Establish(i) \/ ReceiveClosed(i)

(* The module's peers.                                                      *)
PeerConnects(i) ==
  /\ server[i] /\ ~ pending[i] /\ link[i] = "none"
  /\ pending' = [pending EXCEPT ![i] = TRUE]
  /\ UNCHANGED <<tableVars, stackVars, link, server>>
PeerCloses(i) ==
  /\ link[i] = "open"
  /\ link' = [link EXCEPT ![i] = "closed by peer"]
  /\ UNCHANGED <<tableVars, stackVars, server, pending>>

Next ==
  \/ \E s \in Tcp :
       \/ \E p \in ClientPorts : Connect(s, p)
       \/ \E p \in ServerPorts : Listen(s, p) \/ Relisten(s, p)
       \/ Disconnect(s) \/ Unaccept(s)
       \/ Accept(s) \/ AcceptSuspends(s) \/ AcceptEnds(s) \/ AcceptReturns(s)
  \/ \E p \in ServerPorts : Unlisten(p)
  \/ \E u \in Udp :
       \/ UdpBind(u) \/ UdpUnbind(u)
       \/ \E p \in ClientPorts : UdpSend(u, p)
  \/ \E i \in Slots : DriverThread(i) \/ PeerConnects(i) \/ PeerCloses(i)

Spec == Init /\ [][Next]_vars

-----------------------------------------------------------------------------
(* Every variable has its type.                                             *)
TypeOK ==
  /\ slot \in [Slots -> [owner : Sockets \cup {None}, proto : {"none", "TCP", "UDP"},
                         lport : Ports \cup {0}, rport : {0, 1},
                         conn : BOOLEAN, client : BOOLEAN]]
  /\ context \in [Sockets -> Slots]
  /\ state \in [Tcp -> {"CLOSED", "LISTEN", "SYN_RECEIVED", "ESTABLISHED", "CLOSE_WAIT"}]
  /\ port \in [Tcp -> Ports \cup {0}] /\ bound \in [Sockets -> BOOLEAN]
  /\ request \in [ServerPorts -> Tcp \cup {None, NoRequest}]
  /\ accept \in [Tcp -> {"none", "tested", "waiting", "failed"}] /\ struck \in BOOLEAN
  /\ link \in [Slots -> {"none", "open", "closed by peer"}]
  /\ server \in [Slots -> BOOLEAN] /\ pending \in [Slots -> BOOLEAN]

Uses(s, i) == context[s] = i /\ (s \in Tcp => Connected(s)) /\ (s \in Udp => bound[s])

(* Accept's writes of LISTEN may meet a socket that has gone on: connected  *)
(* by the driver thread, or closed by an unlisten or a disconnect.  The     *)
(* connection is then left open under a listening socket, and any of what   *)
(* follows can fail that is said of a system without struck.                *)

(* A connected TCP socket, or a bound UDP socket, owns the slot it          *)
(* remembers, whatever other sockets did with the table since: it never     *)
(* sends on, or closes, somebody else's module connection.                  *)
UserOwnsSlot ==
  ~ struck => \A s \in Sockets, i \in Slots : Uses(s, i) => slot[i].owner = s

(* The module holds a connection exactly for the slots of connected TCP     *)
(* sockets and of UDP sockets that have sent: none is left open behind a    *)
(* socket, none is missing under one.                                       *)
LinkTellsState ==
  ~ struck =>
    \A i \in Slots :
      link[i] # "none" <=>
        \E s \in Sockets : Uses(s, i) /\ (s \in Udp => slot[i].rport # 0)

(* A request names listening sockets only, struck or not; and a socket that *)
(* listens has a slot of its own on which the module listens for its port.  *)
ListenerServed ==
  /\ \A p \in ServerPorts : request[p] \in Tcp =>
       Listening(request[p]) /\ ~ bound[request[p]] /\ port[request[p]] = p
  /\ ~ struck =>
       \A s \in Tcp : Listening(s) =>
         LET i == context[s]
         IN slot[i].owner = s /\ slot[i].lport = port[s] /\ ~ slot[i].client /\ server[i]

(* nx_driver_stm32l4.c:1253: when the table has "no more entries" every     *)
(* slot is in use: by a connected client, a bound UDP socket, or the server *)
(* of an active listen request.  Nothing else takes a slot away, and a late *)
(* write does not either.                                                   *)
SlotsAccounted ==
  \A i \in Slots : slot[i].owner # None =>
    \/ Uses(slot[i].owner, i)
    \/ slot[i].lport \in ServerPorts /\ request[slot[i].lport] # NoRequest

(* A socket is told that its peer closed only when its peer closed.         *)
CloseWaitMeansClosed ==
  ~ struck => \A s \in Tcp : state[s] = "CLOSE_WAIT" => link[context[s]] = "closed by peer"

(* A peer waits in slot i at socket s, which still listens there; a peer    *)
(* has closed the connection of slot i, and s, which has it, does not know. *)
Awaited(s, i) == ~ struck /\ pending[i] /\ Listening(s) /\ context[s] = i
Unnoticed(s, i) ==
  ~ struck /\ link[i] = "closed by peer" /\ state[s] = "ESTABLISHED" /\ context[s] = i
=============================================================================
