-------------------------- MODULE NetxTcpConnection --------------------------
(***************************************************************************)
(* Opening and closing a TCP connection of NetX Duo between two sockets,   *)
(* clients or servers, over a network that loses, delays, repeats and      *)
(* reorders segments: the handlers of every TCP state, the retransmission  *)
(* timer, user time-outs, and the services connect, accept, disconnect,    *)
(* unaccept and relisten.  No data is sent: segments are SYN, FIN, RST and *)
(* ACK.  The IP thread and the services run under the IP mutex; what they  *)
(* do outside it is a step of its own.                                     *)
(***************************************************************************)
EXTENDS Integers

CONSTANTS
  Ends,        \* the two sockets
  Servers,     \* those that listen; the others connect
  FirstIsn,    \* the first (random) initial sequence number of each socket
  IsnStep,     \* distance between initial sequence numbers: 0x10000 and more
  Window,      \* receive window
  MaxRetries,  \* nx_tcp_socket_timeout_max_retries
  MaxOpens     \* bound on the initial sequence numbers they take in all

ASSUME ConnectionAssumption ==
  /\ \E e \in Ends : \E f \in Ends \ {e} : Ends = {e, f}
  /\ Servers \subseteq Ends
  /\ FirstIsn \in [Ends -> Nat \ {0}] /\ Window \in Nat \ {0}
  /\ IsnStep \in Nat /\ IsnStep > Window + 2
  /\ MaxRetries \in Nat /\ MaxOpens \in Nat

VARIABLES
  state,      \* nx_tcp_socket_state
  connected,  \* nx_tcp_socket_connect_ip and _port name the other socket
  bound,      \* nx_tcp_socket_bound_next # NULL
  listening,  \* the socket is the nx_tcp_listen_socket_ptr of its port
  tx, rx,     \* nx_tcp_socket_tx_sequence, nx_tcp_socket_rx_sequence
  opens,      \* initial sequence numbers taken
  finReceived, finSeq, finAcked,  \* nx_tcp_socket_fin_...
  timeout,    \* nx_tcp_socket_timeout # 0
  retries,    \* nx_tcp_socket_timeout_retries
  app,        \* where the socket's application thread is
  status,     \* tx_thread_suspend_status of its last disconnect
  net,        \* every segment sent so far: any may arrive, again, or never
  taken       \* history: the sequence numbers of the FINs each socket took

seqVars == <<tx, rx, opens>>
finVars == <<finReceived, finSeq, finAcked>>
timerVars == <<timeout, retries>>
placeVars == <<connected, bound, listening>>
appVars == <<app, status>>
vars == <<state, placeVars, seqVars, finVars, timerVars, appVars, net, taken>>

Init ==
  /\ state = [e \in Ends |-> IF e \in Servers THEN "LISTEN" ELSE "CLOSED"]
  /\ connected = [e \in Ends |-> FALSE]
  /\ bound = [e \in Ends |-> e \notin Servers]
  /\ listening = [e \in Ends |-> e \in Servers]
  /\ tx = [e \in Ends |-> 0] /\ rx = [e \in Ends |-> 0]
  /\ opens = 0
  /\ finReceived = [e \in Ends |-> FALSE] /\ finSeq = [e \in Ends |-> 0]
  /\ finAcked = [e \in Ends |-> FALSE]
  /\ timeout = [e \in Ends |-> FALSE] /\ retries = [e \in Ends |-> 0]
  /\ app = [e \in Ends |-> "idle"] /\ status = [e \in Ends |-> "NONE"]
  /\ net = {} /\ taken = [e \in Ends |-> {}]

-----------------------------------------------------------------------------
Peer(e) == CHOOSE f \in Ends : f # e
Client(e) == e \notin Servers
Idle(e) == IF Client(e) THEN "CLOSED" ELSE "LISTEN"

(* Segments that socket e may send (_nx_tcp_packet_send_syn, _fin, _ack,    *)
(* _rst), and those addressed to it.                                        *)
Segment(e, kind, seq, ack) == [to |-> Peer(e), kind |-> kind, seq |-> seq, ack |-> ack]
Ack(e, n) == Segment(e, "ACK", tx[e], n)
Rst(e, m) == IF m.kind = "SYN" THEN Segment(e, "RSTACK", 0, m.seq + 1)
             ELSE Segment(e, "RST", m.ack, 0)
IsRst(m) == m.kind \in {"RST", "RSTACK"}
IsSyn(m) == m.kind \in {"SYN", "SYNACK"}
To(e) == {m \in net : m.to = e}
Send(m) == net' = net \cup {m}

(* Mistake: every connection starts with the same number.                   *)
NextIsnSame(e) == FirstIsn[e]
NextIsn(e) == IF tx[e] = 0 THEN FirstIsn[e] ELSE tx[e] + IsnStep
InWindow(e, m) == rx[e] <= m.seq /\ m.seq < rx[e] + Window
Synchronized(e) == state[e] \notin {"CLOSED", "LISTEN", "SYN_SENT"}

Set(f, e, v) == [f EXCEPT ![e] = v]
Arm(e) == timeout' = Set(timeout, e, TRUE) /\ retries' = Set(retries, e, 0)

(* The socket of a connection that is over (_nx_tcp_socket_block_cleanup).  *)
BlockCleanup(e) ==
  /\ state' = Set(state, e, Idle(e))
  /\ connected' = Set(connected, e, FALSE)
  /\ timeout' = Set(timeout, e, FALSE)
  /\ UNCHANGED <<bound, listening, retries>>

(* A thread that waits in connect or accept is resumed without a connection *)
(* (_nx_tcp_connect_cleanup), one in disconnect with its outcome.           *)
Refused(e) == Set(app, e, IF Client(e) THEN "idle" ELSE "acceptFailed")
Closed(e, result) == IF app[e] = "disconnect"
  THEN app' = Set(app, e, "disconnected") /\ status' = Set(status, e, result)
  ELSE UNCHANGED appVars

(* Mistake: the reset forgets the thread suspended in disconnect.           *)
ConnectionResetForgets(e) ==
  /\ BlockCleanup(e)
  /\ app' = IF app[e] = "connect" THEN Refused(e) ELSE app
  /\ UNCHANGED <<seqVars, finVars, status, taken>>

(* _nx_tcp_socket_connection_reset                                          *)
ConnectionReset(e) ==
  /\ BlockCleanup(e)
  /\ IF app[e] = "connect"
       THEN /\ app' = Refused(e) /\ UNCHANGED status
            /\ rx' = IF Client(e) THEN rx ELSE Set(rx, e, rx[e] - 1)
       ELSE Closed(e, "FAILED") /\ UNCHANGED rx
  /\ UNCHANGED <<tx, opens, finVars, taken>>

-----------------------------------------------------------------------------
(* _nxd_tcp_client_socket_connect, with or without a wait option.           *)
Connect(e) ==
  /\ Client(e) /\ app[e] = "idle" /\ opens < MaxOpens
  /\ state[e] \in {"CLOSED", "TIMED_WAIT"}
  /\ state' = Set(state, e, "SYN_SENT")
  /\ connected' = Set(connected, e, TRUE)
  /\ tx' = Set(tx, e, NextIsn(e) + 1) /\ opens' = opens + 1
  /\ finReceived' = Set(finReceived, e, FALSE)
  /\ finAcked' = Set(finAcked, e, FALSE)
  /\ Arm(e)
  /\ Send(Segment(e, "SYN", NextIsn(e), 0))
  /\ app' \in {Set(app, e, "connect"), Set(app, e, "idle")}
  /\ UNCHANGED <<bound, listening, rx, finSeq, status, taken>>

(* _nx_tcp_server_socket_accept: the state is tested before the mutex is    *)
(* taken (a socket in ESTABLISHED makes accept return NX_SUCCESS at once).  *)
AcceptTest(e) ==
  /\ ~ Client(e) /\ app[e] = "idle"
  /\ state[e] \in {"LISTEN", "SYN_RECEIVED"}
  /\ state[e] = "LISTEN" => listening[e] \/ connected[e]
  /\ app' = Set(app, e, "accept")
  /\ UNCHANGED <<state, placeVars, seqVars, finVars, timerVars, status, net, taken>>

Accept(e) ==
  /\ app[e] = "accept" /\ (state[e] = "LISTEN" => opens < MaxOpens)
  /\ app' \in {Set(app, e, "connect"), Set(app, e, "idle")}
  /\ IF state[e] = "LISTEN"
       THEN /\ state' = Set(state, e, "SYN_RECEIVED")
            /\ opens' = opens + 1
            /\ finReceived' = Set(finReceived, e, FALSE)
            /\ finAcked' = Set(finAcked, e, FALSE)
            /\ IF bound[e]
                 THEN /\ rx' = Set(rx, e, rx[e] + 1)
                      /\ tx' = Set(tx, e, NextIsn(e) + 1)
                      /\ Arm(e)
                      /\ IF connected[e] THEN Send(Segment(e, "SYNACK", NextIsn(e), rx[e] + 1))
                                         ELSE UNCHANGED net
                 ELSE /\ tx' = Set(tx, e, NextIsn(e))
                      /\ timeout' = Set(timeout, e, FALSE)
                      /\ UNCHANGED <<rx, retries, net>>
       ELSE UNCHANGED <<state, seqVars, finReceived, finAcked, timerVars, net>>
  /\ UNCHANGED <<placeVars, finSeq, status, taken>>

(* A thread whose accept failed, outside the mutex.                         *)
AcceptFailed(e) ==
  /\ app[e] = "acceptFailed"
  /\ app' = Set(app, e, "idle")
  /\ state' = Set(state, e, "LISTEN")
  /\ timeout' = Set(timeout, e, FALSE)
  /\ UNCHANGED <<placeVars, seqVars, finVars, retries, status, net, taken>>

(* _nx_tcp_server_socket_unaccept, then _nx_tcp_server_socket_relisten.     *)
Unaccept(e) ==
  /\ ~ Client(e) /\ app[e] = "idle"
  /\ state[e] \in {"LISTEN", "CLOSE_WAIT", "FIN_WAIT_1", "FIN_WAIT_2",
                   "CLOSING", "TIMED_WAIT", "LAST_ACK"}
  /\ state' = Set(state, e, "CLOSED")
  /\ connected' = IF state[e] = "LISTEN" THEN connected ELSE Set(connected, e, FALSE)
  /\ bound' = Set(bound, e, FALSE) /\ listening' = Set(listening, e, FALSE)
  /\ timeout' = Set(timeout, e, FALSE)
  /\ UNCHANGED <<seqVars, finVars, retries, appVars, net, taken>>

Relisten(e) ==
  /\ ~ Client(e) /\ app[e] = "idle"
  /\ state[e] = "CLOSED" /\ ~ bound[e]
  /\ state' = Set(state, e, "LISTEN")
  /\ listening' = Set(listening, e, TRUE)
  /\ UNCHANGED <<connected, bound, seqVars, finVars, timerVars, appVars, net, taken>>

(* _nx_tcp_socket_disconnect before a connection exists, perhaps under a    *)
(* thread that waits for one; abortive, without a wait option; and orderly. *)
DisconnectOpening(e) ==
  /\ app[e] \in {"idle", "connect"}
  /\ state[e] \in {"SYN_SENT", "SYN_RECEIVED"}
  /\ state' = Set(state, e, Idle(e)) /\ timeout' = Set(timeout, e, FALSE)
  /\ LET fin == state[e] = "SYN_RECEIVED" /\ connected[e]
     IN /\ tx' = IF fin THEN Set(tx, e, tx[e] + 1) ELSE tx
        /\ retries' = IF fin THEN Set(retries, e, 0) ELSE retries
        /\ IF fin THEN Send(Segment(e, "FIN", tx[e], rx[e])) ELSE UNCHANGED net
  /\ rx' = IF Client(e) THEN rx
           ELSE Set(rx, e, rx[e] - IF app[e] = "connect" THEN 2 ELSE 1)
  /\ app' = IF app[e] = "connect" THEN Refused(e) ELSE app
  /\ UNCHANGED <<placeVars, opens, finVars, status, taken>>

DisconnectAbort(e) ==
  /\ app[e] = "idle" /\ state[e] \in {"ESTABLISHED", "CLOSE_WAIT"}
  /\ BlockCleanup(e)
  /\ Send(Segment(e, "RST", tx[e], 0))
  /\ UNCHANGED <<seqVars, finVars, appVars, taken>>

DisconnectOrderly(e) ==
  /\ app[e] = "idle" /\ state[e] \in {"ESTABLISHED", "CLOSE_WAIT"}
  /\ state' = Set(state, e, IF state[e] = "ESTABLISHED" THEN "FIN_WAIT_1" ELSE "LAST_ACK")
  /\ Arm(e)
  /\ tx' = Set(tx, e, tx[e] + 1)
  /\ Send(Segment(e, "FIN", tx[e], rx[e]))
  /\ app' = Set(app, e, "disconnect")
  /\ UNCHANGED <<placeVars, rx, opens, finVars, status, taken>>

(* The thread resumed in disconnect has the mutex again.                    *)
DisconnectReturn(e) ==
  /\ app[e] = "disconnected"
  /\ app' = Set(app, e, "idle")
  /\ IF state[e] # "TIMED_WAIT" THEN BlockCleanup(e)
     ELSE UNCHANGED <<state, placeVars, timerVars>>
  /\ UNCHANGED <<seqVars, finVars, status, net, taken>>

(* The user's wait option expires; the IP thread calls the cleanup.         *)
WaitExpires(e) ==
  /\ \/ /\ app[e] = "connect"
        /\ state' = Set(state, e, Idle(e)) /\ timeout' = Set(timeout, e, FALSE)
        /\ rx' = IF Client(e) THEN rx ELSE Set(rx, e, rx[e] - 1)
        /\ app' = Refused(e) /\ UNCHANGED status
     \/ /\ app[e] = "disconnect"
        /\ Closed(e, "FAILED")
        /\ UNCHANGED <<state, timeout, rx>>
  /\ UNCHANGED <<placeVars, tx, opens, finVars, retries, net, taken>>

-----------------------------------------------------------------------------
(* _nx_tcp_fast_periodic_processing finds the timer of the socket expired.  *)
Resend(e, kind) ==
  /\ retries' = Set(retries, e, retries[e] + 1)
  /\ IF connected[e] THEN Send(Segment(e, kind, tx[e] - 1, rx[e])) ELSE UNCHANGED net
  /\ UNCHANGED <<state, placeVars, seqVars, finVars, timeout, appVars, taken>>

TimerReset(e) ==
  /\ timeout[e] /\ retries[e] >= MaxRetries
  /\ ConnectionReset(e) /\ UNCHANGED net

(* Mistake: the retries are not counted.                                    *)
TimerResendUncounted(e) ==
  /\ timeout[e] /\ retries[e] < MaxRetries /\ state[e] = "SYN_SENT"
  /\ Send(Segment(e, "SYN", tx[e] - 1, 0))
  /\ UNCHANGED <<state, placeVars, seqVars, finVars, timerVars, appVars, taken>>

TimerResend(e) ==
  /\ timeout[e] /\ retries[e] < MaxRetries
  /\ \/ /\ state[e] = "SYN_SENT"
        /\ retries' = Set(retries, e, retries[e] + 1)
        /\ Send(Segment(e, "SYN", tx[e] - 1, 0))
        /\ UNCHANGED <<state, placeVars, seqVars, finVars, timeout, appVars, taken>>
     \/ state[e] = "SYN_RECEIVED" /\ Resend(e, "SYNACK")
     \/ state[e] \in {"FIN_WAIT_1", "CLOSING", "LAST_ACK"} /\ Resend(e, "FIN")

TimerTimedWait(e) ==
  /\ timeout[e] /\ retries[e] < MaxRetries /\ state[e] = "TIMED_WAIT"
  /\ BlockCleanup(e)
  /\ UNCHANGED <<seqVars, finVars, appVars, net, taken>>

Timer(e) == TimerReset(e) \/ TimerResend(e) \/ TimerTimedWait(e)

-----------------------------------------------------------------------------
(* _nx_tcp_packet_process, no socket with that peer and port: a listening   *)
(* socket takes a SYN (without one it is queued, that is, still to come),   *)
(* anything else but a RST is answered with a RST.                          *)
RecvListen(e, m) ==
  /\ ~ (bound[e] /\ connected[e]) /\ listening[e]
  /\ m.kind = "SYN"
  /\ connected' = Set(connected, e, TRUE)
  /\ bound' = Set(bound, e, TRUE) /\ listening' = Set(listening, e, FALSE)
  /\ IF state[e] = "SYN_RECEIVED"
       THEN /\ rx' = Set(rx, e, m.seq + 1)
            /\ tx' = Set(tx, e, tx[e] + 1)
            /\ Arm(e)
            /\ Send(Segment(e, "SYNACK", tx[e], m.seq + 1))
       ELSE rx' = Set(rx, e, m.seq) /\ UNCHANGED <<tx, timerVars, net>>
  /\ UNCHANGED <<state, opens, finVars, appVars, taken>>

RecvNoSocket(e, m) ==
  /\ ~ (bound[e] /\ connected[e])
  /\ ~ IsRst(m) /\ (m.kind = "SYN" => Client(e))
  /\ Send(Rst(e, m))
  /\ UNCHANGED <<state, placeVars, seqVars, finVars, timerVars, appVars, taken>>

(* _nx_tcp_socket_state_syn_sent                                            *)
RecvSynSent(e, m) ==
  /\ state[e] = "SYN_SENT"
  /\ \/ /\ m.kind = "RSTACK" /\ m.ack = tx[e]
        /\ ConnectionReset(e) /\ UNCHANGED net
     \/ /\ m.kind = "SYNACK" /\ m.ack = tx[e]
        /\ rx' = Set(rx, e, m.seq + 1)
        /\ Send(Ack(e, m.seq + 1))
        /\ state' = Set(state, e, "ESTABLISHED")
        /\ timeout' = Set(timeout, e, FALSE)
        /\ app' = IF app[e] = "connect" THEN Set(app, e, "idle") ELSE app
        /\ UNCHANGED <<placeVars, tx, opens, finVars, retries, status, taken>>
     \/ /\ m.kind = "SYN"
        /\ rx' = Set(rx, e, m.seq + 1)
        /\ state' = Set(state, e, "SYN_RECEIVED")
        /\ timeout' = Set(timeout, e, FALSE)
        /\ Send(Segment(e, "SYNACK", tx[e] - 1, m.seq + 1))
        /\ UNCHANGED <<placeVars, tx, opens, finVars, retries, appVars, taken>>
     \/ /\ m.kind \in {"SYNACK", "ACK", "FIN"} /\ m.ack # tx[e]
        /\ Send(Rst(e, m))
        /\ UNCHANGED <<state, placeVars, seqVars, finVars, timerVars, appVars, taken>>

(* _nx_tcp_socket_packet_process from SYN_RECEIVED on: the window, RST and  *)
(* SYN come first.                                                          *)
RecvOutside(e, m) ==
  /\ Synchronized(e) /\ ~ InWindow(e, m) /\ ~ IsRst(m)
  /\ Send(Ack(e, rx[e]))
  /\ UNCHANGED <<state, placeVars, seqVars, finVars, timerVars, appVars, taken>>

RecvReset(e, m) ==
  /\ Synchronized(e) /\ InWindow(e, m) /\ (IsRst(m) \/ IsSyn(m))
  /\ ConnectionReset(e)
  /\ IF IsSyn(m) THEN Send(Rst(e, m)) ELSE UNCHANGED net

(* A segment of ESTABLISHED that is not the expected one is answered.       *)
DataAck(e, m) == IF m.seq = rx[e] THEN {} ELSE {Ack(e, rx[e])}

(* Mistake: any ACK completes the handshake.                                *)
RecvSynReceivedAnyAck(e, m) ==
  /\ state[e] = "SYN_RECEIVED" /\ InWindow(e, m) /\ m.kind \in {"ACK", "FIN"}
  /\ state' = Set(state, e, "ESTABLISHED")
  /\ app' = IF app[e] = "connect" THEN Set(app, e, "idle") ELSE app
  /\ net' = net \cup DataAck(e, m)
  /\ UNCHANGED <<placeVars, seqVars, finVars, timerVars, status, taken>>

(* _nx_tcp_socket_state_syn_received, then the FIN of _data_check.          *)
RecvSynReceived(e, m) ==
  /\ state[e] = "SYN_RECEIVED" /\ InWindow(e, m) /\ m.kind \in {"ACK", "FIN"}
  /\ IF m.ack = tx[e]
       THEN /\ state' = Set(state, e, "ESTABLISHED")
            /\ app' = IF app[e] = "connect" THEN Set(app, e, "idle") ELSE app
            /\ IF m.kind = "FIN"
                 THEN /\ finReceived' = Set(finReceived, e, TRUE)
                      /\ finSeq' = Set(finSeq, e, m.seq)
                 ELSE UNCHANGED <<finReceived, finSeq>>
            /\ net' = net \cup DataAck(e, m)
       ELSE Send(Rst(e, m)) /\ UNCHANGED <<state, app, finReceived, finSeq>>
  /\ UNCHANGED <<placeVars, seqVars, finAcked, timerVars, status, taken>>

(* _nx_tcp_socket_state_ack_check: an ACK of what was not sent ends it.     *)
RecvAckBeyond(e, m) ==
  /\ Synchronized(e) /\ state[e] # "SYN_RECEIVED"
  /\ InWindow(e, m) /\ m.kind \in {"ACK", "FIN"} /\ m.ack > tx[e]
  /\ Send(Ack(e, rx[e]))
  /\ UNCHANGED <<state, placeVars, seqVars, finVars, timerVars, appVars, taken>>

Acceptable(e, m) ==
  Synchronized(e) /\ InWindow(e, m) /\ m.kind \in {"ACK", "FIN"} /\ m.ack <= tx[e]
FinReceived(e, m) == finReceived[e] \/ m.kind = "FIN"
FinInOrder(e, m) ==
  IF m.kind = "FIN" THEN m.seq = rx[e] ELSE finReceived[e] /\ finSeq[e] = rx[e]
(* Mistake: the ACK of all data is taken for that of the FIN.               *)
FinAckedByData(e, m) == finAcked[e] \/ m.ack >= tx[e] - 1
FinAcked(e, m) == finAcked[e] \/ m.ack = tx[e]

DataCheck(e, m) ==
  /\ finReceived' = Set(finReceived, e, FinReceived(e, m))
  /\ finSeq' = IF m.kind = "FIN" THEN Set(finSeq, e, m.seq) ELSE finSeq
TakeFin(e) ==
  /\ rx' = Set(rx, e, rx[e] + 1)
  /\ taken' = Set(taken, e, taken[e] \cup {rx[e]})

RecvEstablished(e, m) ==
  /\ state[e] = "ESTABLISHED" /\ Acceptable(e, m)
  /\ DataCheck(e, m)
  /\ IF FinInOrder(e, m)
       THEN /\ state' = Set(state, e, "CLOSE_WAIT") /\ TakeFin(e)
            /\ net' = net \cup DataAck(e, m) \cup {Ack(e, rx[e] + 1)}
       ELSE net' = net \cup DataAck(e, m) /\ UNCHANGED <<state, rx, taken>>
  /\ UNCHANGED <<placeVars, tx, opens, finAcked, timerVars, appVars>>

RecvFinWait1(e, m) ==
  /\ state[e] = "FIN_WAIT_1" /\ Acceptable(e, m)
  /\ DataCheck(e, m) /\ finAcked' = Set(finAcked, e, FinAcked(e, m))
  /\ \/ /\ FinAcked(e, m) /\ ~ FinReceived(e, m)
        /\ state' = Set(state, e, "FIN_WAIT_2")
        /\ timeout' = Set(timeout, e, FALSE)
        /\ UNCHANGED <<rx, appVars, net, taken>>
     \/ /\ FinAcked(e, m) /\ FinInOrder(e, m)
        /\ state' = Set(state, e, "TIMED_WAIT")
        /\ timeout' = Set(timeout, e, TRUE)
        /\ TakeFin(e) /\ Send(Ack(e, rx[e] + 1)) /\ Closed(e, "SUCCESS")
     \/ /\ ~ FinAcked(e, m) /\ FinInOrder(e, m)
        /\ state' = Set(state, e, "CLOSING")
        /\ TakeFin(e) /\ Send(Ack(e, rx[e] + 1)) /\ UNCHANGED <<timeout, appVars>>
     \/ /\ IF FinReceived(e, m) THEN ~ FinInOrder(e, m) ELSE ~ FinAcked(e, m)
        /\ UNCHANGED <<state, timeout, rx, appVars, net, taken>>
  /\ UNCHANGED <<placeVars, tx, opens, retries>>

RecvFinWait2(e, m) ==
  /\ state[e] = "FIN_WAIT_2" /\ Acceptable(e, m) /\ m.kind = "FIN"
  /\ DataCheck(e, m)
  /\ IF FinInOrder(e, m)
       THEN /\ state' = Set(state, e, "TIMED_WAIT")
            /\ timeout' = Set(timeout, e, TRUE)
            /\ TakeFin(e) /\ Send(Ack(e, rx[e] + 1)) /\ Closed(e, "SUCCESS")
       ELSE UNCHANGED <<state, timeout, rx, appVars, net, taken>>
  /\ UNCHANGED <<placeVars, tx, opens, finAcked, retries>>


RecvClosing(e, m) ==
  /\ state[e] = "CLOSING" /\ Acceptable(e, m) /\ m.ack = tx[e]
  /\ finAcked' = Set(finAcked, e, TRUE)
  /\ IF m.seq = rx[e]
       THEN /\ state' = Set(state, e, "TIMED_WAIT")
            /\ timeout' = Set(timeout, e, TRUE)
            /\ Closed(e, "SUCCESS")
       ELSE UNCHANGED <<state, timeout, appVars>>
  /\ UNCHANGED <<placeVars, seqVars, finReceived, finSeq, retries, net, taken>>

RecvLastAck(e, m) ==
  /\ state[e] = "LAST_ACK" /\ Acceptable(e, m) /\ m.ack = tx[e]
  /\ finAcked' = Set(finAcked, e, TRUE)
  /\ IF m.seq = rx[e] THEN BlockCleanup(e) /\ Closed(e, "SUCCESS")
     ELSE UNCHANGED <<state, placeVars, timerVars, appVars>>
  /\ UNCHANGED <<seqVars, finReceived, finSeq, net, taken>>

Receive(e, m) ==
  \/ RecvListen(e, m) \/ RecvNoSocket(e, m)
  \/ /\ bound[e] /\ connected[e]
     /\ \/ RecvSynSent(e, m) \/ RecvOutside(e, m) \/ RecvReset(e, m)
        \/ RecvSynReceived(e, m) \/ RecvAckBeyond(e, m) \/ RecvEstablished(e, m)
        \/ RecvFinWait1(e, m) \/ RecvFinWait2(e, m)
        \/ RecvClosing(e, m) \/ RecvLastAck(e, m)

Service(e) ==
  \/ Connect(e)
  \/ AcceptTest(e) \/ Accept(e) \/ AcceptFailed(e) \/ Unaccept(e) \/ Relisten(e)
  \/ DisconnectOpening(e) \/ DisconnectAbort(e) \/ DisconnectOrderly(e)
  \/ DisconnectReturn(e) \/ WaitExpires(e)

Next ==
  \E e \in Ends : Service(e) \/ Timer(e) \/ \E m \in To(e) : Receive(e, m)

Spec == Init /\ [][Next]_vars

(* The IP thread's periodic processing goes on; the network and the users   *)
(* may do nothing.                                                          *)
FairSpec == Spec /\ \A e \in Ends : WF_vars(Timer(e))
-----------------------------------------------------------------------------
States == {"CLOSED", "LISTEN", "SYN_SENT", "SYN_RECEIVED", "ESTABLISHED", "CLOSE_WAIT",
           "FIN_WAIT_1", "FIN_WAIT_2", "CLOSING", "TIMED_WAIT", "LAST_ACK"}
Awaiting == {"SYN_SENT", "FIN_WAIT_1", "CLOSING", "TIMED_WAIT", "LAST_ACK"}

(* Every variable has its type.                                             *)
TypeOK ==
  /\ state \in [Ends -> States]
  /\ connected \in [Ends -> BOOLEAN] /\ bound \in [Ends -> BOOLEAN]
  /\ listening \in [Ends -> BOOLEAN]
  /\ tx \in [Ends -> Nat] /\ rx \in [Ends -> Int] /\ opens \in 0..MaxOpens
  /\ finReceived \in [Ends -> BOOLEAN] /\ finSeq \in [Ends -> Nat]
  /\ finAcked \in [Ends -> BOOLEAN]
  /\ timeout \in [Ends -> BOOLEAN] /\ retries \in [Ends -> 0..MaxRetries]
  /\ app \in [Ends -> {"idle", "connect", "accept", "acceptFailed", "disconnect", "disconnected"}]
  /\ status \in [Ends -> {"NONE", "SUCCESS", "FAILED"}]

InSync(e) == rx[e] = tx[Peer(e)]

(* When both sockets are established they are in the same connection or in  *)
(* no common one: never does just one of them expect what the other sends.  *)
SameConnection ==
  (\A e \in Ends : state[e] = "ESTABLISHED") =>
    \A e, f \in Ends : InSync(e) <=> InSync(f)

(* While both are in the same connection no segment in the network, however *)
(* old and from whichever connection, can reset it.                         *)
NoStrayReset ==
  (\A e \in Ends : state[e] = "ESTABLISHED" /\ InSync(e)) =>
    \A e \in Ends : \A m \in To(e) : InWindow(e, m) => ~ IsRst(m) /\ ~ IsSyn(m)

(* A disconnect that returns NX_SUCCESS was orderly: the other socket has   *)
(* taken this one's FIN, whatever was lost, repeated or sent at once.       *)
OrderlyClose ==
  \A e \in Ends : app[e] = "disconnected" /\ status[e] = "SUCCESS"
                    => tx[e] - 1 \in taken[Peer(e)]

(* No thread sleeps in connect or disconnect for a connection that is gone. *)
(* (Beside it, every variable has its type.)                                *)
SleeperHasConnection ==
  /\ TypeOK
  /\ \A e \in Ends :
       /\ Client(e) /\ app[e] = "connect" => state[e] \in {"SYN_SENT", "SYN_RECEIVED"}
       /\ app[e] = "disconnect" =>
            state[e] \in {"FIN_WAIT_1", "FIN_WAIT_2", "CLOSING", "LAST_ACK"}

(* No socket stays forever in a state in which it waits for an answer to    *)
(* its own SYN or FIN, or out the 2MSL, when the network falls silent.      *)
AnswerOrGiveUp ==
  \A e \in Ends : state[e] \in Awaiting ~> state[e] \notin Awaiting
=============================================================================
