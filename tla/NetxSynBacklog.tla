--------------------------- MODULE NetxSynBacklog ---------------------------
(***************************************************************************)
(* What a listen request promises about connection requests that find no   *)
(* server socket: at most MaxQueue of them wait, one from each source, in  *)
(* the order of their arrival; when one more comes the oldest is given up. *)
(* (nx_tcp_packet_process.c, nx_tcp_server_socket_relisten.c)              *)
(***************************************************************************)
EXTENDS Integers, Sequences

CONSTANTS
  Ports,     \* listen ports
  Sources,   \* address and port of the clients
  MaxQueue   \* listen_queue_size

VARIABLE backlog   \* the sources that wait at each port

Waits(p, x) == \E k \in DOMAIN backlog[p] : backlog[p][k] = x

Init == backlog = [p \in Ports |-> <<>>]

Arrive(p, x) ==
  /\ ~ Waits(p, x)
  /\ backlog' = [backlog EXCEPT ![p] =
       IF Len(@) < MaxQueue THEN Append(@, x) ELSE Tail(Append(@, x))]

(* The source takes its request back with a reset.                          *)
Withdraw(p, x) ==
  \E k \in DOMAIN backlog[p] :
    /\ backlog[p][k] = x
    /\ backlog' = [backlog EXCEPT ![p] = SubSeq(@, 1, k - 1) \o SubSeq(@, k + 1, Len(@))]

(* A new server socket takes, or refuses, the oldest request.               *)
Serve(p) ==
  /\ backlog[p] # <<>>
  /\ backlog' = [backlog EXCEPT ![p] = Tail(@)]

Close(p) == backlog' = [backlog EXCEPT ![p] = <<>>]

Next ==
  \E p \in Ports :
    \/ \E x \in Sources : Arrive(p, x) \/ Withdraw(p, x)
    \/ Serve(p) \/ Close(p)

Spec == Init /\ [][Next]_backlog
=============================================================================
