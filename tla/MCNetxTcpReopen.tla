--------------------------- MODULE MCNetxTcpReopen --------------------------
(* Connections that follow one another while segments of the earlier ones   *)
(* are still on their way: a client and a server, and two clients whose     *)
(* opens may cross.  Both have the same variables; which of the two runs is *)
(* chosen at the start.                                                     *)
EXTENDS MCNetxTcpConnection

VARIABLE part

Crossing == INSTANCE NetxTcpConnection WITH Servers <- {}, MaxOpens <- 2

ReopenInit ==
  \/ part = "server" /\ Init
  \/ part = "crossing" /\ Crossing!Init
ReopenNext ==
  /\ UNCHANGED part
  /\ \/ part = "server" /\ Next
     \/ part = "crossing" /\ Crossing!Next

(* What tells states apart: a client writes rx_sequence before it reads it, *)
(* so does a server that has taken no SYN; the FINs are forgotten when a    *)
(* connection is opened or accepted; a FIN's sequence number means nothing  *)
(* before it came, nor does the status of a disconnect that has returned.   *)
HasRx(e) == connected[e] /\ (Client(e) => state[e] \notin {"CLOSED", "SYN_SENT"})
HasFin(e) == state[e] \notin {"CLOSED", "LISTEN"}
Told(e) ==
  [state |-> state[e], connected |-> connected[e], bound |-> bound[e],
   listening |-> listening[e], tx |-> tx[e], timeout |-> timeout[e],
   retries |-> retries[e], app |-> app[e], taken |-> taken[e],
   rx |-> IF HasRx(e) THEN rx[e] ELSE 0,
   finReceived |-> HasFin(e) /\ finReceived[e],
   finAcked |-> HasFin(e) /\ finAcked[e],
   finSeq |-> IF HasFin(e) /\ finReceived[e] THEN finSeq[e] ELSE 0,
   status |-> IF app[e] = "disconnected" THEN status[e] ELSE "NONE"]
Live == <<part, opens, net, [e \in Ends |-> Told(e)]>>

ReopenSpec == ReopenInit /\ [][ReopenNext]_<<vars, part>>
=============================================================================
