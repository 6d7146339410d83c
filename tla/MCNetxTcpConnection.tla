------------------------- MODULE MCNetxTcpConnection -------------------------
(* A client and a server, or two clients, with sequence numbers far apart.  *)
EXTENDS NetxTcpConnection, TLC

CONSTANTS a, b

Isns == (a :> 10) @@ (b :> 50)
=============================================================================
