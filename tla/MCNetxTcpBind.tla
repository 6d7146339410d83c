---------------------------- MODULE MCNetxTcpBind ---------------------------
(* One port, its holder and two threads that wait for it.                   *)
EXTENDS NetxTcpBind, TLC

Symmetric == Permutations(Sockets) \cup Permutations(Ports)
=============================================================================
