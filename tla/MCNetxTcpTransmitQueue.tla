----------------------- MODULE MCNetxTcpTransmitQueue -----------------------
(* The transmit queue, two writers and four packets, two of which fit in.   *)
EXTENDS NetxTcpTransmitQueue, TLC

Symmetric == Permutations(Packets)
=============================================================================
