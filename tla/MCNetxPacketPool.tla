-------------------------- MODULE MCNetxPacketPool --------------------------
(* The packet pool on a small instance, and its refinement of the owner of  *)
(* every packet.                                                            *)
EXTENDS NetxPacketPoolRefinement, TLC

Symmetric == Permutations(Threads) \cup Permutations(Packets)
=============================================================================
