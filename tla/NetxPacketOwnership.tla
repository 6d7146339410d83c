------------------------- MODULE NetxPacketOwnership ------------------------
(***************************************************************************)
(* What the packet pool promises its callers, without its lists, marks,    *)
(* counters and cleanup pointers: each packet has one owner, the pool or a *)
(* caller; a packet leaves its owner only by that owner's release; nobody  *)
(* waits while the pool owns a packet, and nobody overtakes a waiter.      *)
(***************************************************************************)
CONSTANTS Packets, Callers, Threads, Pool

VARIABLES owner,    \* who owns each packet
          waiting   \* the threads whose allocate call is unanswered

Init == owner = [p \in Packets |-> Pool] /\ waiting = {}

Take(a, p) ==
  /\ owner[p] = Pool /\ waiting = {} /\ a \notin waiting
  /\ owner' = [owner EXCEPT ![p] = a] /\ UNCHANGED waiting

Wait(t) ==
  /\ t \notin waiting /\ \A p \in Packets : owner[p] # Pool
  /\ waiting' = waiting \cup {t} /\ UNCHANGED owner

GiveBack(a, p) ==
  /\ owner[p] = a /\ a \notin waiting /\ waiting = {}
  /\ owner' = [owner EXCEPT ![p] = Pool] /\ UNCHANGED waiting

HandOver(a, p, t) ==
  /\ owner[p] = a /\ a \notin waiting /\ t \in waiting
  /\ owner' = [owner EXCEPT ![p] = t] /\ waiting' = waiting \ {t}

GiveUp(t) == t \in waiting /\ waiting' = waiting \ {t} /\ UNCHANGED owner

Next ==
  \/ \E a \in Callers, p \in Packets :
       \/ Take(a, p)
       \/ GiveBack(a, p)
       \/ \E t \in Threads : HandOver(a, p, t)
  \/ \E t \in Threads : Wait(t) \/ GiveUp(t)

Spec == Init /\ [][Next]_<<owner, waiting>>
=============================================================================
