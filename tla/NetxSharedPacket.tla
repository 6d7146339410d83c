-------------------------- MODULE NetxSharedPacket --------------------------
(***************************************************************************)
(* What sharing a packet between a TCP socket and the driver promises: it  *)
(* goes back to the pool with its last user, and not before.               *)
(***************************************************************************)
CONSTANT Packets

VARIABLES users,   \* who may still read or write the packet
          free     \* packets the pool may give out again

Init == users = [p \in Packets |-> {}] /\ free = Packets

Allocate(p) ==
  /\ p \in free
  /\ users' = [users EXCEPT ![p] = {"app"}] /\ free' = free \ {p}

Submit(p) ==
  /\ users[p] = {"app"}
  /\ users' = [users EXCEPT ![p] = {"socket", "driver"}] /\ UNCHANGED free

Resend(p) ==
  /\ users[p] = {"socket"}
  /\ users' = [users EXCEPT ![p] = {"socket", "driver"}] /\ UNCHANGED free

Drop(p, u) ==
  /\ u \in users[p]
  /\ users' = [users EXCEPT ![p] = @ \ {u}]
  /\ free' = IF users[p] = {u} THEN free \cup {p} ELSE free

Next ==
  \E p \in Packets :
    \/ Allocate(p) \/ Submit(p) \/ Resend(p)
    \/ \E u \in {"app", "socket", "driver"} : Drop(p, u)

Spec == Init /\ [][Next]_<<users, free>>
=============================================================================
