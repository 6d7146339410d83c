---------------------- MODULE NetxPacketPoolRefinement ----------------------
(***************************************************************************)
(* The packet pool implements NetxPacketOwnership.                         *)
(***************************************************************************)
EXTENDS NetxPacketPool

CONSTANT Pool   \* the pool as an owner

ASSUME OwnerAssumption == Pool \notin Callers

Owner == [p \in Packets |->
            IF p \in free THEN Pool ELSE CHOOSE a \in Callers : Has(a, p)]

Own == INSTANCE NetxPacketOwnership WITH
         owner <- Owner, waiting <- {t \in Threads : tstate[t] = "suspended"}

(* Every step of the pool's lists, marks and cleanup pointers is a step of  *)
(* the ownership it promises, or changes no owner and no unanswered call.   *)
ImplementsOwnership == Own!Spec
=============================================================================
