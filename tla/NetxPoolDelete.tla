--------------------------- MODULE NetxPoolDelete ---------------------------
(***************************************************************************)
(* Deleting a packet pool while threads wait in it: the walk over the      *)
(* circular suspension list, which gives up TX_DISABLE between its steps   *)
(* and keeps only preemption off, so that an interrupt handler may release *)
(* a packet of the pool between any two of them.                           *)
(* (nx_packet_pool_delete.c, with the list handling of                     *)
(* nx_packet_allocate.c, nx_packet_release.c and nx_packet_pool_cleanup.c) *)
(*                                                                         *)
(* Packets are counted, not named.  Once the pool is deleted its packets   *)
(* are not used any more: the application sees to that.                    *)
(***************************************************************************)
EXTENDS Integers, FiniteSets

CONSTANTS
  Threads,   \* threads that allocate from the pool
  None,      \* NX_NULL
  Total,     \* nx_packet_pool_total
  ULongMax   \* the ULONG count wraps above this

DeleteAssumption ==
  /\ IsFiniteSet(Threads) /\ None \notin Threads
  /\ Total \in Nat
  /\ ULongMax \in Nat /\ ULongMax >= Cardinality(Threads)

VARIABLES
  valid,      \* nx_packet_pool_id # 0
  available,  \* nx_packet_pool_available
  used,       \* packets somebody has
  list,       \* nx_packet_pool_suspension_list
  count,      \* nx_packet_pool_suspended_count
  nxt, prv,   \* tx_thread_suspended_next, tx_thread_suspended_previous
  cleanup,    \* tx_thread_suspend_cleanup # NULL
  tstate,     \* running, or suspended in the pool
  status,     \* tx_thread_suspend_status
  step,       \* where nx_packet_pool_delete is
  walk,       \* its thread_ptr
  released    \* packets handed to the list since the deletion began (history)

poolVars == <<valid, available, used>>
listVars == <<list, count, nxt, prv>>
threadVars == <<cleanup, tstate, status>>
deleteVars == <<step, walk, released>>
vars == <<poolVars, listVars, threadVars, deleteVars>>

Init ==
  /\ valid = TRUE /\ available = Total /\ used = 0
  /\ list = None /\ count = 0
  /\ nxt = [t \in Threads |-> t] /\ prv = [t \in Threads |-> t]
  /\ cleanup = [t \in Threads |-> FALSE]
  /\ tstate = [t \in Threads |-> "running"]
  /\ status = [t \in Threads |-> "SUCCESS"]
  /\ step = "none" /\ walk = None /\ released = 0

Down(n) == (n + ULongMax) % (ULongMax + 1)

Unlink(t) ==
  IF nxt[t] = t THEN list' = None /\ UNCHANGED <<nxt, prv>>
  ELSE /\ list' = IF list = t THEN nxt[t] ELSE list
       /\ nxt' = [nxt EXCEPT ![prv[t]] = nxt[t]]
       /\ prv' = [prv EXCEPT ![nxt[t]] = prv[t]]

-----------------------------------------------------------------------------
(* nx_packet_allocate, with a packet and without one.  Preemption is off    *)
(* while the pool is deleted, so no thread allocates or times out then.     *)
Allocate(t) ==
  /\ valid /\ tstate[t] = "running" /\ available > 0
  /\ available' = available - 1 /\ used' = used + 1
  /\ UNCHANGED <<valid, listVars, threadVars, deleteVars>>
AllocateWait(t) ==
  /\ valid /\ tstate[t] = "running" /\ available = 0
  /\ IF list = None
       THEN list' = t /\ nxt' = [nxt EXCEPT ![t] = t] /\ prv' = [prv EXCEPT ![t] = t]
       ELSE /\ nxt' = [nxt EXCEPT ![t] = list, ![prv[list]] = t]
            /\ prv' = [prv EXCEPT ![t] = prv[list], ![list] = t]
            /\ UNCHANGED list
  /\ count' = count + 1
  /\ cleanup' = [cleanup EXCEPT ![t] = TRUE]
  /\ tstate' = [tstate EXCEPT ![t] = "suspended"]
  /\ UNCHANGED <<poolVars, status, deleteVars>>

(* _nx_packet_pool_cleanup.                                                 *)
Timeout(t) ==
  /\ valid /\ cleanup[t]
  /\ Unlink(t) /\ count' = Down(count)
  /\ cleanup' = [cleanup EXCEPT ![t] = FALSE]
  /\ tstate' = [tstate EXCEPT ![t] = "running"]
  /\ status' = [status EXCEPT ![t] = "NO_PACKET"]
  /\ UNCHANGED <<poolVars, deleteVars>>

(* nx_packet_release: to the first thread the list names, waiting or not,   *)
(* or to the pool.  _tx_thread_system_resume leaves a running thread alone. *)
(* It asks for nothing but the pool's list, so that an interrupt handler's  *)
(* comes between any two steps of the walk; its count is lost if it comes   *)
(* between the load and the store of the walk's own.                        *)
Release ==
  /\ used > 0 /\ step # "done"
  /\ IF list = None
       THEN /\ available' = available + 1 /\ used' = used - 1
            /\ UNCHANGED <<listVars, threadVars, released>>
       ELSE /\ released' = IF step = "none" THEN 0 ELSE released + 1
            /\ Unlink(list)
            /\ count' = Down(count) \/ (step = "resumed" /\ count' = count)
            /\ cleanup' = [cleanup EXCEPT ![list] = FALSE]
            /\ tstate' = [tstate EXCEPT ![list] = "running"]
            /\ status' = [status EXCEPT ![list] = "SUCCESS"]
            /\ UNCHANGED <<available, used>>
  /\ UNCHANGED <<valid, step, walk>>

-----------------------------------------------------------------------------
(* nx_packet_pool_delete: the pool becomes invalid; then for each counted   *)
(* waiter its cleanup pointer is cleared, its status set and the walk moved *)
(* on, the thread behind the walk resumed, and the count lowered.           *)
DeleteStart ==
  /\ step = "none"
  /\ valid' = FALSE /\ walk' = list /\ step' = "loop"
  /\ UNCHANGED <<available, used, listVars, threadVars, released>>
(* Mistake: the loop leaves one waiter out.                                 *)
DeleteLoopShort ==
  /\ step = "loop"
  /\ IF count <= 1 THEN step' = "done" /\ UNCHANGED cleanup
     ELSE /\ cleanup' = [cleanup EXCEPT ![walk] = FALSE]
          /\ step' = "cleared"
  /\ UNCHANGED <<poolVars, listVars, tstate, status, walk, released>>
DeleteLoop ==
  /\ step = "loop"
  /\ IF count = 0 THEN step' = "done" /\ UNCHANGED cleanup
     ELSE IF walk = None THEN step' = "fault" /\ UNCHANGED cleanup
     ELSE /\ cleanup' = [cleanup EXCEPT ![walk] = FALSE]
          /\ step' = "cleared"
  /\ UNCHANGED <<poolVars, listVars, tstate, status, walk, released>>
DeleteMove ==
  /\ step = "cleared"
  /\ status' = [status EXCEPT ![walk] = "POOL_DELETED"]
  /\ walk' = nxt[walk] /\ step' = "moved"
  /\ UNCHANGED <<poolVars, listVars, cleanup, tstate, released>>
DeleteResume ==
  /\ step = "moved"
  /\ tstate' = [tstate EXCEPT ![prv[walk]] = "running"]
  /\ step' = "resumed"
  /\ UNCHANGED <<poolVars, listVars, cleanup, status, walk, released>>
(* Mistake: the count is not lowered.                                       *)
DeleteUncounted ==
  /\ step = "resumed"
  /\ step' = "loop"
  /\ UNCHANGED <<poolVars, listVars, threadVars, walk, released>>
DeleteCount ==
  /\ step = "resumed"
  /\ count' = Down(count) /\ step' = "loop"
  /\ UNCHANGED <<poolVars, list, nxt, prv, threadVars, walk, released>>

Delete == DeleteStart \/ DeleteLoop \/ DeleteMove \/ DeleteResume \/ DeleteCount

Next ==
  \/ \E t \in Threads : Allocate(t) \/ AllocateWait(t) \/ Timeout(t)
  \/ Release \/ Delete

Spec == Init /\ [][Next]_vars

-----------------------------------------------------------------------------
(* Every variable has its type.                                             *)
TypeOK ==
  /\ valid \in BOOLEAN /\ available \in 0..Total /\ used \in 0..Total
  /\ list \in Threads \cup {None} /\ count \in 0..ULongMax
  /\ nxt \in [Threads -> Threads] /\ prv \in [Threads -> Threads]
  /\ cleanup \in [Threads -> BOOLEAN]
  /\ tstate \in [Threads -> {"running", "suspended"}]
  /\ status \in [Threads -> {"SUCCESS", "NO_PACKET", "POOL_DELETED"}]
  /\ step \in {"none", "loop", "cleared", "moved", "resumed", "done"}
  /\ walk \in Threads \cup {None} /\ released \in Nat

Suspended == {t \in Threads : tstate[t] = "suspended"}

(* nx_packet_pool_delete.c:122: the walk resumes "any and all threads       *)
(* suspended on this packet pool"; but each packet released meanwhile takes *)
(* a turn from it, even when it goes to a thread already resumed, and may   *)
(* leave a thread asleep for ever.                                          *)
DeleteWakesAll == step = "done" => Cardinality(Suspended) <= released

(* Until a packet is released the walk's count is the number of threads     *)
(* still suspended, and the walk is at one of them while there is any.      *)
WalkCounts ==
  step \in {"none", "loop"} /\ released = 0 =>
    /\ count = Cardinality(Suspended)
    /\ (step = "loop" /\ Suspended # {}) => walk \in Suspended

(* A thread that begins to run during the walk was handed a packet, or is   *)
(* told that the pool was deleted.  A release can make the walk resume the  *)
(* last thread of the list early, which is told nothing.                    *)
Told(t) ==
  (step = "moved" /\ released' = 0 /\ tstate[t] = "suspended" /\ tstate'[t] = "running")
    => status'[t] = "POOL_DELETED"
=============================================================================
