----------------------------- MODULE NetxUdpBind ----------------------------
(***************************************************************************)
(* UDP ports: a socket that asks for a port another socket holds waits on  *)
(* the holder's suspension list; unbind gives the port and the rest of the *)
(* list to the first waiter.  Unlike TCP's, the time-out edits the list    *)
(* from the timer thread itself, under TX_DISABLE only, so it may come     *)
(* while unbind holds the mutex.                                           *)
(* (nx_udp_socket_bind.c, nx_udp_socket_unbind.c, nx_udp_bind_cleanup.c,   *)
(* nx_udp_free_port_find.c, nx_udp_socket_delete.c)                        *)
(*                                                                         *)
(* Each socket has a thread that binds it, so a socket also names its      *)
(* thread.  The rings of the port table and what unbind does to the        *)
(* receive queue are NetxUdpReceive's.  nx_udp_socket_bind_suspended_count *)
(* is written and never read: it is left out.                              *)
(***************************************************************************)
EXTENDS Integers, FiniteSets

CONSTANTS
  Sockets,      \* UDP sockets, each with its thread
  Ports,        \* port numbers they bind
  None,         \* NX_NULL
  MaxWaiting,   \* bound on the threads waiting for one port
  GiveUp        \* a wait may end without the port: time-out, or unbind

UdpBindAssumption ==
  /\ IsFiniteSet(Sockets) /\ None \notin Sockets \cup Ports
  /\ MaxWaiting \in Nat /\ GiveUp \in BOOLEAN

VARIABLES
  bound,       \* the socket the port table holds for each port
  port,        \* nx_udp_socket_port
  inProgress,  \* nx_udp_socket_bind_in_progress # NULL
  previous,    \* nx_udp_socket_bound_previous of a socket that waits
  list,        \* nx_udp_socket_bind_suspension_list: its head
  nxt, prv,    \* tx_thread_suspended_next, tx_thread_suspended_previous
  cleanup,     \* tx_thread_suspend_cleanup # NULL
  tstate,      \* running, or suspended in bind
  result,      \* status of the last bind; NONE after unbind
  unbinding,   \* socket whose unbind holds the mutex
  step         \* what that unbind does next: "handover", "cleanup"

threadVars == <<nxt, prv, cleanup, tstate>>
mutexVars == <<unbinding, step>>
vars == <<bound, port, inProgress, previous, list, threadVars, result, mutexVars>>

Init ==
  /\ bound = [p \in Ports |-> None] /\ port = [s \in Sockets |-> None]
  /\ inProgress = [s \in Sockets |-> FALSE] /\ previous = [s \in Sockets |-> None]
  /\ list = [s \in Sockets |-> None]
  /\ nxt = [s \in Sockets |-> s] /\ prv = [s \in Sockets |-> s]
  /\ cleanup = [s \in Sockets |-> FALSE]
  /\ tstate = [s \in Sockets |-> "running"] /\ result = [s \in Sockets |-> "NONE"]
  /\ unbinding = None /\ step = "none"

-----------------------------------------------------------------------------
MutexFree == unbinding = None
Bound(s) == \E p \in Ports : bound[p] = s
MayBind(s) == MutexFree /\ tstate[s] = "running" /\ ~ Bound(s) /\ ~ inProgress[s]
MayUnbind(s) == MutexFree /\ \E u \in Sockets : tstate[u] = "running"

(* _nx_udp_socket_bind of a free port, given or found; of a taken one with  *)
(* a wait option, and without.                                              *)
BindFree(s, p) ==
  /\ MayBind(s) /\ bound[p] = None
  /\ bound' = [bound EXCEPT ![p] = s] /\ port' = [port EXCEPT ![s] = p]
  /\ previous' = [previous EXCEPT ![s] = None]
  /\ result' = [result EXCEPT ![s] = "SUCCESS"]
  /\ UNCHANGED <<inProgress, list, threadVars, mutexVars>>

BindUnavailable(s, p) ==
  /\ MayBind(s) /\ bound[p] # None
  /\ port' = [port EXCEPT ![s] = p]
  /\ result' = [result EXCEPT ![s] = "UNAVAILABLE"]
  /\ UNCHANGED <<bound, inProgress, previous, list, threadVars, mutexVars>>

WaitOn(s, p, first) ==
  LET o == bound[p]
      h == list[o]
  IN /\ MayBind(s) /\ o # None
     /\ Cardinality({w \in Sockets : inProgress[w] /\ port[w] = p}) < MaxWaiting
     /\ port' = [port EXCEPT ![s] = p]
     /\ previous' = [previous EXCEPT ![s] = o]
     /\ inProgress' = [inProgress EXCEPT ![s] = TRUE]
     /\ list' = [list EXCEPT ![o] = IF first \/ h = None THEN s ELSE h]
     /\ nxt' = IF h = None THEN [nxt EXCEPT ![s] = s]
               ELSE [nxt EXCEPT ![s] = h, ![prv[h]] = s]
     /\ prv' = IF h = None THEN [prv EXCEPT ![s] = s]
               ELSE [prv EXCEPT ![s] = prv[h], ![h] = s]
     /\ cleanup' = [cleanup EXCEPT ![s] = TRUE]
     /\ tstate' = [tstate EXCEPT ![s] = "suspended"]
     /\ UNCHANGED <<bound, result, mutexVars>>

(* Mistake: the waiter comes before those already there.                    *)
BindWaitFirst(s, p) == WaitOn(s, p, TRUE)
BindWait(s, p) == WaitOn(s, p, FALSE)

(* Thread t off the list its own links say; what is then its head.          *)
Unlink(t) ==
  IF nxt[t] = t THEN UNCHANGED <<nxt, prv>>
  ELSE /\ nxt' = [nxt EXCEPT ![prv[t]] = nxt[t]]
       /\ prv' = [prv EXCEPT ![nxt[t]] = prv[t]]
HeadWithout(t) == IF nxt[t] = t THEN None ELSE nxt[t]

(* _nx_udp_bind_cleanup of thread t, if it is still required.               *)
BindCleanup(t) ==
  IF ~ cleanup[t] THEN UNCHANGED <<inProgress, list, threadVars, result>>
  ELSE /\ inProgress' = [inProgress EXCEPT ![t] = FALSE]
       /\ list' = [list EXCEPT ![previous[t]] = HeadWithout(t)]
       /\ Unlink(t)
       /\ cleanup' = [cleanup EXCEPT ![t] = FALSE]
       /\ tstate' = [tstate EXCEPT ![t] = "running"]
       /\ result' = [result EXCEPT ![t] = "UNAVAILABLE"]

(* The time-out, from the timer thread.                                     *)
Expire(t) ==
  /\ GiveUp /\ tstate[t] = "suspended"
  /\ BindCleanup(t)
  /\ UNCHANGED <<bound, port, previous, mutexVars>>

-----------------------------------------------------------------------------
(* _nx_udp_socket_unbind: out of the port table, then, when the receive     *)
(* queue is dealt with, the port to the first waiter.                       *)
UnbindTable(s, p) ==
  /\ MayUnbind(s) /\ bound[p] = s
  /\ bound' = [bound EXCEPT ![p] = None]
  /\ result' = [result EXCEPT ![s] = "NONE"]
  /\ unbinding' = s /\ step' = "handover"
  /\ UNCHANGED <<port, inProgress, previous, list, threadVars>>

HandOverTo(owner) ==
  LET s == unbinding
      n == list[s]
  IN /\ step = "handover" /\ unbinding' = None /\ step' = "none"
     /\ IF n = None THEN UNCHANGED <<bound, inProgress, previous, list, threadVars, result>>
        ELSE /\ bound' = [bound EXCEPT ![port[s]] = owner]
             /\ inProgress' = [inProgress EXCEPT ![n] = FALSE]
             /\ previous' = [previous EXCEPT ![n] = None]
             /\ list' = [list EXCEPT ![s] = None, ![n] = HeadWithout(n)]
             /\ Unlink(n)
             /\ cleanup' = [cleanup EXCEPT ![n] = FALSE]
             /\ tstate' = [tstate EXCEPT ![n] = "running"]
             /\ result' = [result EXCEPT ![n] = "SUCCESS"]
     /\ UNCHANGED port

(* Mistake: the port table does not get the new owner.                      *)
HandOverUntabled == HandOverTo(None)
HandOver == HandOverTo(list[unbinding])

(* Unbind of a socket that still waits in bind: it reads the thread, and    *)
(* then cleans it up, unless the time-out came in between.                  *)
UnbindWaiting(s) ==
  /\ GiveUp /\ MayUnbind(s) /\ ~ Bound(s) /\ inProgress[s]
  /\ unbinding' = s /\ step' = "cleanup"
  /\ UNCHANGED <<bound, port, inProgress, previous, list, threadVars, result>>
UnbindCleanup ==
  /\ step = "cleanup" /\ unbinding' = None /\ step' = "none"
  /\ BindCleanup(unbinding)
  /\ UNCHANGED <<bound, port, previous>>

Next ==
  \/ \E s \in Sockets :
       \/ \E p \in Ports :
            BindFree(s, p) \/ BindUnavailable(s, p) \/ BindWait(s, p) \/ UnbindTable(s, p)
       \/ Expire(s) \/ UnbindWaiting(s)
  \/ HandOver \/ UnbindCleanup

Spec == Init /\ [][Next]_vars
-----------------------------------------------------------------------------
Waits(s) == tstate[s] = "suspended"
Waiting(p) == {s \in Sockets : Waits(s) /\ port[s] = p}

(* The thread n places behind the head of a list.                           *)
Behind(o, n) ==
  LET at[i \in 0..n] == IF i = 0 THEN list[o] ELSE nxt[at[i - 1]] IN at[n]

(* Who holds the port of a waiter, and how many wait before it.             *)
Owner(p) ==
  IF bound[p] # None THEN bound[p]
  ELSE IF unbinding # None /\ step = "handover" /\ port[unbinding] = p THEN unbinding
  ELSE None
Before(s) ==
  CHOOSE n \in 0..Cardinality(Sockets) :
    Behind(Owner(port[s]), n) = s /\ \A m \in 0..n - 1 : Behind(Owner(port[s]), m) # s

(* Every variable has its type.                                             *)
TypeOK ==
  /\ bound \in [Ports -> Sockets \cup {None}] /\ port \in [Sockets -> Ports \cup {None}]
  /\ inProgress \in [Sockets -> BOOLEAN] /\ previous \in [Sockets -> Sockets \cup {None}]
  /\ list \in [Sockets -> Sockets \cup {None}]
  /\ nxt \in [Sockets -> Sockets] /\ prv \in [Sockets -> Sockets]
  /\ cleanup \in [Sockets -> BOOLEAN] /\ tstate \in [Sockets -> {"running", "suspended"}]
  /\ result \in [Sockets -> {"NONE", "SUCCESS", "UNAVAILABLE"}]
  /\ unbinding \in Sockets \cup {None} /\ step \in {"none", "handover", "cleanup"}

(* A socket has a port exactly when its last bind returned NX_SUCCESS and   *)
(* it was not unbound since, however its wait ended and who was first.      *)
ResultTellsTable == \A s \in Sockets : Bound(s) <=> result[s] = "SUCCESS"

(* Who waits for a port is on the list of the socket that holds it, and     *)
(* nobody else is; between unbind's two parts, on the list of the old one.  *)
WaitersListed ==
  \A p \in Ports :
    LET o == Owner(p)
        n == Cardinality(Waiting(p))
    IN /\ n > 0 => o # None
       /\ o # None => (list[o] = None <=> n = 0)
       /\ o # None /\ n > 0 => {Behind(o, i) : i \in 0..n - 1} = Waiting(p)
                               /\ Behind(o, n) = list[o]

(* A wait that ended left nothing behind: the socket can be bound again.    *)
BindingWaits == \A s \in Sockets : inProgress[s] <=> Waits(s)

(* nx_udp_socket_unbind.c:349: the port goes to a thread that is "suspended *)
(* on trying to bind to the same port", if it does not go free.             *)
HandedToWaiter ==
  \A p \in Ports : step = "handover" /\ bound[p] = None /\ bound'[p] # None
    => Waits(bound'[p]) /\ port[bound'[p]] = p

(* Nobody is overtaken: the number of threads before a waiter only falls.   *)
OvertakesNobody ==
  \A s \in Sockets : Waits(s) /\ Waits(s)' => Before(s)' <= Before(s)
=============================================================================
