----------------------------- MODULE NetxTcpBind ----------------------------
(***************************************************************************)
(* TCP client ports: a socket that asks for a port another socket holds    *)
(* waits on the holder's suspension list; unbinding hands the port and the *)
(* rest of the list to the first waiter.  Time-outs come from the timer    *)
(* thread, which may not wait for the IP mutex: it only defers the cleanup *)
(* to the IP thread, whose check walks the suspension lists.               *)
(* (nx_tcp_client_socket_bind.c, nx_tcp_client_socket_unbind.c,            *)
(* nx_tcp_client_bind_cleanup.c, nx_tcp_deferred_cleanup_check.c,          *)
(* nx_tcp_socket_thread_suspend.c, nx_tcp_socket_thread_resume.c)          *)
(*                                                                         *)
(* Each socket has one thread that binds it, so a socket also names its    *)
(* thread.  The lists are the circular ones of the thread control blocks:  *)
(* the check reads a link of a thread it has already resumed, and ThreadX  *)
(* uses the same links when that thread waits for the mutex.               *)
(*                                                                         *)
(* Waiters that are handed over with the port keep their pointer to the    *)
(* socket that held it before, and their cleanup writes to that socket's   *)
(* list and count.  The behaviours include the first such cleanup (stale)  *)
(* and end with it: the lists of two sockets are mixed up from there on.   *)
(***************************************************************************)
EXTENDS Integers, FiniteSets

CONSTANTS
  Sockets,      \* client sockets, each with its thread
  Ports,        \* port numbers they bind
  None,         \* NX_NULL
  MaxWaiting,   \* bound on the threads waiting for one port
  ULongMax      \* the ULONG counters wrap above this

ASSUME BindAssumption ==
  /\ IsFiniteSet(Sockets) /\ None \notin Sockets \cup Ports
  /\ MaxWaiting \in Nat /\ ULongMax \in Nat \ {0} /\ MaxWaiting <= ULongMax

VARIABLES
  bound,       \* the socket the port table holds for each port
  port,        \* nx_tcp_socket_port
  inProgress,  \* nx_tcp_socket_bind_in_progress # NULL
  previous,    \* nx_tcp_socket_bound_previous of a socket that waits
  list,        \* nx_tcp_socket_bind_suspension_list: its head
  count,       \* nx_tcp_socket_bind_suspended_count
  nxt, prv,    \* tx_thread_suspended_next, tx_thread_suspended_previous
  cleanup,     \* tx_thread_suspend_cleanup
  armed,       \* the ThreadX timer of the suspended thread is running
  tstate,      \* running, in bind, or waiting for the IP mutex
  result,      \* status of the thread's last bind
  event,       \* NX_IP_TCP_CLEANUP_DEFERRED is set in nx_ip_events
  ip,          \* "idle", or the IP thread's check: "check", "walk", "fault"
  todo,        \* created sockets the check has yet to visit
  walk, left,  \* thread_ptr and suspended_threads of the check
  mutexList,   \* head of the list of threads waiting for the IP mutex
  stale,       \* history: a cleanup used a pointer to a socket without the port
  lost         \* history: the last check left a list by a relinked thread

tableVars == <<bound, port>>
sockVars == <<inProgress, previous, list, count>>
threadVars == <<nxt, prv, cleanup, armed, tstate, result>>
ipVars == <<event, ip, todo, walk, left, mutexList>>
history == <<stale, lost>>
vars == <<tableVars, sockVars, threadVars, ipVars, history>>

Init ==
  /\ bound = [p \in Ports |-> None] /\ port = [s \in Sockets |-> None]
  /\ inProgress = [s \in Sockets |-> FALSE]
  /\ previous = [s \in Sockets |-> None]
  /\ list = [s \in Sockets |-> None] /\ count = [s \in Sockets |-> 0]
  /\ nxt = [s \in Sockets |-> s] /\ prv = [s \in Sockets |-> s]
  /\ cleanup = [s \in Sockets |-> "NULL"] /\ armed = [s \in Sockets |-> FALSE]
  /\ tstate = [s \in Sockets |-> "running"]
  /\ result = [s \in Sockets |-> "NONE"]
  /\ event = FALSE /\ ip = "idle" /\ todo = {}
  /\ walk = None /\ left = 0 /\ mutexList = None
  /\ stale = FALSE /\ lost = FALSE

-----------------------------------------------------------------------------
MutexFree == ip = "idle"
Bound(s) == \E p \in Ports : bound[p] = s
SomeThread == \E u \in Sockets : tstate[u] = "running"

Down(n) == (n + ULongMax) % (ULongMax + 1)

(* The circular list with head h, after thread t is linked in at its tail,  *)
(* and after t is unlinked from whatever list its own links say.            *)
LinkAt(h, t) ==
  IF h = None
    THEN nxt' = [nxt EXCEPT ![t] = t] /\ prv' = [prv EXCEPT ![t] = t]
    ELSE /\ nxt' = [nxt EXCEPT ![t] = h, ![prv[h]] = t]
         /\ prv' = [prv EXCEPT ![t] = prv[h], ![h] = t]
Unlink(t) ==
  IF nxt[t] = t THEN UNCHANGED <<nxt, prv>>
  ELSE /\ nxt' = [nxt EXCEPT ![prv[t]] = nxt[t]]
       /\ prv' = [prv EXCEPT ![nxt[t]] = prv[t]]
HeadWithout(t) == IF nxt[t] = t THEN None ELSE nxt[t]

Resume(t, status) ==
  /\ cleanup' = [cleanup EXCEPT ![t] = "NULL"]
  /\ armed' = [armed EXCEPT ![t] = FALSE]
  /\ tstate' = [tstate EXCEPT ![t] = "running"]
  /\ result' = [result EXCEPT ![t] = status]

-----------------------------------------------------------------------------
(* _nx_tcp_client_socket_bind of a free port.                               *)
BindFree(s, p) ==
  /\ MutexFree /\ tstate[s] = "running"
  /\ ~ Bound(s) /\ ~ inProgress[s]
  /\ bound[p] = None
  /\ bound' = [bound EXCEPT ![p] = s] /\ port' = [port EXCEPT ![s] = p]
  /\ previous' = [previous EXCEPT ![s] = None]
  /\ result' = [result EXCEPT ![s] = "SUCCESS"]
  /\ UNCHANGED <<inProgress, list, count, nxt, prv, cleanup, armed, tstate, ipVars, history>>

(* _nx_tcp_client_socket_bind of a port another socket holds, with a wait   *)
(* option; without one it returns NX_PORT_UNAVAILABLE.                      *)
BindWait(s, p) ==
  /\ MutexFree /\ tstate[s] = "running"
  /\ ~ Bound(s) /\ ~ inProgress[s]
  /\ bound[p] # None
  /\ Cardinality({w \in Sockets : inProgress[w] /\ port[w] = p}) < MaxWaiting
  /\ port' = [port EXCEPT ![s] = p]
  /\ LET o == bound[p]
     IN /\ count' = [count EXCEPT ![o] = @ + 1]
        /\ inProgress' = [inProgress EXCEPT ![s] = TRUE]
        /\ previous' = [previous EXCEPT ![s] = o]
        /\ LinkAt(list[o], s)
        /\ list' = [list EXCEPT ![o] = IF @ = None THEN s ELSE @]
  /\ cleanup' = [cleanup EXCEPT ![s] = "BIND"]
  /\ armed' = [armed EXCEPT ![s] = TRUE]
  /\ tstate' = [tstate EXCEPT ![s] = "suspended"]
  /\ UNCHANGED <<bound, result, ipVars, history>>

(* Mistake: the cleanup takes the thread off the list but not off the count.*)
BindCleanupUncounted(t) ==
  LET o == previous[t]
  IN /\ inProgress' = [inProgress EXCEPT ![t] = FALSE]
     /\ list' = [list EXCEPT ![o] = HeadWithout(t)]
     /\ Unlink(t)
     /\ Resume(t, "PORT_UNAVAILABLE")
     /\ stale' = (stale \/ bound[port[t]] # o)
     /\ UNCHANGED <<tableVars, previous, count>>

(* _nx_tcp_client_bind_cleanup of thread t by a thread holding the mutex.   *)
BindCleanup(t) ==
  LET o == previous[t]
  IN /\ inProgress' = [inProgress EXCEPT ![t] = FALSE]
     /\ list' = [list EXCEPT ![o] = HeadWithout(t)]
     /\ Unlink(t)
     /\ count' = [count EXCEPT ![o] = Down(@)]
     /\ Resume(t, "PORT_UNAVAILABLE")
     /\ stale' = (stale \/ bound[port[t]] # o)
     /\ UNCHANGED <<tableVars, previous>>

(* Mistakes: a port somebody waits for is freed, handed to a waiter that is *)
(* not put in the table, or to one that stays marked as binding.            *)
UnbindFreeAnyway(s) ==
  /\ MutexFree /\ SomeThread
  /\ \E p \in Ports : bound[p] = s /\ bound' = [bound EXCEPT ![p] = None]
  /\ result' = [result EXCEPT ![s] = "NONE"]
  /\ UNCHANGED <<port, sockVars, nxt, prv, cleanup, armed, tstate, ipVars, history>>
HandOverTo(s, table, binding) ==
  /\ MutexFree /\ SomeThread /\ list[s] # None
  /\ \E p \in Ports : bound[p] = s /\ bound' = [bound EXCEPT ![p] = table]
  /\ inProgress' = [inProgress EXCEPT ![list[s]] = binding]
  /\ list' = [list EXCEPT ![s] = None, ![list[s]] = HeadWithout(list[s])]
  /\ count' = [count EXCEPT ![s] = 0, ![list[s]] = Down(count[s])]
  /\ previous' = [previous EXCEPT ![list[s]] = None]
  /\ Unlink(list[s])
  /\ cleanup' = [cleanup EXCEPT ![list[s]] = "NULL"]
  /\ armed' = [armed EXCEPT ![list[s]] = FALSE]
  /\ tstate' = [tstate EXCEPT ![list[s]] = "running"]
  /\ result' = [result EXCEPT ![s] = "NONE", ![list[s]] = "SUCCESS"]
  /\ UNCHANGED <<port, ipVars, history>>
UnbindHandOverUntabled(s) == HandOverTo(s, None, FALSE)
UnbindHandOverBinding(s) == HandOverTo(s, list[s], TRUE)

(* _nx_tcp_client_socket_unbind of a bound socket nobody waits for, of one  *)
(* with waiters, and of a socket that still waits in bind.                  *)
UnbindFree(s) ==
  /\ MutexFree /\ SomeThread
  /\ list[s] = None
  /\ \E p \in Ports : bound[p] = s /\ bound' = [bound EXCEPT ![p] = None]
  /\ result' = [result EXCEPT ![s] = "NONE"]
  /\ UNCHANGED <<port, sockVars, nxt, prv, cleanup, armed, tstate, ipVars, history>>

UnbindHandOver(s) ==
  /\ MutexFree /\ SomeThread
  /\ list[s] # None
  /\ LET new == list[s]
     IN /\ \E p \in Ports : bound[p] = s /\ bound' = [bound EXCEPT ![p] = new]
        /\ inProgress' = [inProgress EXCEPT ![new] = FALSE]
        /\ list' = [list EXCEPT ![s] = None, ![new] = HeadWithout(new)]
        /\ count' = [count EXCEPT ![s] = 0, ![new] = Down(count[s])]
        /\ previous' = [previous EXCEPT ![new] = None]
        /\ Unlink(new)
        /\ cleanup' = [cleanup EXCEPT ![new] = "NULL"]
        /\ armed' = [armed EXCEPT ![new] = FALSE]
        /\ tstate' = [tstate EXCEPT ![new] = "running"]
        /\ result' = [result EXCEPT ![s] = "NONE", ![new] = "SUCCESS"]
  /\ UNCHANGED <<port, ipVars, history>>

UnbindWaiting(s) ==
  /\ MutexFree /\ SomeThread
  /\ ~ Bound(s) /\ inProgress[s] /\ cleanup[s] # "NULL"
  /\ BindCleanup(s)
  /\ UNCHANGED <<ipVars, lost>>

-----------------------------------------------------------------------------
(* Mistake: the cleanup is deferred but the IP thread is not told.          *)
TimerExpireSilent(s) ==
  /\ tstate[s] = "suspended" /\ armed[s]
  /\ armed' = [armed EXCEPT ![s] = FALSE]
  /\ cleanup' = [cleanup EXCEPT ![s] = "DEFERRED"]
  /\ UNCHANGED <<tableVars, sockVars, nxt, prv, tstate, result, ipVars, history>>

(* The timer thread calls _nx_tcp_client_bind_cleanup: it marks the cleanup *)
(* as deferred and signals the IP thread.                                   *)
TimerExpire(s) ==
  /\ tstate[s] = "suspended" /\ armed[s]
  /\ armed' = [armed EXCEPT ![s] = FALSE]
  /\ cleanup' = [cleanup EXCEPT ![s] = "DEFERRED"]
  /\ event' = TRUE
  /\ UNCHANGED <<tableVars, sockVars, nxt, prv, tstate, result, ip, todo, walk, left, mutexList, history>>

(* The IP thread takes the event and the mutex, and visits every created    *)
(* socket; a counted list with no head is a NULL dereference.               *)
CheckStart ==
  /\ event /\ ip = "idle"
  /\ event' = FALSE /\ ip' = "check" /\ todo' = Sockets /\ lost' = FALSE
  /\ UNCHANGED <<tableVars, sockVars, threadVars, walk, left, mutexList, stale>>

CheckSocket(s) ==
  /\ ip = "check" /\ s \in todo
  /\ todo' = todo \ {s}
  /\ walk' = list[s] /\ left' = count[s]
  /\ ip' = IF count[s] = 0 THEN "check" ELSE IF list[s] = None THEN "fault" ELSE "walk"
  /\ UNCHANGED <<tableVars, sockVars, threadVars, event, mutexList, history>>

(* One turn over a suspension list: clean up the thread if its time-out was *)
(* deferred, then (CheckNext) follow the thread's link as it is now.        *)
CheckThread ==
  /\ ip = "walk"
  /\ IF cleanup[walk] = "DEFERRED" THEN BindCleanup(walk)
     ELSE UNCHANGED <<tableVars, sockVars, threadVars, stale>>
  /\ ip' = "next"
  /\ UNCHANGED <<event, todo, walk, left, mutexList, lost>>

(* Mistake: the loop over the list is one turn short.                       *)
CheckNextShort ==
  /\ ip = "next"
  /\ walk' = nxt[walk] /\ left' = left - 1
  /\ ip' = IF left <= 2 THEN "check" ELSE "walk"
  /\ lost' = (lost \/ (left > 2 /\ tstate[walk] = "mutex"))
  /\ UNCHANGED <<tableVars, sockVars, threadVars, event, todo, mutexList, stale>>

CheckNext ==
  /\ ip = "next"
  /\ walk' = nxt[walk] /\ left' = left - 1
  /\ ip' = IF left = 1 THEN "check" ELSE "walk"
  /\ lost' = (lost \/ (left > 1 /\ tstate[walk] = "mutex"))
  /\ UNCHANGED <<tableVars, sockVars, threadVars, event, todo, mutexList, stale>>

(* A thread just resumed, of higher priority than the IP thread, calls a    *)
(* service and waits for the mutex the IP thread holds.                     *)
MutexWait(t) ==
  /\ ip \in {"check", "walk", "next"} /\ tstate[t] = "running"
  /\ LinkAt(mutexList, t)
  /\ mutexList' = IF mutexList = None THEN t ELSE mutexList
  /\ tstate' = [tstate EXCEPT ![t] = "mutex"]
  /\ cleanup' = [cleanup EXCEPT ![t] = "MUTEX"]
  /\ UNCHANGED <<tableVars, sockVars, armed, result, event, ip, todo, walk, left, history>>

(* The check is over: the mutex goes to those who wait for it.              *)
CheckEnd ==
  /\ ip = "check" /\ todo = {}
  /\ ip' = "idle" /\ mutexList' = None
  /\ tstate' = [t \in Sockets |-> IF tstate[t] = "mutex" THEN "running" ELSE tstate[t]]
  /\ cleanup' = [t \in Sockets |-> IF tstate[t] = "mutex" THEN "NULL" ELSE cleanup[t]]
  /\ UNCHANGED <<tableVars, sockVars, nxt, prv, armed, result, event, todo, walk, left, history>>

IpThread ==
  /\ ~ stale
  /\ \/ CheckStart \/ CheckThread \/ CheckNext \/ CheckEnd
     \/ \E s \in Sockets : CheckSocket(s)

Thread(s) ==
  /\ ~ stale
  /\ \/ \E p \in Ports : BindFree(s, p) \/ BindWait(s, p)
     \/ UnbindFree(s) \/ UnbindHandOver(s) \/ UnbindWaiting(s)
     \/ TimerExpire(s) \/ MutexWait(s)

(* What follows a stale cleanup is left out.                                *)
Ended == stale /\ UNCHANGED vars

Next == (\E s \in Sockets : Thread(s)) \/ IpThread \/ Ended

Spec == Init /\ [][Next]_vars

(* The timer runs, and nothing keeps the IP thread from its check: all its  *)
(* steps are taken holding the mutex.                                       *)
FairSpec == Spec /\ WF_vars(IpThread)
-----------------------------------------------------------------------------
Waits(s) == tstate[s] = "suspended"
Waiting(o) == {s \in Sockets : Waits(s) /\ bound[port[s]] = o}

(* Every variable has its type.                                             *)
TypeOK ==
  /\ bound \in [Ports -> Sockets \cup {None}]
  /\ port \in [Sockets -> Ports \cup {None}]
  /\ inProgress \in [Sockets -> BOOLEAN]
  /\ previous \in [Sockets -> Sockets \cup {None}]
  /\ list \in [Sockets -> Sockets \cup {None}] /\ count \in [Sockets -> 0..ULongMax]
  /\ nxt \in [Sockets -> Sockets] /\ prv \in [Sockets -> Sockets]
  /\ cleanup \in [Sockets -> {"NULL", "BIND", "DEFERRED", "MUTEX"}]
  /\ armed \in [Sockets -> BOOLEAN]
  /\ tstate \in [Sockets -> {"running", "suspended", "mutex"}]
  /\ result \in [Sockets -> {"NONE", "SUCCESS", "PORT_UNAVAILABLE"}]
  /\ event \in BOOLEAN /\ ip \in {"idle", "check", "walk", "next"}
  /\ todo \subseteq Sockets /\ walk \in Sockets \cup {None} /\ left \in 0..ULongMax
  /\ mutexList \in Sockets \cup {None} /\ stale \in BOOLEAN /\ lost \in BOOLEAN

(* A socket is in the port table exactly when its last bind returned        *)
(* NX_SUCCESS and it was not unbound since, however its wait ended.         *)
ResultTellsTable ==
  ~ stale => \A s \in Sockets : Bound(s) <=> result[s] = "SUCCESS"

(* The list of a socket is the ring of exactly the threads that wait for    *)
(* its port, whoever held the port when they came, and they are counted.    *)
WaitersListed ==
  ~ stale =>
    \A o \in Sockets :
      /\ inProgress[o] <=> Waits(o)
      /\ count[o] = Cardinality(Waiting(o))
      /\ IF Waiting(o) = {} THEN list[o] = None ELSE list[o] \in Waiting(o)
      /\ \A w \in Waiting(o) : nxt[w] \in Waiting(o) /\ prv[nxt[w]] = w
      /\ \A S \in SUBSET Waiting(o) :
           S # {} /\ (\A w \in S : nxt[w] \in S) => S = Waiting(o)

(* A port somebody waits for never becomes free: it changes hands, or its   *)
(* waiters give up first.                                                   *)
PortHandedOver ==
  [][\A p \in Ports :
       ~ stale /\ bound[p] # None /\ (\E s \in Sockets : Waits(s) /\ port[s] = p /\ Waits(s)')
         => bound'[p] # None]_vars

(* A wait whose time has expired ends, unless the check loses its way.      *)
ExpiredWaitEnds ==
  \A s \in Sockets : cleanup[s] = "DEFERRED" ~> ~ Waits(s) \/ stale \/ lost

(* nx_tcp_deferred_cleanup_check.c:104: the check looks at every suspended  *)
(* thread "to determine if there is a timeout": unless it followed the link *)
(* of a thread that waits for the mutex, it leaves none with a deferred     *)
(* cleanup and no event to have it looked at again.                         *)
NoTimeoutMissed ==
  \A s \in Sockets :
    ip = "idle" /\ ~ event /\ ~ stale /\ ~ lost => cleanup[s] # "DEFERRED"
=============================================================================
