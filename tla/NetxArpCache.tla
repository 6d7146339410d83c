----------------------------- MODULE NetxArpCache ---------------------------
(***************************************************************************)
(* The ARP cache: the entries of one index of nx_ip_arp_table and of the   *)
(* dynamic and static lists, the packets that wait in an entry for the     *)
(* physical address, and the period in which entries are asked for again   *)
(* and given up.  Every operation runs under the IP mutex; interrupt       *)
(* handlers only queue ARP packets for the IP thread.                      *)
(* (nx_arp_entry_allocate.c, nx_arp_dynamic_entry_delete.c,                *)
(* nx_arp_dynamic_entry_set.c, nx_arp_dynamic_entries_invalidate.c,        *)
(* nx_arp_entry_delete.c, nx_arp_static_entry_create.c,                    *)
(* nx_arp_static_entry_delete.c, nx_arp_packet_receive.c,                  *)
(* nx_arp_queue_send.c, nx_arp_periodic_update.c and the address mapping   *)
(* of nx_ip_driver_packet_send.c)                                          *)
(*                                                                         *)
(* The circular lists are sequences from their head; a physical address is *)
(* known or not.  The hosts that answer, or do not, are external.          *)
(***************************************************************************)
EXTENDS Integers, FiniteSets, SequencesExt

CONSTANTS
  Entries,         \* NX_ARP structures in the cache memory
  Addresses,       \* IP addresses with one index in the table
  Packets,         \* packets to send
  None,
  UpdateRate,      \* NX_ARP_UPDATE_RATE
  ExpirationRate,  \* NX_ARP_EXPIRATION_RATE: zero for never
  MaxRetries,      \* NX_ARP_MAXIMUM_RETRIES
  MaxQueue,        \* NX_ARP_MAX_QUEUE_DEPTH
  Services         \* services the application calls

ArpAssumption ==
  /\ IsFiniteSet(Entries) /\ None \notin Addresses
  /\ {UpdateRate, MaxQueue} \subseteq Nat \ {0}
  /\ {ExpirationRate, MaxRetries} \subseteq Nat
  /\ Services \subseteq {"ask", "set", "static", "static delete", "delete", "invalidate"}

VARIABLES
  dynamic,  \* nx_ip_arp_dynamic_list, by nx_arp_pool_next
  static,   \* nx_ip_arp_static_list, as a set
  ring,     \* nx_ip_arp_table[index], by nx_arp_active_next
  count,    \* nx_ip_arp_dynamic_active_count
  entry,    \* the other fields of an entry
  walk      \* the period's turn: i and arp_entry

vars == <<dynamic, static, ring, count, entry, walk>>

Init ==
  /\ dynamic \in {q \in [1..Cardinality(Entries) -> Entries] : ToSet(q) = Entries}
  /\ static = {} /\ ring = <<>> /\ count = 0
  /\ entry = [e \in Entries |->
                [ip |-> None, known |-> FALSE, timer |-> 0, retries |-> 0,
                 interface |-> FALSE, waiting |-> <<>>]]
  /\ walk = None

-----------------------------------------------------------------------------
MutexFree == walk = None
Active(e) == e \in ToSet(ring)
(* A list with only its entries of S left in it, and one without entry e.   *)
Kept(q, S) ==
  LET F[n \in 0..Len(q)] == IF n = 0 THEN <<>>
                            ELSE IF q[n] \in S THEN Append(F[n - 1], q[n]) ELSE F[n - 1]
  IN F[Len(q)]
Without(q, e) == Kept(q, Entries \ {e})
Found(a) == {e \in ToSet(ring) : entry[e].ip = a}

Waiting == UNION {ToSet(entry[e].waiting) : e \in Entries}
Released(e) == [entry[e] EXCEPT !.waiting = <<>>]

(* _nx_arp_entry_allocate takes the last dynamic entry, active or not, and  *)
(* the caller fills it in.                                                  *)
Filled(a, known, timer, waiting) ==
  [ip |-> a, known |-> known, timer |-> timer, retries |-> 0,
   interface |-> TRUE, waiting |-> waiting]
Allocate(r) ==
  LET e == Last(dynamic)
  IN /\ dynamic # <<>>
     /\ ring' = Append(Without(ring, e), e)
     /\ dynamic' = <<e>> \o Front(dynamic)
     /\ count' = IF Active(e) THEN count ELSE count + 1
     /\ entry' = [entry EXCEPT ![e] = r]
     /\ UNCHANGED static

-----------------------------------------------------------------------------
(* _nx_ip_driver_packet_send of packet k to next hop a.  To a known address *)
(* it goes to the driver, and the entry becomes the first of its ring;      *)
(* otherwise it waits, and the oldest goes when too many wait.              *)
Rotated(e) ==
  LET n == CHOOSE m \in 1..Len(ring) : ring[m] = e
  IN SubSeq(ring, n, Len(ring)) \o SubSeq(ring, 1, n - 1)
SendKnown(a) ==
  \E e \in Found(a) :
    /\ entry[e].known
    /\ ring' = Rotated(e)
    /\ UNCHANGED <<dynamic, static, count, entry>>
SendWait(k, a) ==
  /\ k \notin Waiting
  /\ \E e \in Found(a) :
       /\ ~ entry[e].known
       /\ LET all == Append(entry[e].waiting, k)
              full == Len(entry[e].waiting) >= MaxQueue
          IN entry' = [entry EXCEPT ![e].waiting = IF full THEN Tail(all) ELSE all]
  /\ UNCHANGED <<dynamic, static, ring, count>>
SendAllocate(k, a) ==
  /\ k \notin Waiting /\ Found(a) = {}
  /\ Allocate(Filled(a, FALSE, UpdateRate, <<k>>))

(* _nx_arp_packet_receive from address a: a dynamic entry is refreshed and  *)
(* what waits there is sent; without an entry, one is allocated.            *)
Receive(a) ==
  \E e \in Found(a) \ static :
    /\ entry' = [entry EXCEPT ![e] = Filled(a, TRUE, ExpirationRate, <<>>)]
    /\ UNCHANGED <<dynamic, static, ring, count>>
ReceiveNew(a) ==
  Found(a) = {} /\ Allocate(Filled(a, TRUE, ExpirationRate, <<>>))

-----------------------------------------------------------------------------
(* The services: _nx_arp_dynamic_entry_set, without and with a physical     *)
(* address,                                                                 *)
Ask(a) ==
  /\ "ask" \in Services
  /\ IF Found(a) = {} THEN Allocate(Filled(a, FALSE, UpdateRate, <<>>))
     ELSE \E e \in Found(a) \ static :
            /\ entry' = [entry EXCEPT ![e] = Filled(a, FALSE, UpdateRate, @.waiting)]
            /\ UNCHANGED <<dynamic, static, ring, count>>
Set(a) ==
  "set" \in Services /\ (Receive(a) \/ ReceiveNew(a))

(* _nx_arp_static_entry_create: a dynamic entry becomes static; otherwise   *)
(* the last dynamic one is taken, active or not.                            *)
StaticFilled(e, a) ==
  [Filled(a, TRUE, 0, <<>>) EXCEPT !.retries = entry[e].retries]
StaticMove(a) ==
  /\ "static" \in Services
  /\ \E e \in Found(a) \ static :
       /\ dynamic' = Without(dynamic, e) /\ static' = static \cup {e}
       /\ count' = count - 1
       /\ entry' = [entry EXCEPT ![e] = StaticFilled(e, a)]
       /\ UNCHANGED ring
StaticNew(a) ==
  LET e == Last(dynamic)
  IN /\ "static" \in Services /\ Found(a) = {} /\ dynamic # <<>>
     /\ dynamic' = Front(dynamic) /\ static' = static \cup {e}
     /\ ring' = Append(Without(ring, e), e)
     /\ count' = IF Active(e) THEN count - 1 ELSE count
     /\ entry' = [entry EXCEPT ![e] = StaticFilled(e, a)]

(* _nx_arp_static_entry_delete, also of a static entry that                 *)
(* _nx_arp_entry_delete found: to the end of the dynamic list.              *)
StaticDelete(a) ==
  /\ Services \cap {"static delete", "delete"} # {}
  /\ \E e \in Found(a) \cap static :
       /\ dynamic' = Append(dynamic, e) /\ static' = static \ {e}
       /\ ring' = Without(ring, e)
       /\ UNCHANGED <<count, entry>>

(* _nx_arp_entry_delete of a dynamic entry, which keeps its place.          *)
(* Mistake: the packets that wait there are forgotten.                      *)
DeleteKeepPackets(a) ==
  /\ "delete" \in Services
  /\ \E e \in Found(a) \ static :
       /\ ring' = Without(ring, e) /\ count' = count - 1
       /\ UNCHANGED <<dynamic, static, entry>>
Delete(a) ==
  /\ "delete" \in Services
  /\ \E e \in Found(a) \ static :
       /\ ring' = Without(ring, e) /\ count' = count - 1
       /\ entry' = [entry EXCEPT ![e] = Released(e)]
       /\ UNCHANGED <<dynamic, static>>

(* _nx_arp_dynamic_entries_invalidate walks the dynamic list until no entry *)
(* is counted active.                                                       *)
Invalidate ==
  LET walked(n) == Cardinality({m \in 1..(n - 1) : Active(dynamic[m])}) < count
      gone == {dynamic[n] : n \in {m \in DOMAIN dynamic : walked(m)}}
  IN /\ "invalidate" \in Services
     /\ ring' = Kept(ring, Entries \ gone)
     /\ count' = count - Cardinality({e \in gone : Active(e)})
     /\ entry' = [e \in Entries |->
                    IF e \notin gone THEN entry[e]
                    ELSE [entry[e] EXCEPT !.interface = FALSE,
                            !.waiting = IF Active(e) THEN <<>> ELSE @]]
     /\ UNCHANGED <<dynamic, static>>

-----------------------------------------------------------------------------
(* _nx_arp_periodic_update: from the head of the dynamic list, as many      *)
(* entries as are counted active when the loop looks; each turn is a step,  *)
(* and the next entry is the one behind this one when the turn is over.     *)
PeriodStart ==
  /\ MutexFree /\ count > 0
  /\ walk' = [i |-> 0, at |-> Head(dynamic)]
  /\ UNCHANGED <<dynamic, static, ring, count, entry>>

Behind(q, e) ==
  LET n == CHOOSE m \in 1..Len(q) : q[m] = e IN IF n = Len(q) THEN q[1] ELSE q[n + 1]
WalkOn ==
  walk' = IF walk.i + 1 < count'
            THEN [i |-> walk.i + 1, at |-> Behind(dynamic', walk.at)] ELSE None

PeriodAge ==
  /\ ~ MutexFree /\ entry[walk.at].timer # 1
  /\ entry' = [entry EXCEPT ![walk.at].timer = IF @ = 0 THEN 0 ELSE @ - 1]
  /\ UNCHANGED <<dynamic, static, ring, count>>
  /\ WalkOn
PeriodAsk ==
  /\ ~ MutexFree /\ entry[walk.at].timer = 1 /\ entry[walk.at].retries # MaxRetries
  /\ entry' = [entry EXCEPT ![walk.at].retries = @ + 1, ![walk.at].timer = UpdateRate]
  /\ UNCHANGED <<dynamic, static, ring, count>>
  /\ WalkOn

(* The entry is given up and goes to the end of the list.                   *)
(* Mistake: what waits in it is kept.                                       *)
PeriodGiveUpKeep ==
  /\ ~ MutexFree /\ entry[walk.at].timer = 1 /\ entry[walk.at].retries = MaxRetries
  /\ entry' = [entry EXCEPT ![walk.at].timer = 0]
  /\ ring' = Without(ring, walk.at)
  /\ count' = IF Active(walk.at) THEN count - 1 ELSE count
  /\ dynamic' = Append(Without(dynamic, walk.at), walk.at)
  /\ UNCHANGED static
  /\ WalkOn
PeriodGiveUp ==
  /\ ~ MutexFree /\ entry[walk.at].timer = 1 /\ entry[walk.at].retries = MaxRetries
  /\ entry' = [entry EXCEPT ![walk.at].timer = 0, ![walk.at].waiting = <<>>]
  /\ ring' = Without(ring, walk.at)
  /\ count' = IF Active(walk.at) THEN count - 1 ELSE count
  /\ dynamic' = Append(Without(dynamic, walk.at), walk.at)
  /\ UNCHANGED static
  /\ WalkOn

PeriodicUpdate == PeriodStart \/ PeriodAge \/ PeriodAsk \/ PeriodGiveUp

Next ==
  \/ /\ MutexFree /\ UNCHANGED walk
     /\ \/ \E a \in Addresses :
             \/ \E k \in Packets : SendWait(k, a) \/ SendAllocate(k, a)
             \/ SendKnown(a) \/ Receive(a) \/ ReceiveNew(a)
             \/ Ask(a) \/ Set(a) \/ StaticMove(a) \/ StaticNew(a)
             \/ StaticDelete(a) \/ Delete(a)
        \/ Invalidate
  \/ PeriodicUpdate

Spec == Init /\ [][Next]_vars

-----------------------------------------------------------------------------
(* Every variable has its type.                                             *)
TypeOK ==
  /\ dynamic \in Seq(Entries) /\ static \subseteq Entries /\ ring \in Seq(Entries)
  /\ count \in 0..Cardinality(Entries)
  /\ walk = None \/ (walk.i \in 0..(count - 1) /\ walk.at \in ToSet(dynamic))
  /\ \A e \in Entries :
       /\ entry[e].ip \in Addresses \cup {None}
       /\ entry[e].known \in BOOLEAN /\ entry[e].interface \in BOOLEAN
       /\ entry[e].timer \in 0..(UpdateRate + ExpirationRate)
       /\ entry[e].retries \in 0..MaxRetries
       /\ entry[e].waiting \in Seq(Packets) /\ Len(entry[e].waiting) <= MaxQueue

(* The count that the walks go by is the number of active dynamic entries,  *)
(* an entry is dynamic or static, every static one can be found, and no     *)
(* address has two entries.                                                 *)
CountsActive ==
  /\ count = Cardinality({e \in ToSet(dynamic) : Active(e)})
  /\ ToSet(dynamic) = Entries \ static /\ Len(dynamic) = Cardinality(ToSet(dynamic))
  /\ static \subseteq ToSet(ring) /\ Len(ring) = Cardinality(ToSet(ring))
  /\ \A a \in Addresses : Cardinality(Found(a)) <= 1

(* A packet waits in one place, and only where an answer, or the end of the *)
(* retries, can still find it: in an active dynamic entry without an        *)
(* address and with its timer running.                                      *)
WaitsWhereAnswered ==
  \A e \in Entries : entry[e].waiting # <<>> =>
    /\ Active(e) /\ e \notin static /\ ~ entry[e].known /\ entry[e].timer > 0
    /\ \A f \in Entries \ {e} : ToSet(entry[f].waiting) \cap ToSet(entry[e].waiting) = {}
    /\ IsInjective(entry[e].waiting)

(* A request goes out through an interface: an entry whose interface was    *)
(* taken away is never asked for again before it is used anew, though       *)
(* the period visits entries that were deleted.                             *)
AsksThroughInterface ==
  ~ MutexFree /\ entry[walk.at].timer > 0 => entry[walk.at].interface

(* nx_arp_periodic_update.c:89: the period loops "through the active ARP    *)
(* entries".                                                                *)
AgesActive ==
  MutexFree => \A n \in 1..count : Active(dynamic[n])
=============================================================================
