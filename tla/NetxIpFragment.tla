--------------------------- MODULE NetxIpFragment ---------------------------
(***************************************************************************)
(* IPv4 datagrams in fragments: how a datagram that is too long is cut,    *)
(* the queue that fragments are put into as they arrive, by an interrupt   *)
(* handler or by the IP thread, and their assembly by the IP thread, which *)
(* also lets unfinished datagrams expire.  Disabling fragmentation takes   *)
(* both queues away under the IP mutex and releases the packets after it.  *)
(* (nx_ip_fragment_packet.c, nx_ip_fragment_assembly.c,                    *)
(* nx_ip_fragment_timeout_check.c, nx_ip_fragment_disable.c,               *)
(* nx_ip_fragment_enable.c and nx_ipv4_packet_receive.c:551-625)           *)
(*                                                                         *)
(* Offsets and lengths count units of eight bytes.  The network, and the   *)
(* routers that may cut a fragment again, are external.                    *)
(***************************************************************************)
EXTENDS Integers, FiniteSets, SequencesExt

CONSTANTS
  Packets,         \* of the receiver's pool
  None,            \* NX_NULL
  Ids, Length,     \* the datagrams that are sent, and how long each is
  Sizes,           \* fragment sizes of the interfaces they may be sent from
  Ttls,            \* times to live with which fragments may arrive
  ReassemblyTime,  \* NX_IPV4_MAX_REASSEMBLY_TIME
  Routers,         \* there are routers that cut fragments again
  MayDisable,      \* fragmentation is disabled and enabled while packets arrive
  MaxArrivals      \* bound on the fragments that arrive, copies included

FragmentAssumption ==
  /\ Length \in Nat \ {0} /\ Sizes \subseteq 1..(Length - 1)
  /\ Ttls \subseteq Nat /\ ReassemblyTime \in Nat /\ MaxArrivals \in Nat
  /\ Routers \in BOOLEAN /\ MayDisable \in BOOLEAN

VARIABLES
  enabled,    \* nx_ip_fragment_assembly # NX_NULL
  event,      \* NX_IP_UNFRAG_EVENT
  received,   \* nx_ip_received_fragment_head, a queue
  working,    \* new_fragment_head of the assembly that runs
  chains,     \* nx_ip_fragment_assembly_head: a queue of chains of packets
  tail,       \* nx_ip_fragment_assembly_tail
  frag, time, \* IP header of a packet, and nx_packet_reassembly_time
  free,       \* the receiver's pool
  leaving,    \* packets that disable has yet to release
  delivered,  \* history: the length of the datagram dispatched last
  net, sent,  \* fragments under way, and datagrams that were sent
  arrivals

queueVars == <<event, received, working, chains, tail>>
packetVars == <<frag, time, free, leaving, delivered>>
netVars == <<net, sent, arrivals>>
fragmentVars == <<enabled, queueVars, packetVars, netVars>>

Init ==
  /\ enabled = TRUE /\ event = FALSE
  /\ received = <<>> /\ working = <<>> /\ chains = <<>> /\ tail = None
  /\ frag = [k \in Packets |-> None] /\ time = [k \in Packets |-> 0]
  /\ free = Packets /\ leaving = {} /\ delivered = 0
  /\ net = {} /\ sent = {} /\ arrivals = 0

-----------------------------------------------------------------------------
(* _nx_ip_fragment_packet: the fragments of a datagram, all of one size but *)
(* the last.  When no packet can be allocated the rest is not sent, which   *)
(* is as if it were lost: nothing makes a fragment arrive.                  *)
Piece(id, off, len) == [id |-> id, off |-> off, len |-> len, more |-> off + len < Length]
Fragments(id, size) ==
  LET n == (Length + size - 1) \div size
  IN [i \in 1..n |->
       Piece(id, (i - 1) * size, IF i < n THEN size ELSE Length - (n - 1) * size)]
FragmentPacket(id, size) ==
  /\ id \notin sent /\ sent' = sent \cup {id}
  /\ net' = net \cup ToSet(Fragments(id, size))
  /\ UNCHANGED <<enabled, queueVars, packetVars, arrivals>>

Router(m, len) ==
  /\ Routers /\ m \in net /\ len \in 1..(m.len - 1)
  /\ net' = net \cup {Piece(m.id, m.off, len), Piece(m.id, m.off + len, m.len - len)}
  /\ UNCHANGED <<enabled, queueVars, packetVars, sent, arrivals>>

(* A fragment arrives, in the packet the pool gives, for the first or       *)
(* another time (_nx_ipv4_packet_receive); with assembly disabled it is     *)
(* released at once.                                                        *)
Receive(m, ttl) ==
  /\ m \in net /\ enabled /\ free # {}
  /\ arrivals < MaxArrivals /\ arrivals' = arrivals + 1
  /\ LET k == CHOOSE j \in free : TRUE
     IN /\ received' = Append(received, k) /\ free' = free \ {k}
        /\ frag' = [frag EXCEPT ![k] =
             [id |-> m.id, off |-> m.off, len |-> m.len, more |-> m.more, ttl |-> ttl]]
  /\ event' = TRUE
  /\ UNCHANGED <<enabled, working, chains, tail, time, leaving, delivered, net, sent>>

-----------------------------------------------------------------------------
(* The IP thread, with the mutex: it takes what was received, and deals     *)
(* with one fragment after the other.                                       *)
Take ==
  /\ event /\ event' = FALSE /\ working = <<>>
  /\ working' = IF enabled THEN received ELSE <<>>
  /\ received' = IF enabled THEN <<>> ELSE received
  /\ UNCHANGED <<enabled, chains, tail, packetVars, netVars>>

Larger(a, b) == IF a < b THEN b ELSE a

Release(ks) ==
  /\ free' = free \cup ks
  /\ frag' = [k \in Packets |-> IF k \in ks THEN None ELSE frag[k]]

HeadOf(i) == IF i = 0 THEN None ELSE Head(chains[i])
TailPlace == SelectInSeq(chains, LAMBDA c : Head(c) = tail)

(* The first fragment of a datagram goes to the end of the queue, which is  *)
(* where the tail points to.                                                *)
NewChain(k) ==
  /\ chains' = IF chains = <<>> THEN <<<<k>>>>
               ELSE IF TailPlace = 0 THEN chains
               ELSE Append(SubSeq(chains, 1, TailPlace), <<k>>)
  /\ tail' = k
  /\ time' = [time EXCEPT ![k] = Larger(ReassemblyTime, frag[k].ttl)]
  /\ UNCHANGED <<free, frag, delivered>>

(* Every offset is where the fragment before ends, and nothing is to follow.*)
Whole(fs) ==
  /\ \A n \in 1..Len(fs) :
       fs[n].off = IF n = 1 THEN 0 ELSE fs[n - 1].off + fs[n - 1].len
  /\ ~ Last(fs).more
LengthOf(fs) == FoldLeft(LAMBDA sum, f : sum + f.len, 0, fs)
FragmentsOf(c) == [n \in 1..Len(c) |-> frag[c[n]]]

(* Mistake: the tail stays where it was when the chain has a new head.      *)
TailStays(i, chain, whole) ==
  IF whole /\ tail = Head(chains[i]) THEN HeadOf(i - 1) ELSE tail
TailAfter(i, chain, whole) ==
  IF tail # Head(chains[i]) THEN tail ELSE IF whole THEN HeadOf(i - 1) ELSE Head(chain)

(* A further fragment goes before the first with an offset as high as its   *)
(* own, and replaces one with the same.  A datagram that is whole leaves    *)
(* the queue and is dispatched.                                             *)
Join(k, i) ==
  LET c == chains[i]
      ahead == Cardinality({n \in 1..Len(c) : frag[c[n]].off < frag[k].off})
      old == IF ahead < Len(c) /\ frag[c[ahead + 1]].off = frag[k].off
             THEN {c[ahead + 1]} ELSE {}
      chain == SubSeq(c, 1, ahead) \o <<k>> \o
               SubSeq(c, ahead + 1 + Cardinality(old), Len(c))
      left == Larger(time[Head(c)], frag[k].ttl)
      whole == Whole(FragmentsOf(chain))
      gone == old \cup IF whole THEN ToSet(chain) ELSE {}
  IN /\ chains' = IF whole THEN RemoveAt(chains, i) ELSE [chains EXCEPT ![i] = chain]
     /\ tail' = TailAfter(i, chain, whole)
     /\ time' = [j \in Packets |-> IF j \in gone THEN 0
                  ELSE IF j \in {k, Head(c)} THEN left ELSE time[j]]
     /\ delivered' = IF whole THEN LengthOf(FragmentsOf(chain)) ELSE delivered
     /\ Release(gone)

AssembleOne ==
  /\ working # <<>> /\ working' = Tail(working)
  /\ LET k == Head(working)
         i == SelectInSeq(chains, LAMBDA c : frag[Head(c)].id = frag[k].id)
     IN IF i = 0 THEN NewChain(k) ELSE Join(k, i)
  /\ UNCHANGED <<enabled, event, received, leaving, netVars>>

(* A second passes (_nx_ip_fragment_timeout_check).                         *)
Alive(c) == time[Head(c)] # 0
Second ==
  /\ enabled /\ working = <<>> /\ chains # <<>>
  /\ chains' = SelectSeq(chains, Alive)
  /\ LET gone == UNION {ToSet(c) : c \in {d \in ToSet(chains) : ~ Alive(d)}}
         before == SelectSeq(SubSeq(chains, 1, TailPlace), Alive)
     IN /\ Release(gone)
        /\ tail' = IF tail \notin gone THEN tail
                   ELSE IF before = <<>> THEN None ELSE Head(Last(before))
        /\ time' = [k \in Packets |->
             IF k \in gone THEN 0
             ELSE IF \E c \in ToSet(chains) : k = Head(c) THEN time[k] - 1 ELSE time[k]]
  /\ UNCHANGED <<enabled, event, received, working, leaving, delivered, netVars>>

(* Mistake: what was received is taken off its queue but not released.      *)
QueuedInChains == UNION {ToSet(c) : c \in ToSet(chains)}
Queued == ToSet(received) \cup UNION {ToSet(c) : c \in ToSet(chains)}

(* _nx_ip_fragment_disable: the queues are emptied with the mutex, and the  *)
(* packets released one by one without it.                                  *)
Disable ==
  /\ MayDisable /\ working = <<>> /\ enabled' = FALSE
  /\ received' = <<>> /\ chains' = <<>> /\ tail' = None
  /\ leaving' = leaving \cup Queued
  /\ UNCHANGED <<event, working, frag, time, free, delivered, netVars>>
Leave(k) ==
  /\ k \in leaving /\ leaving' = leaving \ {k}
  /\ Release({k}) /\ time' = [time EXCEPT ![k] = 0]
  /\ UNCHANGED <<enabled, queueVars, delivered, netVars>>
Enable ==
  /\ enabled' = TRUE /\ UNCHANGED <<queueVars, packetVars, netVars>>

IPThread == Take \/ AssembleOne
Next ==
  \/ \E id \in Ids, size \in Sizes : FragmentPacket(id, size)
  \/ \E m \in net, len \in 1..Length : Router(m, len)
  \/ \E m \in net, ttl \in Ttls : Receive(m, ttl)
  \/ IPThread
  \/ Second
  \/ Disable
  \/ \E k \in Packets : Leave(k)
  \/ Enable

(* The IP thread runs, for its events and for the timer's, and who disables *)
(* fragmentation goes on.                                                   *)
GoesOn == IPThread \/ Second \/ \E k \in Packets : Leave(k)
CanGoOn == (working # <<>> \/ event) \/ (enabled /\ chains # <<>>) \/ leaving # {}
FairSpec ==
  /\ Init /\ [][Next]_fragmentVars
  /\ []<>(~ CanGoOn) \/ []<><<GoesOn>>_fragmentVars

-----------------------------------------------------------------------------
TypeOK ==
  /\ enabled \in BOOLEAN /\ event \in BOOLEAN
  /\ received \in Seq(Packets) /\ working \in Seq(Packets)
  /\ chains \in Seq(Seq(Packets)) /\ tail \in Packets \cup {None}
  /\ time \in [Packets -> Nat]
  /\ free \subseteq Packets /\ leaving \subseteq Packets
  /\ sent \subseteq Ids /\ arrivals \in 0..MaxArrivals

(* Every packet is in one place, and once.                                  *)
PacketsAccounted ==
  LET lists == <<received, working>> \o chains
      listed == UNION {ToSet(l) : l \in ToSet(lists)}
  IN /\ free \cup leaving \cup listed = Packets
     /\ Cardinality(free) + Cardinality(leaving) + FoldLeft(LAMBDA n, l : n + Len(l), 0, lists)
          = Cardinality(Packets)

(* The tail is the head of the last chain, where the next datagram begins;  *)
(* a chain is of one datagram, a datagram in one chain, in order of offsets *)
(* and without a copy; none that is whole stays.                            *)
ChainsInOrder ==
  /\ tail = HeadOf(Len(chains))
  /\ \A i, j \in 1..Len(chains) : \A m \in 1..Len(chains[i]), n \in 1..Len(chains[j]) :
       LET f == frag[chains[i][m]]
           g == frag[chains[j][n]]
       IN (f.id = g.id <=> i = j) /\ (i = j /\ m < n => f.off < g.off)
  /\ \A i \in 1..Len(chains) : ~ Whole(FragmentsOf(chains[i]))

(* What is dispatched has the length of what was sent.                      *)
DeliveredWhole == delivered \in {0, Length}

(* The IP thread has been told of what was received.                        *)
NoneForgotten == received # <<>> => event /\ enabled

Accounted ==
  TypeOK /\ PacketsAccounted /\ ChainsInOrder /\ DeliveredWhole /\ NoneForgotten
=============================================================================
