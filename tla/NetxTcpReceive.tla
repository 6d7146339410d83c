--------------------------- MODULE NetxTcpReceive --------------------------
(***************************************************************************)
(* The receiving half of a TCP socket: which segments are taken, how they  *)
(* are put into the receive queue, when bytes are handed to the threads in *)
(* receive calls, and what window is told to the peer.  Every operation    *)
(* runs under the IP mutex and is one step here.                           *)
(*                                                                         *)
(* Sequence numbers count from the first byte of the stream and do not     *)
(* wrap; a segment is a number, the bytes from there on, and its FIN bit.  *)
(* The peer of this module sends any part of its stream, again and in any  *)
(* order, within the window it was told, or a probe of one byte beyond.    *)
(***************************************************************************)
EXTENDS Integers, SequencesExt

CONSTANTS
  Stream,         \* the bytes the peer sends before its FIN
  Readers,        \* threads that call nx_tcp_socket_receive
  WindowDefault,  \* nx_tcp_socket_rx_window_default
  Longest,        \* bound on the bytes of a segment
  ULongSize       \* 2^32, or any number far above the others

ReceiveAssumption ==
  /\ Stream \in Seq(ToSet(Stream))
  /\ WindowDefault \in Nat \ {0} /\ Longest \in Nat \ {0}
  /\ ULongSize \in Nat /\ ULongSize > 4 * WindowDefault

VARIABLES
  rcv,    \* the socket, see Init
  taken   \* history: the bytes that receive calls have given

vars == <<rcv, taken>>

(* The fields are those of NX_TCP_SOCKET after nx_tcp_socket_, and what a   *)
(* step gives to threads and sends to the peer, and whether a receive call  *)
(* has returned NX_NOT_CONNECTED.                                           *)
Init ==
  /\ rcv = [state |-> "ESTABLISHED",
          rx_sequence |-> 0, rx_sequence_acked |-> 0,
          rx_window_current |-> WindowDefault, rx_window_last_sent |-> WindowDefault,
          receive_queue |-> <<>>, receive_suspension_list |-> <<>>,
          fin_received |-> FALSE, fin_sequence |-> 0,
          given |-> <<>>, sent |-> <<>>, over |-> FALSE]
  /\ taken = <<>>

-----------------------------------------------------------------------------
End(p) == p.seq + Len(p.data)
Larger(i, j) == IF i > j THEN i ELSE j
Smaller(i, j) == IF i < j THEN i ELSE j
Bytes(packets) == FlattenSeq([i \in DOMAIN packets |-> packets[i].data])
Count(packets) == Len(Bytes(packets))

(* A walk along the queue stops at the first packet whose place is not in   *)
(* S: how many of n packets it passes.                                      *)
Passed(n, S) == Max({k \in 0..n : 1..k \subseteq S})
Ready(q) == SubSeq(q, 1, Passed(Len(q), {i \in DOMAIN q : q[i].ready}))

(* _nx_tcp_packet_send_ack                                                  *)
SendAck(r) ==
  [r EXCEPT !.sent = Append(@, [ack |-> r.rx_sequence, window |-> r.rx_window_current]),
            !.rx_sequence_acked = r.rx_sequence,
            !.rx_window_last_sent = r.rx_window_current]
SendAckIf(condition, r) == IF condition THEN SendAck(r) ELSE r

(* _nx_tcp_socket_packet_process: is the segment within the window?         *)
Acceptable(r, m) ==
  LET first == r.rx_sequence
      last == r.rx_sequence + r.rx_window_current
      starts == first <= m.seq /\ m.seq < last
  IN IF m.data = <<>>
       THEN IF first = last THEN m.seq = first \/ ~ m.fin ELSE starts
       ELSE first < last /\ (starts \/ (first < End(m) /\ End(m) <= last))

(* The part of a segment that is new and within the window.                 *)
Trim(r, m) ==
  LET from == IF m.data = <<>> THEN m.seq ELSE Larger(m.seq, r.rx_sequence)
      to == IF m.data = <<>> THEN m.seq
            ELSE Smaller(End(m), r.rx_sequence + r.rx_window_current)
  IN [seq |-> from, data |-> SubSeq(m.data, from - m.seq + 1, to - m.seq), ready |-> FALSE]

(* Packet p goes to its place in the queue: what it covers is released,     *)
(* what it overlaps is cut, and so is p where a later packet goes on.       *)
CutAt(p, n) == [p EXCEPT !.data = SubSeq(p.data, 1, Smaller(Len(p.data), n - p.seq))]
Held(q, p) == \E i \in DOMAIN q : q[i].seq <= p.seq /\ End(p) <= End(q[i])
Left(q, p) == Passed(Len(q), {i \in DOMAIN q : q[i].seq < p.seq})
Gone(q, p) ==
  Passed(Len(q), {i \in DOMAIN q : q[i].seq < p.seq \/ End(q[i]) <= End(p)})
(* Mistake: the new packet is not cut where a later one goes on.             *)
InsertWhole(q, p) ==
  [i \in 1..Left(q, p) |-> CutAt(q[i], p.seq)] \o <<p>> \o SubSeq(q, Gone(q, p) + 1, Len(q))
Insert(q, p) ==
  LET after == SubSeq(q, Gone(q, p) + 1, Len(q))
  IN [i \in 1..Left(q, p) |-> CutAt(q[i], p.seq)]
       \o <<IF after = <<>> THEN p ELSE CutAt(p, after[1].seq)>> \o after

(* How far the first k packets bring rx_sequence, and how many do.          *)
Reach(r, k) == IF k = 0 THEN r.rx_sequence
               ELSE Larger(r.rx_sequence, End(r.receive_queue[k]))
InOrder(r) ==
  LET q == r.receive_queue
  IN Passed(Len(q), {i \in DOMAIN q : q[i].seq <= Reach(r, i - 1)})

(* Mistake: the window shrinks by all that is queued.                        *)
AdvanceByQueue(r) ==
  LET k == InOrder(r)
      advance == Reach(r, k) - r.rx_sequence
  IN [r EXCEPT !.rx_sequence = Reach(r, k),
               !.rx_window_current = Larger(0, WindowDefault - Count(r.receive_queue)),
               !.rx_window_last_sent = (@ - advance) % ULongSize,
               !.receive_queue = [i \in DOMAIN @ |->
                 IF i <= k THEN [@[i] EXCEPT !.ready = TRUE] ELSE @[i]]]

(* The packets in order become READY, and the window shrinks by the new.    *)
Advance(r) ==
  LET k == InOrder(r)
      advance == Reach(r, k) - r.rx_sequence
  IN [r EXCEPT !.rx_sequence = Reach(r, k),
               !.rx_window_current = @ - advance,
               !.rx_window_last_sent = (@ - advance) % ULongSize,
               !.receive_queue = [i \in DOMAIN @ |->
                 IF i <= k THEN [@[i] EXCEPT !.ready = TRUE] ELSE @[i]]]

(* Threads that wait get the packets just made READY.                       *)
HandOver(r, new) ==
  LET n == Smaller(new, Len(r.receive_suspension_list))
      packets == SubSeq(r.receive_queue, 1, n)
  IN [r EXCEPT !.receive_queue = SubSeq(@, n + 1, Len(@)),
               !.receive_suspension_list = SubSeq(@, n + 1, Len(@)),
               !.rx_window_current = @ + Count(packets),
               !.given = @ \o Bytes(packets)]

(* The window grew by half or more since the peer was told.                 *)
More(r) == (r.rx_window_current - r.rx_window_last_sent) % ULongSize
Grown(r) == More(r) >= WindowDefault \div 2

ReadyIn(r) == Len(Ready(r.receive_queue))
Queued(r) ==
  LET in == Advance(r)
      to == HandOver(in, ReadyIn(in) - ReadyIn(r))
  IN SendAckIf(Grown(to), to)

(* _nx_tcp_socket_state_data_check                                          *)
DataCheck(r, m) ==
  LET p == Trim(r, m)
      q == r.receive_queue
      ends == IF q = <<>> THEN r.rx_sequence ELSE End(Last(q))
      f == IF m.fin THEN [r EXCEPT !.fin_received = TRUE, !.fin_sequence = End(p)] ELSE r
      ahead == SendAckIf(p.seq > r.rx_sequence, f)
      Put(g, packets) == Queued([g EXCEPT !.receive_queue = packets])
  IN IF p.data = <<>>
       THEN SendAckIf(q = <<>> /\ p.seq \notin {r.rx_sequence, r.rx_sequence - 1}, f)
     ELSE IF p.seq = r.rx_sequence /\ ends = r.rx_sequence THEN Put(f, Append(q, p))
     ELSE IF q = <<>> THEN Put(SendAck(f), <<p>>)
     ELSE IF Held(q, p) THEN SendAck(ahead)
     ELSE Put(ahead, Insert(q, p))

(* Mistake: a FIN is taken although data before it is missing.               *)
EstablishedAtFin(r) ==
  IF r.fin_received
    THEN SendAck([r EXCEPT !.state = "CLOSE_WAIT", !.rx_sequence = @ + 1,
                           !.receive_suspension_list = <<>>,
                           !.over = r.receive_suspension_list # <<>>])
    ELSE r

(* _nx_tcp_socket_state_established: the FIN is next, nothing is missing.   *)
Established(r) ==
  IF r.fin_received /\ r.fin_sequence = r.rx_sequence
    THEN SendAck([r EXCEPT !.state = "CLOSE_WAIT", !.rx_sequence = @ + 1,
                           !.receive_suspension_list = <<>>,
                           !.over = r.receive_suspension_list # <<>>])
    ELSE r

(* A segment arrives.                                                       *)
Process(r, m) ==
  IF ~ Acceptable(r, m) THEN SendAck(r)
  ELSE IF r.state = "ESTABLISHED" THEN Established(DataCheck(r, m))
  ELSE r

-----------------------------------------------------------------------------
(* What a step gave and sent leaves the socket with the step.               *)
Becomes(r) == rcv' = [r EXCEPT !.given = <<>>, !.sent = <<>>] /\ taken' = taken \o r.given

(* _nx_tcp_socket_receive by thread t: the packet at the head, a wait, or   *)
(* NX_NOT_CONNECTED.                                                        *)
HeadReady == rcv.receive_queue # <<>> /\ rcv.receive_queue[1].ready
Take(r) ==
  LET rest == Tail(r.receive_queue)
  IN [r EXCEPT !.receive_queue = rest, !.given = r.receive_queue[1].data,
               !.rx_window_current =
                 IF rest = <<>> THEN WindowDefault ELSE @ + Len(r.receive_queue[1].data)]
Received(t) ==
  IF HeadReady
    THEN LET r == Take(rcv) IN SendAckIf(Grown(r) /\ r.state = "ESTABLISHED", r)
  ELSE IF rcv.receive_queue # <<>> \/ rcv.state = "ESTABLISHED"
    THEN [rcv EXCEPT !.receive_suspension_list = Append(@, t)]
  ELSE [rcv EXCEPT !.over = TRUE]
Waits(t) == Contains(rcv.receive_suspension_list, t)
Receive(t) == ~ Waits(t) /\ Becomes(Received(t))

(* The wait option of thread t expires: _nx_tcp_receive_cleanup.            *)
Expired(t) == [rcv EXCEPT !.receive_suspension_list = RemoveFirst(@, t)]
WaitExpires(t) == Waits(t) /\ Becomes(Expired(t))

(* _nx_tcp_fast_periodic_processing: the delayed acknowledgment.            *)
AckDue == rcv.rx_sequence # rcv.rx_sequence_acked \/ rcv.rx_window_last_sent < rcv.rx_window_current
DelayedAck == AckDue /\ Becomes(SendAck(rcv))

Call == DelayedAck \/ \E t \in Readers : Receive(t) \/ WaitExpires(t)

(* The peer: any part of its stream within what it was told, with the FIN   *)
(* behind the last byte or alone; a probe is one byte beyond.               *)
Told == rcv.rx_sequence + rcv.rx_window_current - More(rcv)
Part(from, to) == [seq |-> from, data |-> SubSeq(Stream, from + 1, to), fin |-> FALSE]
Segments ==
  LET last == Len(Stream)
  IN {Part(from, to) : from \in 0..last, to \in 0..last} \cup
       {[Part(from, last) EXCEPT !.fin = TRUE] : from \in 0..last}
FromPeer(m) ==
  /\ Len(m.data) \in (IF m.fin THEN 0 ELSE 1)..Longest
  /\ End(m) <= Told \/ (m.seq = Told /\ Len(m.data) = 1 /\ ~ m.fin)
  /\ Becomes(Process(rcv, m))

Next == Call \/ \E m \in Segments : FromPeer(m)
Spec == Init /\ [][Next]_vars
-----------------------------------------------------------------------------
(* Every field has its type, and no byte of the stream is numbered wrong.   *)
TypeOK ==
  /\ rcv.state \in {"ESTABLISHED", "CLOSE_WAIT"}
  /\ rcv.rx_sequence \in Nat /\ rcv.rx_sequence_acked \in Nat
  /\ rcv.rx_window_current \in 0..WindowDefault
  /\ rcv.rx_window_last_sent \in 0..(ULongSize - 1)
  /\ \A t \in ToSet(rcv.receive_suspension_list) : t \in Readers

(* The receive queue is in order and nothing is in it twice: a packet ends  *)
(* before the next begins, the READY ones go without a gap up to            *)
(* rx_sequence, and the others lie beyond it.                               *)
Unfinished == IF rcv.state = "CLOSE_WAIT" THEN rcv.rx_sequence - 1 ELSE rcv.rx_sequence
QueueInOrder ==
  LET q == rcv.receive_queue
      last == Unfinished
  IN \A i \in DOMAIN q :
       /\ q[i].data # <<>>
       /\ i > 1 => End(q[i - 1]) <= q[i].seq
       /\ q[i].ready <=> End(q[i]) <= last
       /\ ~ q[i].ready => q[i].seq > last
       /\ q[i].ready => IF i < Len(q) /\ q[i + 1].ready THEN End(q[i]) = q[i + 1].seq
                        ELSE End(q[i]) = last

(* The bytes given and the READY ones are the stream's, as far as           *)
(* rx_sequence says: nothing is missing, twice, or out of its place.        *)
StreamKept ==
  taken \o Bytes(Ready(rcv.receive_queue))
    = SubSeq(Stream, 1, Unfinished)

(* The window is the room that is left: with the bytes not yet given it is  *)
(* the whole; and the peer is never told of more than there is (though      *)
(* rx_window_last_sent wraps below zero when a probe is taken beyond it).   *)
WindowIsRoom ==
  /\ rcv.rx_window_current + Count(Ready(rcv.receive_queue)) = WindowDefault
  /\ More(rcv) <= WindowDefault + 1

(* No thread waits beside data that is READY, or on a connection closed.    *)
NoWaitBesideReady ==
  rcv.receive_suspension_list # <<>> => ~ HeadReady /\ rcv.state = "ESTABLISHED"
=============================================================================
