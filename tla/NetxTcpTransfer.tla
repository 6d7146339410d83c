-------------------------- MODULE NetxTcpTransfer --------------------------
(***************************************************************************)
(* Data from one NetX socket to another: threads in nx_tcp_socket_send,    *)
(* the transmit queue and its timer, acknowledgments, the zero window      *)
(* probe and the FIN on one side, NetxTcpReceive on the other, and the     *)
(* network between them.  The opposite direction is idle.                  *)
(*                                                                         *)
(* nx_tcp_socket_send gives the IP mutex up in the middle of its loop: the *)
(* steps of a call are what lies between.  The congestion window is any of *)
(* Congestion where it is read; a fast retransmission may come with any    *)
(* duplicate acknowledgment.  Numbers count from the first byte.           *)
(***************************************************************************)
EXTENDS Integers, FiniteSets, SequencesExt

CONSTANTS
  Writers, Readers,
  Calls, Length,  \* the packets each writer sends, and the bytes of each
  Header,         \* a byte that stands for a TCP header taken for data
  WindowDefault,  \* of the receiver
  ULongSize,      \* 2^32, or any number far above the others
  Mss, QueueMaximum, MaxRetries,
  Congestion,     \* the congestion windows there may be
  NoWait,         \* calls may be refused (NX_NO_WAIT) and the packet dropped
  Ordered,        \* the network keeps the order, and loses up to Faults segments;
  Faults          \* otherwise it delivers all it was given at any time, again

VARIABLES
  snd,         \* the sending socket, see Init
  call,        \* the threads in nx_tcp_socket_send
  written,     \* history: the bytes that sends have put into the connection
  rcv, taken,  \* the receiver, see NetxTcpReceive
  toReceiver, toSender,  \* segments and acknowledgments under way
  faults

R == INSTANCE NetxTcpReceive WITH Stream <- <<>>, Longest <- Mss

TransferAssumption ==
  /\ R!ReceiveAssumption
  /\ Calls \in Nat /\ Length \in Nat \ {0}
  /\ Mss \in Nat \ {0} /\ QueueMaximum \in Nat \ {0} /\ MaxRetries \in Nat \ {0}
  /\ Congestion # {} /\ \A w \in Congestion : w \in Nat /\ w >= Mss
  /\ NoWait \in BOOLEAN /\ Ordered \in BOOLEAN /\ Faults \in Nat

vars == <<snd, call, written, rcv, taken, toReceiver, toSender, faults>>

(* The fields are those of NX_TCP_SOCKET after nx_tcp_socket_ (probe for    *)
(* zero_window_probe), and what a step sends; timeout is whether it runs.   *)
Init ==
  /\ snd = [state |-> "ESTABLISHED", tx_sequence |-> 0, tx_outstanding_bytes |-> 0,
            tx_window_advertised |-> WindowDefault,
            transmit_sent |-> <<>>, transmit_suspension_list |-> <<>>,
            timeout |-> FALSE, timeout_retries |-> 0,
            probe_has_data |-> FALSE, probe_data |-> Header, probe_sequence |-> 0,
            probe_failure |-> 0, fin_acked |-> FALSE, sent |-> <<>>]
  /\ call = [w \in Writers |-> [step |-> "idle", packet |-> <<>>, part |-> <<>>,
                                copy |-> FALSE, sequence |-> 0, next |-> 1]]
  /\ written = <<>>
  /\ R!Init
  /\ toReceiver = <<>> /\ toSender = <<>> /\ faults = Faults

-----------------------------------------------------------------------------
(* The n-th packet of writer w: no byte is like another.                    *)
Packet(w, n) == [i \in 1..Length |-> <<w, n, i>>]

Smaller(i, j) == R!Smaller(i, j)
Bytes(q) == R!Bytes(q)
Segment(seq, bytes) == [seq |-> seq, data |-> bytes, fin |-> FALSE]
Fin(seq) == [seq |-> seq, data |-> <<>>, fin |-> TRUE]
Send(s, segments) == [s EXCEPT !.sent = @ \o segments]
Arm(s) == [s EXCEPT !.timeout = TRUE, !.timeout_retries = 0]

(* A count of retries beyond MaxRetries is as good as MaxRetries.           *)
More(n) == Smaller(n + 1, MaxRetries)

(* The room that the windows leave, and whether anything may be sent.       *)
Room(s, congestion) ==
  R!Larger(0, Smaller(s.tx_window_advertised, congestion) - s.tx_outstanding_bytes)
MaySend(s, congestion) ==
  Room(s, congestion) > 0 /\ Len(s.transmit_sent) < QueueMaximum

(* The byte for a zero window probe is that of the first to be blocked.     *)
Probe(s, byte, sequence) ==
  [s EXCEPT !.probe_has_data = TRUE, !.probe_data = byte, !.probe_sequence = sequence,
            !.probe_failure = 0]
Blocked(s, packet) ==
  IF s.probe_has_data THEN s ELSE Probe(s, Head(packet), s.tx_sequence)

(* A packet joins the transmit queue and goes out.                          *)
Enqueue(s, bytes) ==
  LET first == s.transmit_sent = <<>>
      a == IF first THEN Arm(s) ELSE s
      packet == [seq |-> s.tx_sequence, data |-> bytes]
  IN Send([a EXCEPT !.tx_sequence = @ + Len(bytes), !.probe_has_data = FALSE,
                    !.transmit_sent = Append(@, packet),
                    !.tx_outstanding_bytes = Len(bytes) + (IF first THEN 0 ELSE @)],
          <<Segment(s.tx_sequence, bytes)>>)

(* _nx_tcp_socket_retransmit: a probe at a closed window, or the packets at *)
(* the head of the queue that one Mss takes.                                *)
Resent(s) ==
  LET q == s.transmit_sent
      k == CHOOSE n \in 0..Len(q) :
             /\ R!Count(SubSeq(q, 1, n)) <= Mss
             /\ n = Len(q) \/ R!Count(SubSeq(q, 1, n + 1)) > Mss
  IN [i \in 1..k |-> Segment(q[i].seq, q[i].data)]
Retransmit(s) ==
  LET p == IF s.transmit_sent = <<>> THEN s
           ELSE Probe(s, Head(s.transmit_sent[1].data), s.transmit_sent[1].seq)
  IN IF s.tx_window_advertised = 0
       THEN IF ~ p.probe_has_data THEN s
            ELSE Send([p EXCEPT !.timeout_retries = More(@), !.probe_failure = More(@)],
                      <<Segment(p.probe_sequence, <<p.probe_data>>)>>)
       ELSE Send([s EXCEPT !.probe_has_data = FALSE, !.timeout_retries = More(@)], Resent(s))

(* _nx_tcp_socket_state_ack_check, but for its release of packets.          *)
Ending(s) == s.tx_sequence + (IF s.probe_has_data THEN 1 ELSE 0)
Starting(s) == s.tx_sequence - s.tx_outstanding_bytes
Covered(s, ack) ==
  IF ack = Ending(s) THEN Len(s.transmit_sent)
  ELSE Cardinality({i \in DOMAIN s.transmit_sent : R!End(s.transmit_sent[i]) <= ack})
Duplicate(s, m) == m.ack = Starting(s) /\ m.ack # Ending(s) /\ s.transmit_sent # <<>>
Noted(s, m) ==
  LET f == [s EXCEPT !.fin_acked = @ \/ (m.ack = Ending(s) /\ s.state # "ESTABLISHED"),
                     !.tx_window_advertised = IF m.ack >= Starting(s) THEN m.window ELSE @]
  IN [f EXCEPT !.probe_failure =
        IF f.tx_window_advertised <= f.tx_outstanding_bytes /\ m.ack >= f.probe_sequence
        THEN 0 ELSE @]

(* The first n packets are released; the timer starts anew for the others   *)
(* and for a FIN, and stops unless the window is closed.                    *)
Released(s, n) ==
  LET q == s.transmit_sent
      r == [s EXCEPT !.transmit_sent = SubSeq(q, n + 1, Len(q)),
                     !.tx_outstanding_bytes = R!Larger(0, @ - R!Count(SubSeq(q, 1, n)))]
  IN IF n = 0 THEN s
     ELSE IF n < Len(q) \/ s.state = "FIN_WAIT_1" THEN Arm(r)
     ELSE [r EXCEPT !.timeout = @ /\ s.tx_window_advertised = 0]

(* _nx_tcp_socket_state_transmit_check and _fin_wait1: who goes on, and how.*)
Checked(s, congestion) ==
  IF s.state = "ESTABLISHED" /\ s.transmit_suspension_list # <<>> /\ MaySend(s, congestion)
    THEN [s EXCEPT !.transmit_suspension_list = Tail(@)]
  ELSE IF s.state = "FIN_WAIT_1" /\ s.fin_acked
    THEN [s EXCEPT !.state = "FIN_WAIT_2", !.timeout = FALSE]
  ELSE s

(* An acknowledgment m arrives.                                             *)
Acked(s, m, congestion) ==
  IF Covered(s, m.ack) = 0 /\ m.ack > Ending(s)
    THEN Send(s, <<Segment(Ending(s), <<>>)>>)
    ELSE Checked(Released(Noted(s, m), Covered(s, m.ack)), congestion)

(* _nx_tcp_socket_connection_reset.                                         *)
Reset(s) ==
  [s EXCEPT !.state = "CLOSED", !.probe_has_data = FALSE, !.timeout = FALSE,
            !.transmit_sent = <<>>, !.tx_outstanding_bytes = 0,
            !.transmit_suspension_list = <<>>]

-----------------------------------------------------------------------------
Onto(channel, messages) ==
  IF Ordered THEN channel \o messages
  ELSE channel \o SelectSeq(messages, LAMBDA m : ~ Contains(channel, m))
Rest(channel) == IF Ordered THEN Tail(channel) ELSE channel

(* A step of the sender: the threads that are no longer in the suspension   *)
(* list go on, or return if the connection is gone.                         *)
Resumed(s) ==
  [w \in Writers |->
    IF ~ Contains(snd.transmit_suspension_list, w) \/ Contains(s.transmit_suspension_list, w)
      THEN call[w]
    ELSE [call[w] EXCEPT !.step = IF s.state = "CLOSED" THEN "idle" ELSE "loop"]]
Sender(s) ==
  /\ snd' = [s EXCEPT !.sent = <<>>] /\ toReceiver' = Onto(toReceiver, s.sent)
  /\ UNCHANGED <<rcv, taken>>
Receiver(r) ==
  /\ R!Becomes(r) /\ toSender' = Onto(toSender, r.sent)
  /\ UNCHANGED <<snd, call, written, faults>>

(* Thread w calls nx_tcp_socket_send, with its next packet or the one that  *)
(* was refused.                                                             *)
Begin(w) ==
  /\ call[w].step \in {"idle", "refused"} /\ snd.state = "ESTABLISHED"
  /\ \/ call[w].step = "refused" /\ call' = [call EXCEPT ![w].step = "loop"]
     \/ /\ call[w].next <= Calls
        /\ call' = [call EXCEPT ![w].step = "loop", ![w].packet = Packet(w, call[w].next),
                                ![w].next = @ + 1]
  /\ UNCHANGED <<snd, written, rcv, taken, toReceiver, toSender, faults>>

(* The first part of the loop: what fits is copied, or the packet itself is *)
(* given a header (prepend and length move); without room the thread waits  *)
(* or is refused.                                                           *)
Prepare(w) ==
  /\ call[w].step = "loop"
  /\ \E congestion \in Congestion, copy \in BOOLEAN :
       LET packet == call[w].packet
           n == Smaller(Mss, Smaller(Len(packet), Room(snd, congestion)))
       IN \/ /\ MaySend(snd, congestion) /\ (n < Len(packet) => copy)
             /\ call' = [call EXCEPT
                  ![w].step = "prepared", ![w].copy = copy, ![w].part = SubSeq(packet, 1, n),
                  ![w].packet = IF copy THEN packet ELSE <<Header>> \o packet]
             /\ Sender(snd)
          \/ /\ ~ MaySend(snd, congestion) /\ copy
             /\ \/ /\ call' = [call EXCEPT ![w].step = "waiting"]
                   /\ Sender([Blocked(snd, packet) EXCEPT !.transmit_suspension_list = Append(@, w)])
                \/ /\ NoWait /\ call' = [call EXCEPT ![w].step = "refused"]
                   /\ Sender(Blocked(snd, packet))
  /\ UNCHANGED <<written, toSender, faults>>

(* Without the mutex: the sequence number is read, the checksum computed.   *)
Number(w) ==
  /\ call[w].step = "prepared"
  /\ call' = [call EXCEPT ![w].step = "numbered", ![w].sequence = snd.tx_sequence]
  /\ UNCHANGED <<snd, written, rcv, taken, toReceiver, toSender, faults>>

(* The second part: a copy is released and the loop begins again if another *)
(* thread has sent; otherwise the packet is queued and goes out.            *)
Commit(w) ==
  /\ call[w].step = "numbered"
  /\ LET c == call[w]
         left == SubSeq(c.packet, Len(c.part) + 1, Len(c.packet))
         Now(step, packet) ==
           call' = [call EXCEPT ![w] = [@ EXCEPT !.step = step, !.packet = packet, !.part = <<>>,
                                                 !.sequence = 0, !.copy = FALSE]]
     IN \/ /\ snd.tx_sequence # c.sequence
           /\ Now("loop", c.packet) /\ Sender(snd) /\ UNCHANGED written
        \/ /\ snd.tx_sequence = c.sequence /\ snd.state # "ESTABLISHED"
           /\ Now("idle", <<>>) /\ Sender(snd) /\ UNCHANGED written
        \/ /\ snd.tx_sequence = c.sequence /\ snd.state = "ESTABLISHED"
           /\ IF c.copy /\ left # <<>> THEN Now("loop", left) ELSE Now("idle", <<>>)
           /\ Sender(Enqueue(snd, c.part)) /\ written' = written \o c.part
  /\ UNCHANGED <<toSender, faults>>

(* A wait option expires (_nx_tcp_transmit_cleanup); the program drops a    *)
(* packet that was refused.                                                 *)
WaitExpires(w) ==
  /\ NoWait /\ call[w].step = "waiting" /\ call' = [call EXCEPT ![w].step = "refused"]
  /\ Sender([snd EXCEPT !.transmit_suspension_list = RemoveFirst(@, w)])
  /\ UNCHANGED <<written, toSender, faults>>
Drop(w) ==
  /\ call[w].step = "refused" /\ call' = [call EXCEPT ![w].step = "idle", ![w].packet = <<>>]
  /\ UNCHANGED <<snd, written, rcv, taken, toReceiver, toSender, faults>>

(* nx_tcp_socket_disconnect, when all is sent.                              *)
Through(w) == call[w].step = "idle" /\ call[w].next > Calls
Disconnect ==
  /\ snd.state = "ESTABLISHED" /\ \A w \in Writers : Through(w)
  /\ LET s == IF snd.transmit_sent = <<>> THEN Arm(snd) ELSE snd
     IN Sender(Send([s EXCEPT !.state = "FIN_WAIT_1", !.tx_sequence = @ + 1],
                    <<Fin(snd.tx_sequence)>>))
  /\ UNCHANGED <<call, written, toSender, faults>>

(* The timer of the socket, in _nx_tcp_fast_periodic_processing: with a     *)
(* network that keeps the order it is longer than any way there and back,   *)
(* than the delay of an acknowledgment, and than what a send takes to run.  *)
Running(w) == call[w].step \in {"loop", "prepared", "numbered"}
Quiet ==
  /\ toReceiver = <<>> /\ toSender = <<>>
  /\ ~ R!AckDue /\ \A w \in Writers : ~ Running(w)
GivesUp(s) == IF s.probe_has_data THEN s.probe_failure >= MaxRetries
              ELSE s.timeout_retries >= MaxRetries
(* Mistake: no probe when the transmit queue is empty.                       *)
ExpiredUnprobed(s) ==
  IF GivesUp(s) THEN Reset(s)
  ELSE IF s.transmit_sent # <<>> THEN Retransmit(s)
  ELSE IF s.state = "FIN_WAIT_1"
    THEN Send([s EXCEPT !.timeout_retries = More(@)], <<Fin(s.tx_sequence - 1)>>)
  ELSE s
Expired(s) ==
  IF GivesUp(s) THEN Reset(s)
  ELSE IF s.transmit_sent # <<>> \/ (s.tx_window_advertised = 0 /\ s.state = "ESTABLISHED")
    THEN Retransmit(s)
  ELSE IF s.state = "FIN_WAIT_1"
    THEN Send([s EXCEPT !.timeout_retries = More(@)], <<Fin(s.tx_sequence - 1)>>)
  ELSE s
Expire ==
  /\ snd.timeout
  /\ Ordered => Quiet
  /\ LET s == Expired(snd) IN Sender(s) /\ call' = Resumed(s)
  /\ UNCHANGED <<written, toSender, faults>>

(* Segments arrive.                                                         *)
Oldest(channel) == IF Ordered THEN DOMAIN channel \cap {1} ELSE DOMAIN channel
AtReceiver ==
  \E i \in Oldest(toReceiver) :
    /\ toReceiver' = Rest(toReceiver) /\ Receiver(R!Process(rcv, toReceiver[i]))
AtSender ==
  \E i \in Oldest(toSender), congestion \in Congestion, again \in BOOLEAN :
    LET m == toSender[i]
        s == Acked(IF again THEN Retransmit(snd) ELSE snd, m, congestion)
    IN /\ again => (~ Ordered /\ Duplicate(snd, m))
       /\ snd.state # "CLOSED" /\ Sender(s) /\ call' = Resumed(s)
       /\ toSender' = Rest(toSender)
       /\ UNCHANGED <<written, faults>>
AtClosed ==
  /\ Ordered /\ snd.state = "CLOSED" /\ toSender # <<>> /\ toSender' = Tail(toSender)
  /\ UNCHANGED <<snd, call, written, rcv, taken, toReceiver, faults>>
Lose ==
  /\ Ordered /\ faults > 0 /\ faults' = faults - 1
  /\ \/ toReceiver # <<>> /\ toReceiver' = Tail(toReceiver) /\ UNCHANGED toSender
     \/ toSender # <<>> /\ toSender' = Tail(toSender) /\ UNCHANGED toReceiver
  /\ UNCHANGED <<snd, call, written, rcv, taken>>

(* Threads in receive, and the delayed acknowledgment.                      *)
Read(t) == ~ R!Waits(t) /\ Receiver(R!Received(t)) /\ UNCHANGED toReceiver
DelayedAck == R!AckDue /\ Receiver(R!SendAck(rcv)) /\ UNCHANGED toReceiver

Write(w) == Begin(w) \/ Prepare(w) \/ Number(w) \/ Commit(w)
Network == AtReceiver \/ AtSender \/ AtClosed
Next ==
  \/ \E w \in Writers : Write(w) \/ WaitExpires(w) \/ Drop(w)
  \/ \E t \in Readers : Read(t)
  \/ Disconnect \/ Expire \/ DelayedAck \/ Network \/ Lose

Spec == Init /\ [][Next]_vars

(* Threads in send and receive go on, the timers run, what is under way     *)
(* arrives, and the program disconnects; drops, losses and time-outs need   *)
(* not be.  Where TLC would be slow to find whether an action is enabled,   *)
(* WF_vars is written out with what enables it.                             *)
CanWrite ==
  \E w \in Writers : Running(w) \/
    (snd.state = "ESTABLISHED" /\ (call[w].step = "refused" \/
       (call[w].step = "idle" /\ call[w].next <= Calls)))
CanRead == \E t \in Readers : ~ R!Waits(t) /\ R!Received(t) # rcv
CanDisconnect == snd.state = "ESTABLISHED" /\ \A w \in Writers : Through(w)
CanExpire == snd.timeout /\ Quiet /\ Expired(snd) # snd
FairSpec ==
  /\ Init /\ [][Next]_vars
  /\ []<>(~ CanWrite) \/ []<><<\E w \in Writers : Write(w)>>_vars
  /\ []<>(~ CanRead) \/ []<><<\E t \in Readers : Read(t)>>_vars
  /\ []<>(~ CanDisconnect) \/ []<><<Disconnect>>_vars
  /\ []<>(~ CanExpire) \/ []<><<Expire>>_vars
  /\ WF_vars(DelayedAck)
  /\ []<>(toReceiver = <<>>) \/ []<><<AtReceiver>>_vars
  /\ []<>(toSender = <<>>) \/ []<><<AtSender \/ AtClosed>>_vars
-----------------------------------------------------------------------------
(* Every field has its type.                                                *)
TypeOK ==
  /\ snd.state \in {"ESTABLISHED", "FIN_WAIT_1", "FIN_WAIT_2", "CLOSED"}
  /\ snd.tx_sequence \in Nat /\ snd.tx_outstanding_bytes \in Nat
  /\ snd.tx_window_advertised \in 0..WindowDefault
  /\ snd.timeout_retries \in 0..MaxRetries /\ snd.probe_failure \in 0..MaxRetries
  /\ \A w \in Writers :
       call[w].step \in {"idle", "loop", "waiting", "refused", "prepared", "numbered"}
  /\ R!TypeOK

(* What is sent and not acknowledged: the packets of the transmit queue are *)
(* the last bytes written, without a gap, and outstanding counts them.      *)
QueueIsUnacked ==
  LET q == snd.transmit_sent
      first == Len(written) - snd.tx_outstanding_bytes
  IN snd.state # "CLOSED" =>
       /\ Bytes(q) = SubSeq(written, first + 1, Len(written))
       /\ \A i \in DOMAIN q : q[i].seq = first + R!Count(SubSeq(q, 1, i - 1))

(* No packet goes beyond the window that the receiver has, nor more than    *)
(* the queue may hold: with one writer, for the sequence number is read     *)
(* when the mutex that the room was looked up under is given up.            *)
WithinWindow ==
  /\ Len(snd.transmit_sent) <= QueueMaximum
  /\ \A i \in DOMAIN snd.transmit_sent :
       R!End(snd.transmit_sent[i]) <= rcv.rx_sequence + rcv.rx_window_current

(* The bytes of the connection: those sent, and a probe's when the receiver *)
(* has taken it.                                                            *)
InConnection ==
  IF R!Unfinished > Len(written) THEN Append(written, snd.probe_data) ELSE written
ByteStream == INSTANCE NetxByteStream WITH
  written <- InConnection, given <- taken, over <- rcv.over
ImplementsStream == ByteStream!Spec

(* What goes out as data is the data of the packets, and no header.         *)
NoHeaderSent == ~ Contains(written, Header)

(* With fewer losses than retries, all that the writers give to send is     *)
(* given to the readers, and they are told of the end.                      *)
AllArrives ==
  <>(Len(taken) = Calls * Length * Cardinality(Writers) /\ rcv.over)

(* A disconnect ends: the FIN is acknowledged, or the connection given up.  *)
DisconnectEnds == snd.state = "FIN_WAIT_1" ~> snd.state \in {"FIN_WAIT_2", "CLOSED"}
=============================================================================
