----------------------- MODULE NetxTcpConnectionProofs ----------------------
(***************************************************************************)
(* Proofs about the TCP connection, for any initial sequence numbers,      *)
(* window, number of retries and of connections that follow one another:   *)
(* two sockets that are both established are in the same connection or in  *)
(* none, no segment of an earlier one resets it, a disconnect that         *)
(* succeeds was orderly, and nobody sleeps for a connection that is gone.  *)
(*                                                                         *)
(* The second part of the module has the proofs about NetxTcpReceive, what *)
(* a socket of such a connection receives.                                 *)
(***************************************************************************)
EXTENDS NetxTcpConnection, Sequences, FiniteSetTheorems, SequenceTheorems, WellFoundedInduction,
  TLAPS

-----------------------------------------------------------------------------
(* The inductive invariant.                                                 *)
Kinds == {"SYN", "SYNACK", "ACK", "FIN", "RST", "RSTACK"}
Messages == [to : Ends, kind : Kinds, seq : Int, ack : Int]
Opening == {"SYN_SENT", "SYN_RECEIVED", "ESTABLISHED"}
FinSent == {"FIN_WAIT_1", "FIN_WAIT_2", "CLOSING", "TIMED_WAIT", "LAST_ACK"}
Attached(e) == bound[e] /\ connected[e]

(* Where a socket is entered, and what its timer and its thread wait for,   *)
(* fit its state.                                                           *)
PlaceFits(e) ==
  /\ Client(e) => bound[e] /\ ~ listening[e] /\ state[e] # "LISTEN"
  /\ ~ Client(e) => state[e] # "SYN_SENT"
  /\ state[e] \notin {"CLOSED", "LISTEN", "SYN_RECEIVED"} => Attached(e)
  /\ Client(e) /\ state[e] = "SYN_RECEIVED" => Attached(e)
  /\ listening[e] => ~ bound[e] /\ state[e] \in {"LISTEN", "SYN_RECEIVED"}
  /\ timeout[e] => bound[e]
  /\ state[e] \notin {"CLOSED", "LISTEN"} => tx[e] > 0
ThreadFits(e) ==
  /\ app[e] = "accept" => ~ Client(e)
  /\ app[e] = "acceptFailed" => ~ Client(e) /\ state[e] = "LISTEN"
  /\ Client(e) /\ app[e] = "connect" => state[e] \in {"SYN_SENT", "SYN_RECEIVED"}
  /\ app[e] = "disconnect" => state[e] \in FinSent \ {"TIMED_WAIT"}
  /\ app[e] = "disconnected" => state[e] \in FinSent \cup {"CLOSED", "LISTEN"}

(* What a socket expects next is at most what the other sends next.         *)
ExpectsAtMost(e) ==
  /\ connected[e] /\ ~ Client(e) /\ state[e] \in {"CLOSED", "LISTEN"}
       => rx[e] + 1 <= tx[Peer(e)]
  /\ connected[e] /\ Synchronized(e) => rx[e] <= tx[Peer(e)]
  /\ finReceived[e] => finSeq[e] + 1 <= tx[Peer(e)]

(* A socket that expects what comes behind the other's FIN has taken it.    *)
FinTaken(e) == tx[e] - 1 \in taken[Peer(e)]
ExpectsBehindFin(e) ==
  /\ connected[e] /\ state[Peer(e)] \in FinSent =>
       /\ Synchronized(e) /\ rx[e] = tx[Peer(e)] => FinTaken(Peer(e))
       /\ ~ Client(e) /\ state[e] \in {"CLOSED", "LISTEN"} /\ rx[e] + 1 = tx[Peer(e)]
            => FinTaken(Peer(e))
FinAckTrue(e) ==
  /\ finAcked[e] => state[e] \in FinSent \cup {"CLOSED", "LISTEN"}
  /\ finAcked[e] /\ state[e] \in FinSent => FinTaken(e)
  /\ state[e] = "FIN_WAIT_2" => finAcked[e]
  /\ app[e] = "disconnected" /\ status[e] = "SUCCESS" => FinTaken(e)

(* What segments in the network say of the socket that sent them, and what  *)
(* they acknowledge to the other.                                           *)
Sender(m) == Peer(m.to)
NumberOld(m) ==
  LET e == Sender(m)
  IN /\ ~ IsRst(m) => 0 <= m.seq /\ m.seq <= tx[e] /\ 0 < tx[e] /\ m.ack <= tx[m.to]
     /\ m.kind = "FIN" => m.seq < tx[e]
     /\ IsSyn(m) => m.seq < tx[e]
     /\ IsSyn(m) /\ state[e] \in FinSent => m.seq + 1 < tx[e]
     /\ IsRst(m) => m.seq <= tx[e]
     /\ IsRst(m) /\ state[e] \in Opening /\ Attached(e) => m.seq < tx[e]
AckTrue(m) ==
  LET e == Sender(m)
  IN /\ m.kind \in {"SYNACK", "ACK", "FIN"} /\ state[e] \in Opening /\ m.seq + 1 >= tx[e]
          => state[e] # "SYN_SENT" /\ Attached(e) /\ m.ack = rx[e]
     /\ ~ IsRst(m) /\ state[m.to] \in FinSent /\ m.ack = tx[m.to] => FinTaken(m.to)

(* An established socket that expects what the other sends next is expected *)
(* by it, when that one has taken a SYN; and it never is before.            *)
Joined(e) ==
  /\ state[e] = "ESTABLISHED" /\ rx[e] = tx[Peer(e)]
  => /\ state[Peer(e)] # "SYN_SENT"
     /\ state[Peer(e)] \in {"SYN_RECEIVED", "ESTABLISHED"} => rx[Peer(e)] = tx[e]

SocketTrue(e) ==
  /\ PlaceFits(e) /\ ThreadFits(e) /\ ExpectsAtMost(e) /\ ExpectsBehindFin(e)
  /\ FinAckTrue(e) /\ Joined(e)
SegmentTrue(m) == m \in Messages /\ NumberOld(m) /\ AckTrue(m)
Typed == TypeOK /\ taken \in [Ends -> SUBSET Int]
IInv ==
  /\ Typed
  /\ \A e \in Ends : SocketTrue(e)
  /\ \A m \in net : SegmentTrue(m)

-----------------------------------------------------------------------------
(* The two sockets.                                                         *)
LEMMA PeerFacts ==
  ASSUME NEW e \in Ends
  PROVE  /\ Peer(e) \in Ends /\ Peer(e) # e /\ Peer(Peer(e)) = e
         /\ \A x \in Ends : x = e \/ x = Peer(e)
BY ConnectionAssumption DEF Peer

(* A segment that arrives at a socket.                                      *)
LEMMA Arriving ==
  ASSUME IInv, NEW e \in Ends, NEW m \in To(e)
  PROVE  m \in net /\ m \in Messages /\ m.to = e /\ NumberOld(m) /\ AckTrue(m)
BY DEF To, IInv, SegmentTrue

(* Every variable has its type before a step.                               *)
LEMMA Types == IInv => Typed
BY DEF IInv

(* The names below stand for a line or two: they are expanded everywhere.   *)
USE ConnectionAssumption
  DEF placeVars, seqVars, finVars, timerVars, appVars, Set, Client, Idle,
      Synchronized, FinSent, Attached, Opening, IsRst, IsSyn,
      SocketTrue, PlaceFits, ThreadFits, ExpectsAtMost, ExpectsBehindFin, FinAckTrue,
      FinTaken, Joined

(* A client connects: its new sequence number is beyond any a segment of    *)
(* its carries or acknowledges.                                             *)
LEMMA ConnectKeeps ==
  ASSUME IInv, NEW e \in Ends, Connect(e)
  PROVE  IInv'
<1> DEFINE p == Peer(e)
<1>0. p \in Ends /\ p # e /\ Peer(p) = e /\ \A x \in Ends : x = e \/ x = p
  BY PeerFacts
<1>1. Typed'
  BY DEF Connect, Arm, NextIsn, Send, Segment, IInv, Typed, TypeOK, States
<1>2. SocketTrue(e)'
  BY <1>0, <1>1 DEF Connect, Arm, NextIsn, Send, Segment, IInv, Typed, TypeOK
<1>3. SocketTrue(p)'
  BY <1>0, <1>1 DEF Connect, Arm, NextIsn, Send, Segment, IInv, Typed, TypeOK
<1>4. ASSUME NEW s \in net', s \notin net PROVE SegmentTrue(s)'
  <2>1. s \in Messages /\ s.to = p
    BY <1>0, <1>1, <1>4
    DEF Connect, Arm, NextIsn, Send, Segment, IInv, Typed, TypeOK, NumberOld, AckTrue, Sender,
        Messages, Kinds
  <2>2. NumberOld(s)'
    BY <1>0, <1>1, <1>4, <2>1
    DEF Connect, Arm, NextIsn, Send, Segment, IInv, Typed, TypeOK, NumberOld, AckTrue, Sender,
        Messages, Kinds
  <2>3. AckTrue(s)'
    BY <1>0, <1>1, <1>4, <2>1
    DEF Connect, Arm, NextIsn, Send, Segment, IInv, Typed, TypeOK, NumberOld, AckTrue, Sender,
        Messages, Kinds
  <2> QED
    BY <2>1, <2>2, <2>3 DEF SegmentTrue
<1>5. ASSUME NEW s \in net PROVE SegmentTrue(s)'
  BY <1>0, <1>1
  DEF Connect, Arm, NextIsn, Send, Segment, IInv, Typed, TypeOK, SegmentTrue, NumberOld,
      AckTrue, Sender, Messages, Kinds
<1> QED
  BY <1>0, <1>1, <1>2, <1>3, <1>4, <1>5 DEF IInv

(* The test of the state in accept changes no socket.                       *)
LEMMA AcceptTestKeeps ==
  ASSUME IInv, NEW e \in Ends, AcceptTest(e)
  PROVE  IInv'
<1> DEFINE p == Peer(e)
<1>0. p \in Ends /\ p # e /\ Peer(p) = e /\ \A x \in Ends : x = e \/ x = p
  BY PeerFacts
<1>1. Typed'
  BY DEF AcceptTest, IInv, Typed, TypeOK, States
<1>2. SocketTrue(e)'
  BY <1>0, <1>1 DEF AcceptTest, IInv, Typed, TypeOK
<1>3. SocketTrue(p)'
  BY <1>0, <1>1 DEF AcceptTest, IInv, Typed, TypeOK
<1>4. ASSUME NEW s \in net' PROVE SegmentTrue(s)'
  BY <1>0, <1>1
  DEF AcceptTest, IInv, Typed, TypeOK, SegmentTrue, NumberOld, AckTrue, Sender, Messages,
      Kinds
<1> QED
  BY <1>0, <1>1, <1>2, <1>3, <1>4 DEF IInv

(* A server accepts: with a SYN taken it answers, without one it waits.     *)
LEMMA AcceptKeeps ==
  ASSUME IInv, NEW e \in Ends, Accept(e)
  PROVE  IInv'
<1> DEFINE p == Peer(e)
<1>0. p \in Ends /\ p # e /\ Peer(p) = e /\ \A x \in Ends : x = e \/ x = p
  BY PeerFacts
<1>1. Typed'
  <2> USE Types
      DEF Accept, Arm, NextIsn, Typed, TypeOK, States
  <2>1. state' \in [Ends -> States]
    OBVIOUS
  <2>2. taken' \in [Ends -> SUBSET Int]
    OBVIOUS
  <2>3. /\ connected' \in [Ends -> BOOLEAN] /\ bound' \in [Ends -> BOOLEAN]
        /\ listening' \in [Ends -> BOOLEAN]
    OBVIOUS
  <2>4. tx' \in [Ends -> Nat] /\ rx' \in [Ends -> Int] /\ opens' \in 0..MaxOpens
    OBVIOUS
  <2>5. finReceived' \in [Ends -> BOOLEAN] /\ finAcked' \in [Ends -> BOOLEAN]
    <3>1. /\ finReceived' \in {finReceived, Set(finReceived, e, FALSE)}
          /\ finAcked' \in {finAcked, Set(finAcked, e, FALSE)}
      BY DEF Accept
    <3> QED
      BY ZenonT(30), <3>1, Types DEF Typed, TypeOK
  <2>6. finSeq' \in [Ends -> Nat]
    OBVIOUS
  <2>7. timeout' \in [Ends -> BOOLEAN]
    <3>1. timeout' \in {timeout, Set(timeout, e, TRUE), Set(timeout, e, FALSE)}
      BY DEF Accept, Arm
    <3> QED
      BY <3>1, Types DEF Typed, TypeOK
  <2>8. retries' \in [Ends -> 0..MaxRetries]
    OBVIOUS
  <2>9. /\ app' \in [Ends -> {"idle", "connect", "accept", "acceptFailed", "disconnect",
                          "disconnected"}]
        /\ status' \in [Ends -> {"NONE", "SUCCESS", "FAILED"}]
    OBVIOUS
  <2> QED
    BY <2>1, <2>2, <2>3, <2>4, <2>5, <2>6, <2>7, <2>8, <2>9 DEF Typed, TypeOK
<1>2. SocketTrue(e)'
  BY <1>0, <1>1 DEF Accept, Arm, NextIsn, Send, Segment, IInv, Typed, TypeOK
<1>3. SocketTrue(p)'
  BY <1>0, <1>1 DEF Accept, Arm, NextIsn, Send, Segment, IInv, Typed, TypeOK
<1>4. ASSUME NEW s \in net', s \notin net PROVE SegmentTrue(s)'
  <2>1. s \in Messages /\ s.to = p
    BY <1>0, <1>1, <1>4
    DEF Accept, Arm, NextIsn, Send, Segment, IInv, Typed, TypeOK, NumberOld, AckTrue, Sender,
        Messages, Kinds
  <2>2. NumberOld(s)'
    BY <1>0, <1>1, <1>4, <2>1
    DEF Accept, Arm, NextIsn, Send, Segment, IInv, Typed, TypeOK, NumberOld, AckTrue, Sender,
        Messages, Kinds
  <2>3. AckTrue(s)'
    BY <1>0, <1>1, <1>4, <2>1
    DEF Accept, Arm, NextIsn, Send, Segment, IInv, Typed, TypeOK, NumberOld, AckTrue, Sender,
        Messages, Kinds
  <2> QED
    BY <2>1, <2>2, <2>3 DEF SegmentTrue
<1>5. ASSUME NEW s \in net PROVE SegmentTrue(s)'
  <2>1. CASE state[e] = "LISTEN" /\ bound[e]
    BY <1>0, <1>1, <2>1
    DEF Accept, Arm, NextIsn, IInv, Typed, TypeOK, SegmentTrue, NumberOld, AckTrue, Sender,
        Messages
  <2>2. CASE state[e] = "LISTEN" /\ ~ bound[e]
    <3>1. /\ state' = Set(state, e, "SYN_RECEIVED") /\ tx' = Set(tx, e, NextIsn(e))
          /\ UNCHANGED <<connected, bound, rx, taken>>
      BY <2>2 DEF Accept
    <3>2. /\ tx[e] < NextIsn(e) /\ NextIsn(e) \in Nat
          /\ tx[e] > 0 => tx[e] + 1 < NextIsn(e)
      BY DEF IInv, Typed, TypeOK, NextIsn
    <3>3. CASE s.to = e
      BY <1>0, <1>1, <2>2, <3>1, <3>2, <3>3
      DEF IInv, Typed, TypeOK, SegmentTrue, NumberOld, AckTrue, Sender, Messages
    <3>4. CASE s.to = p
      <4>1. s \in Messages /\ NumberOld(s) /\ AckTrue(s) /\ Peer(s.to) = e
        BY <1>0, <3>4 DEF IInv, SegmentTrue
      <4>2. NumberOld(s)'
        BY <1>0, <1>1, <2>2, <3>1, <3>2, <3>4, <4>1
        DEF IInv, Typed, TypeOK, NumberOld, Sender, Messages
      <4>3. AckTrue(s)'
        BY <1>0, <1>1, <2>2, <3>1, <3>2, <3>4, <4>1
        DEF IInv, Typed, TypeOK, NumberOld, AckTrue, Sender, Messages
      <4> QED
        BY <4>1, <4>2, <4>3 DEF SegmentTrue
    <3> QED
      BY <1>0, <3>3, <3>4 DEF IInv, SegmentTrue, Messages
  <2>3. CASE state[e] # "LISTEN"
    BY <1>0, <1>1, <2>3
    DEF Accept, Arm, NextIsn, IInv, Typed, TypeOK, SegmentTrue, NumberOld, AckTrue, Sender,
        Messages
  <2> QED
    BY <2>1, <2>2, <2>3
<1> QED
  BY <1>0, <1>1, <1>2, <1>3, <1>4, <1>5 DEF IInv

(* A thread whose accept failed leaves a listening server.                  *)
LEMMA AcceptFailedKeeps ==
  ASSUME IInv, NEW e \in Ends, AcceptFailed(e)
  PROVE  IInv'
<1> DEFINE p == Peer(e)
<1>0. p \in Ends /\ p # e /\ Peer(p) = e /\ \A x \in Ends : x = e \/ x = p
  BY PeerFacts
<1>1. Typed'
  BY DEF AcceptFailed, IInv, Typed, TypeOK, States
<1>2. SocketTrue(e)'
  BY <1>0, <1>1 DEF AcceptFailed, IInv, Typed, TypeOK
<1>3. SocketTrue(p)'
  BY <1>0, <1>1 DEF AcceptFailed, IInv, Typed, TypeOK
<1>4. ASSUME NEW s \in net' PROVE SegmentTrue(s)'
  BY <1>0, <1>1
  DEF AcceptFailed, IInv, Typed, TypeOK, SegmentTrue, NumberOld, AckTrue, Sender, Messages,
      Kinds
<1> QED
  BY <1>0, <1>1, <1>2, <1>3, <1>4 DEF IInv

(* unaccept takes a server out of its connection,                           *)
LEMMA UnacceptKeeps ==
  ASSUME IInv, NEW e \in Ends, Unaccept(e)
  PROVE  IInv'
<1> DEFINE p == Peer(e)
<1>0. p \in Ends /\ p # e /\ Peer(p) = e /\ \A x \in Ends : x = e \/ x = p
  BY PeerFacts
<1>1. Typed'
  BY DEF Unaccept, IInv, Typed, TypeOK, States
<1>2. SocketTrue(e)'
  BY <1>0, <1>1 DEF Unaccept, IInv, Typed, TypeOK
<1>3. SocketTrue(p)'
  BY <1>0, <1>1 DEF Unaccept, IInv, Typed, TypeOK
<1>4. ASSUME NEW s \in net' PROVE SegmentTrue(s)'
  BY <1>0, <1>1
  DEF Unaccept, IInv, Typed, TypeOK, SegmentTrue, NumberOld, AckTrue, Sender, Messages, Kinds
<1> QED
  BY <1>0, <1>1, <1>2, <1>3, <1>4 DEF IInv

(* and relisten enters it at its port again.                                *)
LEMMA RelistenKeeps ==
  ASSUME IInv, NEW e \in Ends, Relisten(e)
  PROVE  IInv'
<1> DEFINE p == Peer(e)
<1>0. p \in Ends /\ p # e /\ Peer(p) = e /\ \A x \in Ends : x = e \/ x = p
  BY PeerFacts
<1>1. Typed'
  BY DEF Relisten, IInv, Typed, TypeOK, States
<1>2. SocketTrue(e)'
  BY <1>0, <1>1 DEF Relisten, IInv, Typed, TypeOK
<1>3. SocketTrue(p)'
  BY <1>0, <1>1 DEF Relisten, IInv, Typed, TypeOK
<1>4. ASSUME NEW s \in net' PROVE SegmentTrue(s)'
  BY <1>0, <1>1
  DEF Relisten, IInv, Typed, TypeOK, SegmentTrue, NumberOld, AckTrue, Sender, Messages, Kinds
<1> QED
  BY <1>0, <1>1, <1>2, <1>3, <1>4 DEF IInv

(* A disconnect during the handshake gives the connection up.               *)
LEMMA DisconnectOpeningKeeps ==
  ASSUME IInv, NEW e \in Ends, DisconnectOpening(e)
  PROVE  IInv'
<1> DEFINE p == Peer(e)
<1>0. p \in Ends /\ p # e /\ Peer(p) = e /\ \A x \in Ends : x = e \/ x = p
  BY PeerFacts
<1>1. Typed'
  BY DEF DisconnectOpening, Send, Segment, Refused, IInv, Typed, TypeOK, States
<1>2. SocketTrue(e)'
  BY <1>0, <1>1 DEF DisconnectOpening, Send, Segment, Refused, IInv, Typed, TypeOK
<1>3. SocketTrue(p)'
  BY <1>0, <1>1 DEF DisconnectOpening, Send, Segment, Refused, IInv, Typed, TypeOK
<1>4. ASSUME NEW s \in net', s \notin net PROVE SegmentTrue(s)'
  <2>1. s \in Messages /\ s.to = p
    BY <1>0, <1>1, <1>4
    DEF DisconnectOpening, Send, Segment, Refused, IInv, Typed, TypeOK, NumberOld, AckTrue,
        Sender, Messages, Kinds
  <2>2. NumberOld(s)'
    BY <1>0, <1>1, <1>4, <2>1
    DEF DisconnectOpening, Send, Segment, Refused, IInv, Typed, TypeOK, NumberOld, AckTrue,
        Sender, Messages, Kinds
  <2>3. AckTrue(s)'
    BY <1>0, <1>1, <1>4, <2>1
    DEF DisconnectOpening, Send, Segment, Refused, IInv, Typed, TypeOK, NumberOld, AckTrue,
        Sender, Messages, Kinds
  <2> QED
    BY <2>1, <2>2, <2>3 DEF SegmentTrue
<1>5. ASSUME NEW s \in net PROVE SegmentTrue(s)'
  BY <1>0, <1>1
  DEF DisconnectOpening, Send, Segment, Refused, IInv, Typed, TypeOK, SegmentTrue, NumberOld,
      AckTrue, Sender, Messages, Kinds
<1> QED
  BY <1>0, <1>1, <1>2, <1>3, <1>4, <1>5 DEF IInv

(* An abortive disconnect frees the socket: its RST has the number it would *)
(* send next.                                                               *)
LEMMA DisconnectAbortKeeps ==
  ASSUME IInv, NEW e \in Ends, DisconnectAbort(e)
  PROVE  IInv'
<1> DEFINE p == Peer(e)
<1>0. p \in Ends /\ p # e /\ Peer(p) = e /\ \A x \in Ends : x = e \/ x = p
  BY PeerFacts
<1>1. Typed'
  BY DEF DisconnectAbort, Send, Segment, BlockCleanup, IInv, Typed, TypeOK, States
<1>2. SocketTrue(e)'
  BY <1>0, <1>1 DEF DisconnectAbort, Send, Segment, BlockCleanup, IInv, Typed, TypeOK
<1>3. SocketTrue(p)'
  BY <1>0, <1>1 DEF DisconnectAbort, Send, Segment, BlockCleanup, IInv, Typed, TypeOK
<1>4. ASSUME NEW s \in net', s \notin net PROVE SegmentTrue(s)'
  <2>1. s \in Messages /\ s.to = p
    BY <1>0, <1>1, <1>4
    DEF DisconnectAbort, Send, Segment, BlockCleanup, IInv, Typed, TypeOK, NumberOld, AckTrue,
        Sender, Messages, Kinds
  <2>2. NumberOld(s)'
    BY <1>0, <1>1, <1>4, <2>1
    DEF DisconnectAbort, Send, Segment, BlockCleanup, IInv, Typed, TypeOK, NumberOld, AckTrue,
        Sender, Messages, Kinds
  <2>3. AckTrue(s)'
    BY <1>0, <1>1, <1>4, <2>1
    DEF DisconnectAbort, Send, Segment, BlockCleanup, IInv, Typed, TypeOK, NumberOld, AckTrue,
        Sender, Messages, Kinds
  <2> QED
    BY <2>1, <2>2, <2>3 DEF SegmentTrue
<1>5. ASSUME NEW s \in net PROVE SegmentTrue(s)'
  BY <1>0, <1>1
  DEF DisconnectAbort, Send, Segment, BlockCleanup, IInv, Typed, TypeOK, SegmentTrue,
      NumberOld, AckTrue, Sender, Messages, Kinds
<1> QED
  BY <1>0, <1>1, <1>2, <1>3, <1>4, <1>5 DEF IInv

(* An orderly disconnect sends the FIN and suspends the thread.             *)
LEMMA DisconnectOrderlyKeeps ==
  ASSUME IInv, NEW e \in Ends, DisconnectOrderly(e)
  PROVE  IInv'
<1> DEFINE p == Peer(e)
<1>0. p \in Ends /\ p # e /\ Peer(p) = e /\ \A x \in Ends : x = e \/ x = p
  BY PeerFacts
<1>1. Typed'
  BY DEF DisconnectOrderly, Send, Segment, Arm, IInv, Typed, TypeOK, States
<1>2. SocketTrue(e)'
  BY <1>0, <1>1 DEF DisconnectOrderly, Send, Segment, Arm, IInv, Typed, TypeOK
<1>3. SocketTrue(p)'
  BY <1>0, <1>1 DEF DisconnectOrderly, Send, Segment, Arm, IInv, Typed, TypeOK
<1>4. ASSUME NEW s \in net', s \notin net PROVE SegmentTrue(s)'
  <2>1. s \in Messages /\ s.to = p
    BY <1>0, <1>1, <1>4
    DEF DisconnectOrderly, Send, Segment, Arm, IInv, Typed, TypeOK, NumberOld, AckTrue,
        Sender, Messages, Kinds
  <2>2. NumberOld(s)'
    BY <1>0, <1>1, <1>4, <2>1
    DEF DisconnectOrderly, Send, Segment, Arm, IInv, Typed, TypeOK, NumberOld, AckTrue,
        Sender, Messages, Kinds
  <2>3. AckTrue(s)'
    BY <1>0, <1>1, <1>4, <2>1
    DEF DisconnectOrderly, Send, Segment, Arm, IInv, Typed, TypeOK, NumberOld, AckTrue,
        Sender, Messages, Kinds
  <2> QED
    BY <2>1, <2>2, <2>3 DEF SegmentTrue
<1>5. ASSUME NEW s \in net PROVE SegmentTrue(s)'
  BY <1>0, <1>1
  DEF DisconnectOrderly, Send, Segment, Arm, IInv, Typed, TypeOK, SegmentTrue, NumberOld,
      AckTrue, Sender, Messages, Kinds
<1> QED
  BY <1>0, <1>1, <1>2, <1>3, <1>4, <1>5 DEF IInv

(* A thread that has returned from disconnect cleans up.                    *)
LEMMA DisconnectReturnKeeps ==
  ASSUME IInv, NEW e \in Ends, DisconnectReturn(e)
  PROVE  IInv'
<1> DEFINE p == Peer(e)
<1>0. p \in Ends /\ p # e /\ Peer(p) = e /\ \A x \in Ends : x = e \/ x = p
  BY PeerFacts
<1>1. Typed'
  <2>1. CASE state[e] # "TIMED_WAIT"
    BY <2>1, Types DEF DisconnectReturn, BlockCleanup, Typed, TypeOK, States
  <2>2. CASE state[e] = "TIMED_WAIT"
    BY <2>2, Types DEF DisconnectReturn, Typed, TypeOK, States
  <2> QED
    BY <2>1, <2>2
<1>2. SocketTrue(e)'
  BY <1>0, <1>1 DEF DisconnectReturn, BlockCleanup, IInv, Typed, TypeOK
<1>3. SocketTrue(p)'
  BY <1>0, <1>1 DEF DisconnectReturn, BlockCleanup, IInv, Typed, TypeOK
<1>4. ASSUME NEW s \in net' PROVE SegmentTrue(s)'
  BY <1>0, <1>1
  DEF DisconnectReturn, BlockCleanup, IInv, Typed, TypeOK, SegmentTrue, NumberOld, AckTrue,
      Sender, Messages, Kinds
<1> QED
  BY <1>0, <1>1, <1>2, <1>3, <1>4 DEF IInv

(* A wait that expires reports failure.                                     *)
LEMMA WaitExpiresKeeps ==
  ASSUME IInv, NEW e \in Ends, WaitExpires(e)
  PROVE  IInv'
<1> DEFINE p == Peer(e)
<1>0. p \in Ends /\ p # e /\ Peer(p) = e /\ \A x \in Ends : x = e \/ x = p
  BY PeerFacts
<1>1. Typed'
  <2> USE Types
      DEF WaitExpires, Refused, Closed, Typed, TypeOK, States
  <2>1. state' \in [Ends -> States]
    OBVIOUS
  <2>2. taken' \in [Ends -> SUBSET Int]
    OBVIOUS
  <2>3. /\ connected' \in [Ends -> BOOLEAN] /\ bound' \in [Ends -> BOOLEAN]
        /\ listening' \in [Ends -> BOOLEAN]
    OBVIOUS
  <2>4. tx' \in [Ends -> Nat] /\ rx' \in [Ends -> Int] /\ opens' \in 0..MaxOpens
    OBVIOUS
  <2>5. finReceived' \in [Ends -> BOOLEAN] /\ finAcked' \in [Ends -> BOOLEAN]
    OBVIOUS
  <2>6. finSeq' \in [Ends -> Nat]
    OBVIOUS
  <2>7. timeout' \in [Ends -> BOOLEAN]
    OBVIOUS
  <2>8. retries' \in [Ends -> 0..MaxRetries]
    OBVIOUS
  <2>9. /\ app' \in [Ends -> {"idle", "connect", "accept", "acceptFailed", "disconnect",
                          "disconnected"}]
        /\ status' \in [Ends -> {"NONE", "SUCCESS", "FAILED"}]
    OBVIOUS
  <2> QED
    BY <2>1, <2>2, <2>3, <2>4, <2>5, <2>6, <2>7, <2>8, <2>9 DEF Typed, TypeOK
<1>2. SocketTrue(e)'
  BY <1>0, <1>1 DEF WaitExpires, Refused, Closed, IInv, Typed, TypeOK
<1>3. SocketTrue(p)'
  BY <1>0, <1>1 DEF WaitExpires, Refused, Closed, IInv, Typed, TypeOK
<1>4. ASSUME NEW s \in net' PROVE SegmentTrue(s)'
  BY <1>0, <1>1
  DEF WaitExpires, Refused, Closed, IInv, Typed, TypeOK, SegmentTrue, NumberOld, AckTrue,
      Sender, Messages, Kinds
<1> QED
  BY <1>0, <1>1, <1>2, <1>3, <1>4 DEF IInv

(* The timer resets a connection after its last retry,                      *)
LEMMA TimerResetKeeps ==
  ASSUME IInv, NEW e \in Ends, TimerReset(e)
  PROVE  IInv'
<1> DEFINE p == Peer(e)
<1>0. p \in Ends /\ p # e /\ Peer(p) = e /\ \A x \in Ends : x = e \/ x = p
  BY PeerFacts
<1>1. Typed'
  BY DEF TimerReset, ConnectionReset, BlockCleanup, Refused, Closed, IInv, Typed, TypeOK, States
<1>2. SocketTrue(e)'
  BY <1>0, <1>1
  DEF TimerReset, ConnectionReset, BlockCleanup, Refused, Closed, IInv, Typed, TypeOK
<1>3. SocketTrue(p)'
  BY <1>0, <1>1
  DEF TimerReset, ConnectionReset, BlockCleanup, Refused, Closed, IInv, Typed, TypeOK
<1>4. ASSUME NEW s \in net' PROVE SegmentTrue(s)'
  BY <1>0, <1>1
  DEF TimerReset, ConnectionReset, BlockCleanup, Refused, Closed, IInv, Typed, TypeOK,
      SegmentTrue, NumberOld, AckTrue, Sender, Messages, Kinds
<1> QED
  BY <1>0, <1>1, <1>2, <1>3, <1>4 DEF IInv

(* sends the SYN, SYN+ACK or FIN again,                                     *)
LEMMA TimerResendKeeps ==
  ASSUME IInv, NEW e \in Ends, TimerResend(e)
  PROVE  IInv'
<1> DEFINE p == Peer(e)
<1>0. p \in Ends /\ p # e /\ Peer(p) = e /\ \A x \in Ends : x = e \/ x = p
  BY PeerFacts
<1>1. Typed'
  BY DEF TimerResend, Resend, Send, Segment, IInv, Typed, TypeOK, States
<1>2. SocketTrue(e)'
  BY <1>0, <1>1 DEF TimerResend, Resend, Send, Segment, IInv, Typed, TypeOK
<1>3. SocketTrue(p)'
  BY <1>0, <1>1 DEF TimerResend, Resend, Send, Segment, IInv, Typed, TypeOK
<1>4. ASSUME NEW s \in net', s \notin net PROVE SegmentTrue(s)'
  <2>1. s \in Messages /\ s.to = p
    BY <1>0, <1>1, <1>4
    DEF TimerResend, Resend, Send, Segment, IInv, Typed, TypeOK, NumberOld, AckTrue, Sender,
        Messages, Kinds
  <2>2. NumberOld(s)'
    BY <1>0, <1>1, <1>4, <2>1
    DEF TimerResend, Resend, Send, Segment, IInv, Typed, TypeOK, NumberOld, AckTrue, Sender,
        Messages, Kinds
  <2>3. AckTrue(s)'
    BY <1>0, <1>1, <1>4, <2>1
    DEF TimerResend, Resend, Send, Segment, IInv, Typed, TypeOK, NumberOld, AckTrue, Sender,
        Messages, Kinds
  <2> QED
    BY <2>1, <2>2, <2>3 DEF SegmentTrue
<1>5. ASSUME NEW s \in net PROVE SegmentTrue(s)'
  BY <1>0, <1>1
  DEF TimerResend, Resend, Send, Segment, IInv, Typed, TypeOK, SegmentTrue, NumberOld,
      AckTrue, Sender, Messages, Kinds
<1> QED
  BY <1>0, <1>1, <1>2, <1>3, <1>4, <1>5 DEF IInv

(* or ends TIMED_WAIT.                                                      *)
LEMMA TimerTimedWaitKeeps ==
  ASSUME IInv, NEW e \in Ends, TimerTimedWait(e)
  PROVE  IInv'
<1> DEFINE p == Peer(e)
<1>0. p \in Ends /\ p # e /\ Peer(p) = e /\ \A x \in Ends : x = e \/ x = p
  BY PeerFacts
<1>1. Typed'
  BY DEF TimerTimedWait, BlockCleanup, IInv, Typed, TypeOK, States
<1>2. SocketTrue(e)'
  BY <1>0, <1>1 DEF TimerTimedWait, BlockCleanup, IInv, Typed, TypeOK
<1>3. SocketTrue(p)'
  BY <1>0, <1>1 DEF TimerTimedWait, BlockCleanup, IInv, Typed, TypeOK
<1>4. ASSUME NEW s \in net' PROVE SegmentTrue(s)'
  BY <1>0, <1>1
  DEF TimerTimedWait, BlockCleanup, IInv, Typed, TypeOK, SegmentTrue, NumberOld, AckTrue,
      Sender, Messages, Kinds
<1> QED
  BY <1>0, <1>1, <1>2, <1>3, <1>4 DEF IInv

(* A server takes a SYN, one of an earlier connection perhaps.              *)
LEMMA RecvListenKeeps ==
  ASSUME IInv, NEW e \in Ends, NEW m \in To(e), RecvListen(e, m)
  PROVE  IInv'
<1> DEFINE p == Peer(e)
<1>0. p \in Ends /\ p # e /\ Peer(p) = e /\ \A x \in Ends : x = e \/ x = p
  BY PeerFacts
<1>1. m \in net /\ m \in Messages /\ m.to = e /\ NumberOld(m) /\ AckTrue(m)
  BY Arriving
<1>2. Typed'
  <2> USE <1>0, <1>1, Types
      DEF RecvListen, Arm, Typed, TypeOK, States, Messages,
          NumberOld, Sender
  <2>1. state' \in [Ends -> States]
    OBVIOUS
  <2>2. taken' \in [Ends -> SUBSET Int]
    OBVIOUS
  <2>3. /\ connected' \in [Ends -> BOOLEAN] /\ bound' \in [Ends -> BOOLEAN]
        /\ listening' \in [Ends -> BOOLEAN]
    OBVIOUS
  <2>4. tx' \in [Ends -> Nat] /\ rx' \in [Ends -> Int] /\ opens' \in 0..MaxOpens
    OBVIOUS
  <2>5. finReceived' \in [Ends -> BOOLEAN] /\ finAcked' \in [Ends -> BOOLEAN]
    OBVIOUS
  <2>6. finSeq' \in [Ends -> Nat]
    OBVIOUS
  <2>7. timeout' \in [Ends -> BOOLEAN]
    BY ZenonT(30)
  <2>8. retries' \in [Ends -> 0..MaxRetries]
    OBVIOUS
  <2>9. /\ app' \in [Ends -> {"idle", "connect", "accept", "acceptFailed", "disconnect",
                          "disconnected"}]
        /\ status' \in [Ends -> {"NONE", "SUCCESS", "FAILED"}]
    OBVIOUS
  <2> QED
    BY <2>1, <2>2, <2>3, <2>4, <2>5, <2>6, <2>7, <2>8, <2>9 DEF Typed, TypeOK
<1>3. SocketTrue(e)'
  BY <1>0, <1>1, <1>2
  DEF RecvListen, Arm, Send, Segment, IInv, Typed, TypeOK, Messages, Kinds, NumberOld,
      AckTrue, Sender
<1>4. SocketTrue(p)'
  BY <1>0, <1>1, <1>2
  DEF RecvListen, Arm, Send, Segment, IInv, Typed, TypeOK, Messages, Kinds, NumberOld,
      AckTrue, Sender
<1>5. ASSUME NEW s \in net', s \notin net PROVE SegmentTrue(s)'
  <2>1. s \in Messages /\ s.to = p
    BY <1>0, <1>1, <1>2, <1>5
    DEF RecvListen, Arm, Send, Segment, IInv, Typed, TypeOK, NumberOld, AckTrue, Sender,
        Messages, Kinds
  <2>2. NumberOld(s)'
    BY <1>0, <1>1, <1>2, <1>5, <2>1
    DEF RecvListen, Arm, Send, Segment, IInv, Typed, TypeOK, NumberOld, AckTrue, Sender,
        Messages, Kinds
  <2>3. AckTrue(s)'
    BY <1>0, <1>1, <1>2, <1>5, <2>1
    DEF RecvListen, Arm, Send, Segment, IInv, Typed, TypeOK, NumberOld, AckTrue, Sender,
        Messages, Kinds
  <2> QED
    BY <2>1, <2>2, <2>3 DEF SegmentTrue
<1>6. ASSUME NEW s \in net PROVE SegmentTrue(s)'
  BY <1>0, <1>1, <1>2
  DEF RecvListen, Arm, Send, Segment, IInv, Typed, TypeOK, SegmentTrue, NumberOld, AckTrue,
      Sender, Messages, Kinds
<1> QED
  BY <1>0, <1>2, <1>3, <1>4, <1>5, <1>6 DEF IInv

(* A segment for no socket is answered with a RST of a number the other     *)
(* has.                                                                     *)
LEMMA RecvNoSocketKeeps ==
  ASSUME IInv, NEW e \in Ends, NEW m \in To(e), RecvNoSocket(e, m)
  PROVE  IInv'
<1> DEFINE p == Peer(e)
<1>0. p \in Ends /\ p # e /\ Peer(p) = e /\ \A x \in Ends : x = e \/ x = p
  BY PeerFacts
<1>1. m \in net /\ m \in Messages /\ m.to = e /\ NumberOld(m) /\ AckTrue(m)
  BY Arriving
<1>2. Typed'
  BY <1>0, <1>1
  DEF RecvNoSocket, Send, Segment, Rst, IInv, Typed, TypeOK, States, Messages, Kinds,
      NumberOld, AckTrue, Sender
<1>3. SocketTrue(e)'
  BY <1>0, <1>1, <1>2
  DEF RecvNoSocket, Send, Segment, Rst, IInv, Typed, TypeOK, Messages, Kinds, NumberOld,
      AckTrue, Sender
<1>4. SocketTrue(p)'
  BY <1>0, <1>1, <1>2
  DEF RecvNoSocket, Send, Segment, Rst, IInv, Typed, TypeOK, Messages, Kinds, NumberOld,
      AckTrue, Sender
<1>5. ASSUME NEW s \in net', s \notin net PROVE SegmentTrue(s)'
  <2>1. s \in Messages /\ s.to = p
    BY <1>0, <1>1, <1>2, <1>5
    DEF RecvNoSocket, Send, Segment, Rst, IInv, Typed, TypeOK, NumberOld, AckTrue, Sender,
        Messages, Kinds
  <2>2. NumberOld(s)'
    BY <1>0, <1>1, <1>2, <1>5, <2>1
    DEF RecvNoSocket, Send, Segment, Rst, IInv, Typed, TypeOK, NumberOld, AckTrue, Sender,
        Messages, Kinds
  <2>3. AckTrue(s)'
    BY <1>0, <1>1, <1>2, <1>5, <2>1
    DEF RecvNoSocket, Send, Segment, Rst, IInv, Typed, TypeOK, NumberOld, AckTrue, Sender,
        Messages, Kinds
  <2> QED
    BY <2>1, <2>2, <2>3 DEF SegmentTrue
<1>6. ASSUME NEW s \in net PROVE SegmentTrue(s)'
  BY <1>0, <1>1, <1>2
  DEF RecvNoSocket, Send, Segment, Rst, IInv, Typed, TypeOK, SegmentTrue, NumberOld, AckTrue,
      Sender, Messages, Kinds
<1> QED
  BY <1>0, <1>2, <1>3, <1>4, <1>5, <1>6 DEF IInv

(* SYN_SENT: only a SYN+ACK of this SYN completes the handshake.            *)
LEMMA RecvSynSentKeeps ==
  ASSUME IInv, NEW e \in Ends, NEW m \in To(e), RecvSynSent(e, m), bound[e], connected[e]
  PROVE  IInv'
<1> DEFINE p == Peer(e)
<1>0. p \in Ends /\ p # e /\ Peer(p) = e /\ \A x \in Ends : x = e \/ x = p
  BY PeerFacts
<1>1. m \in net /\ m \in Messages /\ m.to = e /\ NumberOld(m) /\ AckTrue(m)
  BY Arriving
<1>2. Typed'
  <2>3. connected' \in [Ends -> BOOLEAN]
    <3>1. connected' \in {connected, Set(connected, e, FALSE)}
      BY DEF RecvSynSent, ConnectionReset, BlockCleanup
    <3>2. connected \in [Ends -> BOOLEAN]
      BY Types DEF Typed, TypeOK
    <3> QED
      BY <3>1, <3>2
  <2> USE <1>0, <1>1, Types
      DEF RecvSynSent, ConnectionReset, BlockCleanup, Refused,
          Closed, Typed, TypeOK, States, Messages, NumberOld, Sender
  <2>1. state' \in [Ends -> States]
    OBVIOUS
  <2>2. taken' \in [Ends -> SUBSET Int]
    OBVIOUS
  <2>4. bound' \in [Ends -> BOOLEAN]
    OBVIOUS
  <2>5. listening' \in [Ends -> BOOLEAN]
    OBVIOUS
  <2>6. tx' \in [Ends -> Nat] /\ rx' \in [Ends -> Int] /\ opens' \in 0..MaxOpens
    OBVIOUS
  <2>7. finReceived' \in [Ends -> BOOLEAN] /\ finAcked' \in [Ends -> BOOLEAN]
    OBVIOUS
  <2>8. finSeq' \in [Ends -> Nat]
    OBVIOUS
  <2>9. timeout' \in [Ends -> BOOLEAN]
    OBVIOUS
  <2>10. retries' \in [Ends -> 0..MaxRetries]
    OBVIOUS
  <2>11. /\ app' \in [Ends -> {"idle", "connect", "accept", "acceptFailed", "disconnect",
                          "disconnected"}]
        /\ status' \in [Ends -> {"NONE", "SUCCESS", "FAILED"}]
    OBVIOUS
  <2> QED
    BY <2>1, <2>2, <2>3, <2>4, <2>5, <2>6, <2>7, <2>8, <2>9, <2>10, <2>11 DEF Typed, TypeOK
<1>3. SocketTrue(e)'
  BY <1>0, <1>1, <1>2
  DEF RecvSynSent, Send, Segment, Rst, Ack, ConnectionReset, BlockCleanup, Refused, Closed,
      IInv, Typed, TypeOK, Messages, Kinds, NumberOld, AckTrue, Sender
<1>4. SocketTrue(p)'
  BY <1>0, <1>1, <1>2
  DEF RecvSynSent, Send, Segment, Rst, Ack, ConnectionReset, BlockCleanup, Refused, Closed,
      IInv, Typed, TypeOK, Messages, Kinds, NumberOld, AckTrue, Sender
<1>5. ASSUME NEW s \in net', s \notin net PROVE SegmentTrue(s)'
  <2>1. s \in Messages /\ s.to = p
    BY <1>0, <1>1, <1>2, <1>5
    DEF RecvSynSent, Send, Segment, Rst, Ack, ConnectionReset, BlockCleanup, Refused, Closed,
        IInv, Typed, TypeOK, NumberOld, AckTrue, Sender, Messages, Kinds
  <2>2. NumberOld(s)'
    BY <1>0, <1>1, <1>2, <1>5, <2>1
    DEF RecvSynSent, Send, Segment, Rst, Ack, ConnectionReset, BlockCleanup, Refused, Closed,
        IInv, Typed, TypeOK, NumberOld, AckTrue, Sender, Messages, Kinds
  <2>3. AckTrue(s)'
    BY <1>0, <1>1, <1>2, <1>5, <2>1
    DEF RecvSynSent, Send, Segment, Rst, Ack, ConnectionReset, BlockCleanup, Refused, Closed,
        IInv, Typed, TypeOK, NumberOld, AckTrue, Sender, Messages, Kinds
  <2> QED
    BY <2>1, <2>2, <2>3 DEF SegmentTrue
<1>6. ASSUME NEW s \in net PROVE SegmentTrue(s)'
  BY <1>0, <1>1, <1>2
  DEF RecvSynSent, Send, Segment, Rst, Ack, ConnectionReset, BlockCleanup, Refused, Closed,
      IInv, Typed, TypeOK, SegmentTrue, NumberOld, AckTrue, Sender, Messages, Kinds
<1> QED
  BY <1>0, <1>2, <1>3, <1>4, <1>5, <1>6 DEF IInv

(* A segment outside the window is answered and forgotten.                  *)
LEMMA RecvOutsideKeeps ==
  ASSUME IInv, NEW e \in Ends, NEW m \in To(e), RecvOutside(e, m), bound[e], connected[e]
  PROVE  IInv'
<1> DEFINE p == Peer(e)
<1>0. p \in Ends /\ p # e /\ Peer(p) = e /\ \A x \in Ends : x = e \/ x = p
  BY PeerFacts
<1>1. m \in net /\ m \in Messages /\ m.to = e /\ NumberOld(m) /\ AckTrue(m)
  BY Arriving
<1>2. Typed'
  BY <1>0, <1>1
  DEF RecvOutside, Send, Segment, Ack, InWindow, IInv, Typed, TypeOK, States, Messages, Kinds,
      NumberOld, AckTrue, Sender
<1>3. SocketTrue(e)'
  BY <1>0, <1>1, <1>2
  DEF RecvOutside, Send, Segment, Ack, InWindow, IInv, Typed, TypeOK, Messages, Kinds,
      NumberOld, AckTrue, Sender
<1>4. SocketTrue(p)'
  BY <1>0, <1>1, <1>2
  DEF RecvOutside, Send, Segment, Ack, InWindow, IInv, Typed, TypeOK, Messages, Kinds,
      NumberOld, AckTrue, Sender
<1>5. ASSUME NEW s \in net', s \notin net PROVE SegmentTrue(s)'
  <2>1. s \in Messages /\ s.to = p
    BY <1>0, <1>1, <1>2, <1>5
    DEF RecvOutside, Send, Segment, Ack, InWindow, IInv, Typed, TypeOK, NumberOld, AckTrue,
        Sender, Messages, Kinds
  <2>2. NumberOld(s)'
    BY <1>0, <1>1, <1>2, <1>5, <2>1
    DEF RecvOutside, Send, Segment, Ack, InWindow, IInv, Typed, TypeOK, NumberOld, AckTrue,
        Sender, Messages, Kinds
  <2>3. AckTrue(s)'
    BY <1>0, <1>1, <1>2, <1>5, <2>1
    DEF RecvOutside, Send, Segment, Ack, InWindow, IInv, Typed, TypeOK, NumberOld, AckTrue,
        Sender, Messages, Kinds
  <2> QED
    BY <2>1, <2>2, <2>3 DEF SegmentTrue
<1>6. ASSUME NEW s \in net PROVE SegmentTrue(s)'
  BY <1>0, <1>1, <1>2
  DEF RecvOutside, Send, Segment, Ack, InWindow, IInv, Typed, TypeOK, SegmentTrue, NumberOld,
      AckTrue, Sender, Messages, Kinds
<1> QED
  BY <1>0, <1>2, <1>3, <1>4, <1>5, <1>6 DEF IInv

(* A RST or SYN inside the window resets the connection.                    *)
LEMMA RecvResetKeeps ==
  ASSUME IInv, NEW e \in Ends, NEW m \in To(e), RecvReset(e, m), bound[e], connected[e]
  PROVE  IInv'
<1> DEFINE p == Peer(e)
<1>0. p \in Ends /\ p # e /\ Peer(p) = e /\ \A x \in Ends : x = e \/ x = p
  BY PeerFacts
<1>1. m \in net /\ m \in Messages /\ m.to = e /\ NumberOld(m) /\ AckTrue(m)
  BY Arriving
<1>2. Typed'
  BY <1>0, <1>1
  DEF RecvReset, Send, Segment, Rst, InWindow, ConnectionReset, BlockCleanup, Refused, Closed,
      IInv, Typed, TypeOK, States, Messages, Kinds, NumberOld, AckTrue, Sender
<1>3. SocketTrue(e)'
  BY <1>0, <1>1, <1>2
  DEF RecvReset, Send, Segment, Rst, InWindow, ConnectionReset, BlockCleanup, Refused, Closed,
      IInv, Typed, TypeOK, Messages, Kinds, NumberOld, AckTrue, Sender
<1>4. SocketTrue(p)'
  BY <1>0, <1>1, <1>2
  DEF RecvReset, Send, Segment, Rst, InWindow, ConnectionReset, BlockCleanup, Refused, Closed,
      IInv, Typed, TypeOK, Messages, Kinds, NumberOld, AckTrue, Sender
<1>5. ASSUME NEW s \in net', s \notin net PROVE SegmentTrue(s)'
  <2>1. s \in Messages /\ s.to = p
    BY <1>0, <1>1, <1>2, <1>5
    DEF RecvReset, Send, Segment, Rst, InWindow, ConnectionReset, BlockCleanup, Refused,
        Closed, IInv, Typed, TypeOK, NumberOld, AckTrue, Sender, Messages, Kinds
  <2>2. NumberOld(s)'
    BY <1>0, <1>1, <1>2, <1>5, <2>1
    DEF RecvReset, Send, Segment, Rst, InWindow, ConnectionReset, BlockCleanup, Refused,
        Closed, IInv, Typed, TypeOK, NumberOld, AckTrue, Sender, Messages, Kinds
  <2>3. AckTrue(s)'
    BY <1>0, <1>1, <1>2, <1>5, <2>1
    DEF RecvReset, Send, Segment, Rst, InWindow, ConnectionReset, BlockCleanup, Refused,
        Closed, IInv, Typed, TypeOK, NumberOld, AckTrue, Sender, Messages, Kinds
  <2> QED
    BY <2>1, <2>2, <2>3 DEF SegmentTrue
<1>6. ASSUME NEW s \in net PROVE SegmentTrue(s)'
  BY <1>0, <1>1, <1>2
  DEF RecvReset, Send, Segment, Rst, InWindow, ConnectionReset, BlockCleanup, Refused, Closed,
      IInv, Typed, TypeOK, SegmentTrue, NumberOld, AckTrue, Sender, Messages, Kinds
<1> QED
  BY <1>0, <1>2, <1>3, <1>4, <1>5, <1>6 DEF IInv

(* SYN_RECEIVED: the segment that acknowledges this SYN comes from the      *)
(* other's connection.                                                      *)
LEMMA RecvSynReceivedKeeps ==
  ASSUME IInv, NEW e \in Ends, NEW m \in To(e), RecvSynReceived(e, m), bound[e], connected[e]
  PROVE  IInv'
<1> DEFINE p == Peer(e)
<1>0. p \in Ends /\ p # e /\ Peer(p) = e /\ \A x \in Ends : x = e \/ x = p
  BY PeerFacts
<1>1. m \in net /\ m \in Messages /\ m.to = e /\ NumberOld(m) /\ AckTrue(m)
  BY Arriving
<1>2. Typed'
  <2> USE <1>0, <1>1, Types
      DEF RecvSynReceived, InWindow, DataAck, Typed, TypeOK, States,
          Messages, NumberOld, Sender
  <2>1. state' \in [Ends -> States]
    OBVIOUS
  <2>2. taken' \in [Ends -> SUBSET Int]
    OBVIOUS
  <2>3. /\ connected' \in [Ends -> BOOLEAN] /\ bound' \in [Ends -> BOOLEAN]
        /\ listening' \in [Ends -> BOOLEAN]
    OBVIOUS
  <2>4. tx' \in [Ends -> Nat] /\ rx' \in [Ends -> Int] /\ opens' \in 0..MaxOpens
    OBVIOUS
  <2>5. finReceived' \in [Ends -> BOOLEAN]
    <3>1. finReceived' = finReceived \/ finReceived' = Set(finReceived, e, TRUE)
      BY DEF RecvSynReceived
    <3>2. finReceived \in [Ends -> BOOLEAN]
      BY Types DEF Typed, TypeOK
    <3> QED
      BY <3>1, <3>2
  <2>6. finAcked' \in [Ends -> BOOLEAN]
    OBVIOUS
  <2>7. finSeq' \in [Ends -> Nat]
    OBVIOUS
  <2>8. timeout' \in [Ends -> BOOLEAN]
    OBVIOUS
  <2>9. retries' \in [Ends -> 0..MaxRetries]
    OBVIOUS
  <2>10. /\ app' \in [Ends -> {"idle", "connect", "accept", "acceptFailed", "disconnect",
                          "disconnected"}]
        /\ status' \in [Ends -> {"NONE", "SUCCESS", "FAILED"}]
    OBVIOUS
  <2> QED
    BY <2>1, <2>2, <2>3, <2>4, <2>5, <2>6, <2>7, <2>8, <2>9, <2>10 DEF Typed, TypeOK
<1>3. SocketTrue(e)'
  BY <1>0, <1>1, <1>2
  DEF RecvSynReceived, Send, Segment, Rst, Ack, InWindow, DataAck, IInv, Typed, TypeOK,
      Messages, Kinds, NumberOld, AckTrue, Sender
<1>4. SocketTrue(p)'
  BY <1>0, <1>1, <1>2
  DEF RecvSynReceived, Send, Segment, Rst, Ack, InWindow, DataAck, IInv, Typed, TypeOK,
      Messages, Kinds, NumberOld, AckTrue, Sender
<1>5. ASSUME NEW s \in net', s \notin net PROVE SegmentTrue(s)'
  <2>1. s \in Messages /\ s.to = p
    BY <1>0, <1>1, <1>2, <1>5
    DEF RecvSynReceived, Send, Segment, Rst, Ack, InWindow, DataAck, IInv, Typed, TypeOK,
        NumberOld, AckTrue, Sender, Messages, Kinds
  <2>2. NumberOld(s)'
    BY <1>0, <1>1, <1>2, <1>5, <2>1
    DEF RecvSynReceived, Send, Segment, Rst, Ack, InWindow, DataAck, IInv, Typed, TypeOK,
        NumberOld, AckTrue, Sender, Messages, Kinds
  <2>3. AckTrue(s)'
    BY <1>0, <1>1, <1>2, <1>5, <2>1
    DEF RecvSynReceived, Send, Segment, Rst, Ack, InWindow, DataAck, IInv, Typed, TypeOK,
        NumberOld, AckTrue, Sender, Messages, Kinds
  <2> QED
    BY <2>1, <2>2, <2>3 DEF SegmentTrue
<1>6. ASSUME NEW s \in net PROVE SegmentTrue(s)'
  BY <1>0, <1>1, <1>2
  DEF RecvSynReceived, Send, Segment, Rst, Ack, InWindow, DataAck, IInv, Typed, TypeOK,
      SegmentTrue, NumberOld, AckTrue, Sender, Messages, Kinds
<1> QED
  BY <1>0, <1>2, <1>3, <1>4, <1>5, <1>6 DEF IInv

(* An ACK of what was not sent is answered and forgotten.                   *)
LEMMA RecvAckBeyondKeeps ==
  ASSUME IInv, NEW e \in Ends, NEW m \in To(e), RecvAckBeyond(e, m), bound[e], connected[e]
  PROVE  IInv'
<1> DEFINE p == Peer(e)
<1>0. p \in Ends /\ p # e /\ Peer(p) = e /\ \A x \in Ends : x = e \/ x = p
  BY PeerFacts
<1>1. m \in net /\ m \in Messages /\ m.to = e /\ NumberOld(m) /\ AckTrue(m)
  BY Arriving
<1>2. Typed'
  BY <1>0, <1>1
  DEF RecvAckBeyond, Send, Segment, Ack, InWindow, IInv, Typed, TypeOK, States, Messages,
      Kinds, NumberOld, AckTrue, Sender
<1>3. SocketTrue(e)'
  BY <1>0, <1>1, <1>2
  DEF RecvAckBeyond, Send, Segment, Ack, InWindow, IInv, Typed, TypeOK, Messages, Kinds,
      NumberOld, AckTrue, Sender
<1>4. SocketTrue(p)'
  BY <1>0, <1>1, <1>2
  DEF RecvAckBeyond, Send, Segment, Ack, InWindow, IInv, Typed, TypeOK, Messages, Kinds,
      NumberOld, AckTrue, Sender
<1>5. ASSUME NEW s \in net', s \notin net PROVE SegmentTrue(s)'
  <2>1. s \in Messages /\ s.to = p
    BY <1>0, <1>1, <1>2, <1>5
    DEF RecvAckBeyond, Send, Segment, Ack, InWindow, IInv, Typed, TypeOK, NumberOld, AckTrue,
        Sender, Messages, Kinds
  <2>2. NumberOld(s)'
    BY <1>0, <1>1, <1>2, <1>5, <2>1
    DEF RecvAckBeyond, Send, Segment, Ack, InWindow, IInv, Typed, TypeOK, NumberOld, AckTrue,
        Sender, Messages, Kinds
  <2>3. AckTrue(s)'
    BY <1>0, <1>1, <1>2, <1>5, <2>1
    DEF RecvAckBeyond, Send, Segment, Ack, InWindow, IInv, Typed, TypeOK, NumberOld, AckTrue,
        Sender, Messages, Kinds
  <2> QED
    BY <2>1, <2>2, <2>3 DEF SegmentTrue
<1>6. ASSUME NEW s \in net PROVE SegmentTrue(s)'
  BY <1>0, <1>1, <1>2
  DEF RecvAckBeyond, Send, Segment, Ack, InWindow, IInv, Typed, TypeOK, SegmentTrue,
      NumberOld, AckTrue, Sender, Messages, Kinds
<1> QED
  BY <1>0, <1>2, <1>3, <1>4, <1>5, <1>6 DEF IInv

(* ESTABLISHED: a FIN in order is taken.                                    *)
LEMMA RecvEstablishedKeeps ==
  ASSUME IInv, NEW e \in Ends, NEW m \in To(e), RecvEstablished(e, m), bound[e], connected[e]
  PROVE  IInv'
<1> DEFINE p == Peer(e)
<1>0. p \in Ends /\ p # e /\ Peer(p) = e /\ \A x \in Ends : x = e \/ x = p
  BY PeerFacts
<1>1. m \in net /\ m \in Messages /\ m.to = e /\ NumberOld(m) /\ AckTrue(m)
  BY Arriving
<1>2. Typed'
  BY <1>0, <1>1
  DEF RecvEstablished, InWindow, DataAck, Acceptable, DataCheck, FinInOrder, FinReceived,
      TakeFin, IInv, Typed, TypeOK, States, Messages, Kinds, NumberOld, AckTrue, Sender
<1>3. /\ state[e] = "ESTABLISHED" /\ Acceptable(e, m)
      /\ finReceived' = Set(finReceived, e, FinReceived(e, m))
      /\ finSeq' = IF m.kind = "FIN" THEN Set(finSeq, e, m.seq) ELSE finSeq
      /\ UNCHANGED <<placeVars, tx, opens, finAcked, timerVars, appVars>>
  BY DEF RecvEstablished, DataCheck
<1>4. CASE ~ FinInOrder(e, m)
  <2>1. UNCHANGED <<state, rx, taken>>
    BY <1>4 DEF RecvEstablished
  <2>2. \A s \in net' : s \in net \/ s = Ack(e, rx[e])
    BY <1>4 DEF RecvEstablished, DataAck
  <2>3. SocketTrue(e)'
    BY <1>0, <1>1, <1>2, <1>3, <2>1
    DEF FinReceived, IInv, Typed, TypeOK, Messages, NumberOld, Sender
  <2>4. SocketTrue(p)'
    BY <1>0, <1>1, <1>2, <1>3, <2>1 DEF IInv, Typed, TypeOK
  <2>5. ASSUME NEW s, s = Ack(e, rx[e]) PROVE SegmentTrue(s)'
    BY <1>0, <1>2, <1>3, <2>1, <2>5
    DEF IInv, Typed, TypeOK, Ack, Segment, SegmentTrue, NumberOld, AckTrue, Sender, Messages,
        Kinds
  <2>6. ASSUME NEW s \in net PROVE SegmentTrue(s)'
    BY <1>0, <1>2, <1>3, <2>1
    DEF IInv, Typed, TypeOK, SegmentTrue, NumberOld, AckTrue, Sender, Messages
  <2>t. taken' \in [Ends -> SUBSET Int]
    BY <2>1 DEF IInv, Typed, TypeOK
  <2> QED
    BY <1>0, <1>2, <2>t, <2>2, <2>3, <2>4, <2>5, <2>6 DEF IInv
<1>5. CASE FinInOrder(e, m)
  <2>1. /\ state' = Set(state, e, "CLOSE_WAIT") /\ rx' = Set(rx, e, rx[e] + 1)
        /\ taken' = Set(taken, e, taken[e] \cup {rx[e]})
    BY <1>5 DEF RecvEstablished, TakeFin
  <2>2. \A s \in net' : s \in net \/ s = Ack(e, rx[e]) \/ s = Ack(e, rx[e] + 1)
    BY <1>5 DEF RecvEstablished, DataAck
  <2>a. rx[e] + 1 <= tx[p]
    BY <1>0, <1>1, <1>5 DEF FinInOrder, IInv, Typed, TypeOK, NumberOld, Sender, Messages
  <2>3. SocketTrue(e)'
    BY <1>0, <1>1, <1>2, <1>3, <2>1, <2>a
    DEF FinReceived, IInv, Typed, TypeOK, Messages, NumberOld, Sender
  <2>4. SocketTrue(p)'
    BY <1>0, <1>1, <1>2, <1>3, <2>1, <2>a DEF IInv, Typed, TypeOK
  <2>5. ASSUME NEW s \in {Ack(e, rx[e]), Ack(e, rx[e] + 1)} PROVE SegmentTrue(s)'
    BY <1>0, <1>2, <1>3, <2>1, <2>a, <2>5
    DEF IInv, Typed, TypeOK, Ack, Segment, SegmentTrue, NumberOld, AckTrue, Sender, Messages,
        Kinds
  <2>6. ASSUME NEW s \in net PROVE SegmentTrue(s)'
    BY <1>0, <1>2, <1>3, <2>1
    DEF IInv, Typed, TypeOK, SegmentTrue, NumberOld, AckTrue, Sender, Messages
  <2>t. taken' \in [Ends -> SUBSET Int]
    BY <2>1 DEF IInv, Typed, TypeOK
  <2> QED
    BY <1>0, <1>2, <2>t, <2>2, <2>3, <2>4, <2>5, <2>6 DEF IInv
<1> QED
  BY <1>4, <1>5

(* FIN_WAIT_1: its FIN is acknowledged, the other's taken, or both at once. *)
LEMMA RecvFinWait1Keeps ==
  ASSUME IInv, NEW e \in Ends, NEW m \in To(e), RecvFinWait1(e, m), bound[e], connected[e]
  PROVE  IInv'
<1> DEFINE p == Peer(e)
<1>0. p \in Ends /\ p # e /\ Peer(p) = e /\ \A x \in Ends : x = e \/ x = p
  BY PeerFacts
<1>1. m \in net /\ m \in Messages /\ m.to = e /\ NumberOld(m) /\ AckTrue(m)
  BY Arriving
<1>2. /\ state[e] = "FIN_WAIT_1" /\ Acceptable(e, m)
      /\ finReceived' = Set(finReceived, e, FinReceived(e, m))
      /\ finSeq' = IF m.kind = "FIN" THEN Set(finSeq, e, m.seq) ELSE finSeq
      /\ finAcked' = Set(finAcked, e, FinAcked(e, m))
      /\ UNCHANGED <<placeVars, tx, opens, retries>>
  BY DEF RecvFinWait1, DataCheck
<1>a. finSeq' \in [Ends -> Nat]
  <2>1. CASE m.kind = "FIN"
    BY <1>0, <1>1, <1>2, <2>1 DEF IInv, Typed, TypeOK, Messages, NumberOld, Sender
  <2>2. CASE m.kind # "FIN"
    BY <1>2, <2>2 DEF IInv, Typed, TypeOK
  <2> QED
    BY <2>1, <2>2
<1>3. FinAcked(e, m) => FinTaken(e)
  BY <1>0, <1>1, <1>2 DEF FinAcked, Acceptable, AckTrue, IInv
<1>4. CASE /\ UNCHANGED <<rx, appVars, net, taken>>
           /\ \/ state' = state /\ timeout' = timeout
              \/ /\ state' = Set(state, e, "FIN_WAIT_2") /\ timeout' = Set(timeout, e, FALSE)
                 /\ FinAcked(e, m)
  <2>1. Typed'
    <3>1. state' \in [Ends -> States] /\ timeout' \in [Ends -> BOOLEAN]
      BY <1>4, Types DEF Typed, TypeOK, States
    <3>2. /\ app' \in [Ends -> {"idle", "connect", "accept", "acceptFailed", "disconnect",
                             "disconnected"}]
          /\ status' \in [Ends -> {"NONE", "SUCCESS", "FAILED"}]
      BY <1>4, Types DEF Closed, Typed, TypeOK
    <3>3. rx' \in [Ends -> Int] /\ taken' \in [Ends -> SUBSET Int]
      BY <1>4, Types DEF TakeFin, Typed, TypeOK
    <3>4. finReceived' \in [Ends -> BOOLEAN] /\ finAcked' \in [Ends -> BOOLEAN]
      BY <1>2, Types DEF FinReceived, FinAcked, Typed, TypeOK
    <3> QED
      BY <1>2, <1>a, <3>1, <3>2, <3>3, <3>4, Types DEF Typed, TypeOK
  <2>2. SocketTrue(e)'
    BY <1>0, <1>1, <1>2, <1>3, <1>4, <2>1
    DEF FinReceived, IInv, Typed, TypeOK, Messages, NumberOld, Sender
  <2>3. SocketTrue(p)'
    BY <1>0, <1>2, <1>4, <2>1 DEF IInv, Typed, TypeOK
  <2>4. ASSUME NEW s \in net PROVE SegmentTrue(s)'
    BY <1>0, <1>2, <1>4, <2>1
    DEF IInv, Typed, TypeOK, SegmentTrue, NumberOld, AckTrue, Sender, Messages
  <2> QED
    BY <1>0, <1>4, <2>1, <2>2, <2>3, <2>4 DEF IInv
<1>5. CASE /\ FinInOrder(e, m) /\ TakeFin(e) /\ Send(Ack(e, rx[e] + 1))
           /\ \/ /\ state' = Set(state, e, "TIMED_WAIT") /\ timeout' = Set(timeout, e, TRUE)
                 /\ FinAcked(e, m) /\ Closed(e, "SUCCESS")
              \/ state' = Set(state, e, "CLOSING") /\ UNCHANGED <<timeout, appVars>>
  <2>1. rx[e] + 1 <= tx[p]
    BY <1>0, <1>1, <1>5 DEF FinInOrder, IInv, Typed, TypeOK, NumberOld, Sender, Messages
  <2>2. Typed'
    <3>1. state' \in [Ends -> States] /\ timeout' \in [Ends -> BOOLEAN]
      BY <1>5, Types DEF Typed, TypeOK, States
    <3>2. /\ app' \in [Ends -> {"idle", "connect", "accept", "acceptFailed", "disconnect",
                             "disconnected"}]
          /\ status' \in [Ends -> {"NONE", "SUCCESS", "FAILED"}]
      BY <1>5, Types DEF Closed, Typed, TypeOK
    <3>3. rx' \in [Ends -> Int] /\ taken' \in [Ends -> SUBSET Int]
      BY <1>5, Types DEF TakeFin, Typed, TypeOK
    <3>4. finReceived' \in [Ends -> BOOLEAN] /\ finAcked' \in [Ends -> BOOLEAN]
      BY <1>2, Types DEF FinReceived, FinAcked, Typed, TypeOK
    <3> QED
      BY <1>2, <1>a, <3>1, <3>2, <3>3, <3>4, Types DEF Typed, TypeOK
  <2>3. SocketTrue(e)'
    BY <1>0, <1>1, <1>2, <1>3, <1>5, <2>1, <2>2
    DEF FinReceived, TakeFin, Closed, IInv, Typed, TypeOK, Messages, NumberOld, Sender
  <2>4. SocketTrue(p)'
    BY <1>0, <1>2, <1>5, <2>1, <2>2 DEF TakeFin, Closed, IInv, Typed, TypeOK
  <2>5. ASSUME NEW s, s = Ack(e, rx[e] + 1) PROVE SegmentTrue(s)'
    BY SMTT(20), <1>0, <1>2, <1>5, <2>1, <2>2, <2>5
    DEF TakeFin, Ack, Segment, IInv, Typed, TypeOK, SegmentTrue, NumberOld, AckTrue, Sender,
        Messages, Kinds
  <2>6. ASSUME NEW s \in net PROVE SegmentTrue(s)'
    BY <1>0, <1>2, <1>5, <2>2
    DEF TakeFin, IInv, Typed, TypeOK, SegmentTrue, NumberOld, AckTrue, Sender, Messages
  <2> QED
    BY <1>0, <1>5, <2>2, <2>3, <2>4, <2>5, <2>6 DEF IInv, Send
<1> QED
  BY <1>4, <1>5 DEF RecvFinWait1

(* FIN_WAIT_2: the other's FIN is taken; its own was.                       *)
LEMMA RecvFinWait2Keeps ==
  ASSUME IInv, NEW e \in Ends, NEW m \in To(e), RecvFinWait2(e, m), bound[e], connected[e]
  PROVE  IInv'
<1> DEFINE p == Peer(e)
<1>0. p \in Ends /\ p # e /\ Peer(p) = e /\ \A x \in Ends : x = e \/ x = p
  BY PeerFacts
<1>1. m \in net /\ m \in Messages /\ m.to = e /\ NumberOld(m) /\ AckTrue(m)
  BY Arriving
<1>2. /\ state[e] = "FIN_WAIT_2" /\ Acceptable(e, m) /\ m.kind = "FIN"
      /\ finReceived' = Set(finReceived, e, FinReceived(e, m))
      /\ finSeq' = IF m.kind = "FIN" THEN Set(finSeq, e, m.seq) ELSE finSeq
      /\ UNCHANGED <<placeVars, tx, opens, finAcked, retries>>
  BY DEF RecvFinWait2, DataCheck
<1>3. finAcked[e] /\ FinTaken(e)
  BY <1>2 DEF IInv
<1>4. CASE UNCHANGED <<state, timeout, rx, appVars, net, taken>>
  <2>1. Typed'
    BY <1>0, <1>1, <1>2, <1>4
    DEF FinReceived, IInv, Typed, TypeOK, States, Messages, NumberOld, Sender
  <2>2. SocketTrue(e)'
    BY <1>0, <1>1, <1>2, <1>3, <1>4, <2>1
    DEF FinReceived, IInv, Typed, TypeOK, Messages, NumberOld, Sender
  <2>3. SocketTrue(p)'
    BY <1>0, <1>2, <1>4, <2>1 DEF IInv, Typed, TypeOK
  <2>4. ASSUME NEW s \in net PROVE SegmentTrue(s)'
    BY <1>0, <1>2, <1>4, <2>1
    DEF IInv, Typed, TypeOK, SegmentTrue, NumberOld, AckTrue, Sender, Messages
  <2> QED
    BY <1>0, <1>4, <2>1, <2>2, <2>3, <2>4 DEF IInv
<1>5. CASE /\ FinInOrder(e, m) /\ TakeFin(e) /\ Send(Ack(e, rx[e] + 1))
           /\ state' = Set(state, e, "TIMED_WAIT") /\ timeout' = Set(timeout, e, TRUE)
           /\ Closed(e, "SUCCESS")
  <2>1. rx[e] + 1 <= tx[p]
    BY <1>0, <1>1, <1>5 DEF FinInOrder, IInv, Typed, TypeOK, NumberOld, Sender, Messages
  <2>2. Typed'
    BY <1>0, <1>1, <1>2, <1>5
    DEF FinReceived, TakeFin, Closed, IInv, Typed, TypeOK, States, Messages, NumberOld, Sender
  <2>3. SocketTrue(e)'
    BY <1>0, <1>1, <1>2, <1>3, <1>5, <2>1, <2>2
    DEF FinReceived, TakeFin, Closed, IInv, Typed, TypeOK, Messages, NumberOld, Sender
  <2>4. SocketTrue(p)'
    BY <1>0, <1>2, <1>5, <2>1, <2>2 DEF TakeFin, Closed, IInv, Typed, TypeOK
  <2>5. ASSUME NEW s, s = Ack(e, rx[e] + 1) PROVE SegmentTrue(s)'
    BY <1>0, <1>2, <1>5, <2>1, <2>2, <2>5
    DEF TakeFin, Ack, Segment, IInv, Typed, TypeOK, SegmentTrue, NumberOld, AckTrue, Sender,
        Messages, Kinds
  <2>6. ASSUME NEW s \in net PROVE SegmentTrue(s)'
    BY <1>0, <1>2, <1>5, <2>2
    DEF TakeFin, IInv, Typed, TypeOK, SegmentTrue, NumberOld, AckTrue, Sender, Messages
  <2> QED
    BY <1>0, <1>5, <2>2, <2>3, <2>4, <2>5, <2>6 DEF IInv, Send
<1> QED
  BY <1>4, <1>5 DEF RecvFinWait2

(* CLOSING and                                                              *)
LEMMA RecvClosingKeeps ==
  ASSUME IInv, NEW e \in Ends, NEW m \in To(e), RecvClosing(e, m), bound[e], connected[e]
  PROVE  IInv'
<1> DEFINE p == Peer(e)
<1>0. p \in Ends /\ p # e /\ Peer(p) = e /\ \A x \in Ends : x = e \/ x = p
  BY PeerFacts
<1>1. m \in net /\ m \in Messages /\ m.to = e /\ NumberOld(m) /\ AckTrue(m)
  BY Arriving
<1>2. Typed'
  <2> USE <1>0, <1>1, Types
      DEF RecvClosing, InWindow, Acceptable, Closed, Typed, TypeOK,
          States, Messages, NumberOld, Sender
  <2>1. state' \in [Ends -> States]
    OBVIOUS
  <2>2. taken' \in [Ends -> SUBSET Int]
    OBVIOUS
  <2>3. /\ connected' \in [Ends -> BOOLEAN] /\ bound' \in [Ends -> BOOLEAN]
        /\ listening' \in [Ends -> BOOLEAN]
    OBVIOUS
  <2>4. tx' \in [Ends -> Nat] /\ rx' \in [Ends -> Int] /\ opens' \in 0..MaxOpens
    OBVIOUS
  <2>5. finReceived' \in [Ends -> BOOLEAN] /\ finAcked' \in [Ends -> BOOLEAN]
    OBVIOUS
  <2>6. finSeq' \in [Ends -> Nat]
    OBVIOUS
  <2>7. timeout' \in [Ends -> BOOLEAN]
    OBVIOUS
  <2>8. retries' \in [Ends -> 0..MaxRetries]
    OBVIOUS
  <2>9. /\ app' \in [Ends -> {"idle", "connect", "accept", "acceptFailed", "disconnect",
                          "disconnected"}]
        /\ status' \in [Ends -> {"NONE", "SUCCESS", "FAILED"}]
    OBVIOUS
  <2> QED
    BY <2>1, <2>2, <2>3, <2>4, <2>5, <2>6, <2>7, <2>8, <2>9 DEF Typed, TypeOK
<1>3. SocketTrue(e)'
  BY <1>0, <1>1, <1>2
  DEF RecvClosing, InWindow, Acceptable, Closed, IInv, Typed, TypeOK, Messages, Kinds,
      NumberOld, AckTrue, Sender
<1>4. SocketTrue(p)'
  BY <1>0, <1>1, <1>2
  DEF RecvClosing, InWindow, Acceptable, Closed, IInv, Typed, TypeOK, Messages, Kinds,
      NumberOld, AckTrue, Sender
<1>5. ASSUME NEW s \in net' PROVE SegmentTrue(s)'
  BY SMTT(20), <1>0, <1>1, <1>2
  DEF RecvClosing, InWindow, Acceptable, Closed, IInv, Typed, TypeOK, SegmentTrue, NumberOld,
      AckTrue, Sender, Messages, Kinds
<1> QED
  BY <1>0, <1>2, <1>3, <1>4, <1>5 DEF IInv

(* LAST_ACK: the ACK of the FIN ends the disconnect.                        *)
LEMMA RecvLastAckKeeps ==
  ASSUME IInv, NEW e \in Ends, NEW m \in To(e), RecvLastAck(e, m), bound[e], connected[e]
  PROVE  IInv'
<1> DEFINE p == Peer(e)
<1>0. p \in Ends /\ p # e /\ Peer(p) = e /\ \A x \in Ends : x = e \/ x = p
  BY PeerFacts
<1>1. m \in net /\ m \in Messages /\ m.to = e /\ NumberOld(m) /\ AckTrue(m)
  BY Arriving
<1>2. Typed'
  <2> USE <1>0, <1>1, Types
      DEF RecvLastAck, InWindow, Acceptable, Closed, BlockCleanup,
          Typed, TypeOK, States, Messages, NumberOld, Sender
  <2>1. state' \in [Ends -> States]
    OBVIOUS
  <2>2. taken' \in [Ends -> SUBSET Int]
    OBVIOUS
  <2>3. /\ connected' \in [Ends -> BOOLEAN] /\ bound' \in [Ends -> BOOLEAN]
        /\ listening' \in [Ends -> BOOLEAN]
    BY ZenonT(30)
  <2>4. tx' \in [Ends -> Nat] /\ rx' \in [Ends -> Int] /\ opens' \in 0..MaxOpens
    OBVIOUS
  <2>5. finReceived' \in [Ends -> BOOLEAN] /\ finAcked' \in [Ends -> BOOLEAN]
    OBVIOUS
  <2>6. finSeq' \in [Ends -> Nat]
    OBVIOUS
  <2>7. timeout' \in [Ends -> BOOLEAN]
    BY ZenonT(30)
  <2>8. retries' \in [Ends -> 0..MaxRetries]
    OBVIOUS
  <2>9. /\ app' \in [Ends -> {"idle", "connect", "accept", "acceptFailed", "disconnect",
                          "disconnected"}]
        /\ status' \in [Ends -> {"NONE", "SUCCESS", "FAILED"}]
    OBVIOUS
  <2> QED
    BY <2>1, <2>2, <2>3, <2>4, <2>5, <2>6, <2>7, <2>8, <2>9 DEF Typed, TypeOK
<1>3. SocketTrue(e)'
  BY <1>0, <1>1, <1>2
  DEF RecvLastAck, InWindow, Acceptable, Closed, BlockCleanup, IInv, Typed, TypeOK, Messages,
      Kinds, NumberOld, AckTrue, Sender
<1>4. SocketTrue(p)'
  BY <1>0, <1>1, <1>2
  DEF RecvLastAck, InWindow, Acceptable, Closed, BlockCleanup, IInv, Typed, TypeOK, Messages,
      Kinds, NumberOld, AckTrue, Sender
<1>5. ASSUME NEW s \in net' PROVE SegmentTrue(s)'
  BY <1>0, <1>1, <1>2
  DEF RecvLastAck, InWindow, Acceptable, Closed, BlockCleanup, IInv, Typed, TypeOK,
      SegmentTrue, NumberOld, AckTrue, Sender, Messages, Kinds
<1> QED
  BY <1>0, <1>2, <1>3, <1>4, <1>5 DEF IInv

-----------------------------------------------------------------------------
(* Before anything was sent.                                                *)
LEMMA InitTrue == Init => IInv
<1> SUFFICES ASSUME Init PROVE IInv
  OBVIOUS
<1>1. Typed
  BY DEF Init, Typed, TypeOK, States
<1>2. ASSUME NEW e \in Ends PROVE SocketTrue(e)
  BY <1>2, PeerFacts DEF Init
<1> QED
  BY <1>1, <1>2 DEF Init, IInv

(* A step of a service or of the timer, and of a segment that arrives.      *)
LEMMA ServiceKeeps ==
  ASSUME IInv, NEW e \in Ends, Service(e) \/ Timer(e)
  PROVE  IInv'
BY ConnectKeeps, AcceptTestKeeps, AcceptKeeps, AcceptFailedKeeps, UnacceptKeeps, RelistenKeeps,
   DisconnectOpeningKeeps, DisconnectAbortKeeps, DisconnectOrderlyKeeps, DisconnectReturnKeeps,
   WaitExpiresKeeps, TimerResetKeeps, TimerResendKeeps, TimerTimedWaitKeeps
DEF Service, Timer

LEMMA ReceiveKeeps ==
  ASSUME IInv, NEW e \in Ends, NEW m \in To(e), Receive(e, m)
  PROVE  IInv'
BY RecvListenKeeps, RecvNoSocketKeeps, RecvSynSentKeeps, RecvOutsideKeeps, RecvResetKeeps,
   RecvSynReceivedKeeps, RecvAckBeyondKeeps, RecvEstablishedKeeps, RecvFinWait1Keeps,
   RecvFinWait2Keeps, RecvClosingKeeps, RecvLastAckKeeps
DEF Receive

LEMMA StutterKeeps ==
  ASSUME IInv, UNCHANGED vars
  PROVE  IInv'
<1>1. Typed'
  BY DEF IInv, Typed, TypeOK, vars
<1>2. ASSUME NEW e \in Ends PROVE SocketTrue(e)'
  BY <1>2, PeerFacts DEF IInv, vars
<1>3. ASSUME NEW s \in net' PROVE SegmentTrue(s)'
  BY <1>3 DEF IInv, vars, SegmentTrue, NumberOld, AckTrue
<1> QED
  BY <1>1, <1>2, <1>3 DEF IInv

(* Two sockets, whatever their initial sequence numbers, window and retries *)
(* are and whatever becomes of their segments, keep the invariant.          *)
THEOREM ConnectionInvariant == Spec => []IInv
<1>1. IInv /\ [Next]_vars => IInv'
  <2> SUFFICES ASSUME IInv, [Next]_vars PROVE IInv'
    OBVIOUS
  <2>1. CASE Next
    BY <2>1, ServiceKeeps, ReceiveKeeps DEF Next
  <2> QED
    BY <2>1, StutterKeeps
<1> QED
  BY <1>1, InitTrue, PTL DEF Spec

(* A thread that sleeps in connect or disconnect (tx_thread_suspend) has a  *)
(* connection whose end, or whose timer, resumes it; and every variable of  *)
(* the sockets has its type.                                                *)
THEOREM ConnectionSleepers == Spec => []SleeperHasConnection
<1>1. IInv => SleeperHasConnection
  BY DEF IInv, Typed, SleeperHasConnection
<1> QED
  BY <1>1, ConnectionInvariant, PTL

(* Of two established sockets never just one is in the connection of the    *)
(* other (the checks of _nx_tcp_socket_state_syn_sent and _syn_received).   *)
THEOREM ConnectionOfBoth == Spec => []SameConnection
<1>1. IInv => SameConnection
  <2> SUFFICES ASSUME IInv, \A e \in Ends : state[e] = "ESTABLISHED",
                      NEW e \in Ends, InSync(e)
               PROVE  InSync(Peer(e))
    BY PeerFacts DEF SameConnection, InSync
  <2> QED
    BY PeerFacts DEF IInv, InSync
<1> QED
  BY <1>1, ConnectionInvariant, PTL

(* No segment of an earlier connection resets one that both sockets are in  *)
(* (the window test of _nx_tcp_socket_packet_process before its reset).     *)
THEOREM ConnectionUndisturbed == Spec => []NoStrayReset
<1>1. IInv => NoStrayReset
  <2> SUFFICES ASSUME IInv, \A e \in Ends : state[e] = "ESTABLISHED" /\ InSync(e),
                      NEW e \in Ends, NEW m \in To(e), InWindow(e, m)
               PROVE  ~ IsRst(m) /\ ~ IsSyn(m)
    BY DEF NoStrayReset
  <2>1. m \in Messages /\ m.to = e /\ NumberOld(m)
    BY Arriving
  <2>2. Attached(Peer(e)) /\ rx[e] = tx[Peer(e)] /\ tx[Peer(e)] \in Nat
    BY PeerFacts DEF IInv, Typed, TypeOK, InSync
  <2> QED
    BY <2>1, <2>2, PeerFacts DEF NumberOld, Sender, InWindow, Messages
<1> QED
  BY <1>1, ConnectionInvariant, PTL

(* _nx_tcp_socket_disconnect returns NX_SUCCESS to a thread it suspended    *)
(* only when the other socket has taken the FIN.                            *)
THEOREM ConnectionClosedOrderly == Spec => []OrderlyClose
<1>1. IInv => OrderlyClose
  BY DEF IInv, OrderlyClose
<1> QED
  BY <1>1, ConnectionInvariant, PTL

-----------------------------------------------------------------------------
(***************************************************************************)
(* Proofs about NetxTcpReceive, the receiving half of a socket, for any    *)
(* stream, any window, any threads and any segments within what the peer   *)
(* was told: the receive queue stays in order, no byte is lost, doubled or *)
(* moved, the window is the room that is left and its edge never goes      *)
(* back, nobody waits beside READY data, and receive calls give the peer's *)
(* stream.                                                                 *)
(*                                                                         *)
(* What packets hold together is found by joining them, so the facts about *)
(* it need induction over the places of the queue.                         *)
(***************************************************************************)
CONSTANTS Stream, Readers, WindowDefault, Longest, ULongSize
VARIABLES rcv, receivedBytes

Rcv == INSTANCE NetxTcpReceive WITH taken <- receivedBytes

(* What is assumed of connections is not used below.                        *)
HIDE ConnectionAssumption

AllBytes == Rcv!ToSet(Stream)
QueuePackets == [seq : Nat, data : Seq(AllBytes), ready : BOOLEAN]
SocketRecords ==
  [state : {"ESTABLISHED", "CLOSE_WAIT"},
   rx_sequence : Nat, rx_sequence_acked : Nat,
   rx_window_current : 0..WindowDefault, rx_window_last_sent : 0..ULongSize - 1,
   receive_queue : Seq(QueuePackets), receive_suspension_list : Seq(Readers),
   fin_received : BOOLEAN, fin_sequence : Nat,
   given : Seq(AllBytes), sent : Seq([ack : Nat, window : Nat]), over : BOOLEAN]

(* A packet has the bytes of the stream that its number says.               *)
IsPart(p) ==
  p.data # <<>> /\ Rcv!End(p) <= Len(Stream) /\ p.data = SubSeq(Stream, p.seq + 1, Rcv!End(p))
Parts(q) == \A i \in 1..Len(q) : IsPart(q[i])
Apart(q) == \A i, j \in 1..Len(q) : i < j => Rcv!End(q[i]) <= q[j].seq

(* The first k packets of q are READY, and go without a gap up to last; the *)
(* others are not, and begin there or later.                                *)
Split(q, k, last) ==
  /\ \A i \in 1..Len(q) : q[i].ready <=> i <= k
  /\ \A i \in 1..k - 1 : Rcv!End(q[i]) = q[i + 1].seq
  /\ k > 0 => Rcv!End(q[k]) = last
  /\ \A i \in k + 1..Len(q) : last <= q[i].seq
Start(q, k, last) == IF k = 0 THEN last ELSE q[1].seq

(* Where the READY bytes of a socket end, as Unfinished says of rcv.        *)
Finish(r) == IF r.state = "CLOSE_WAIT" THEN r.rx_sequence - 1 ELSE r.rx_sequence
Edge(r) == r.rx_sequence + r.rx_window_current

(* Socket r in the middle of a step, when it has k READY packets and all    *)
(* the bytes given up to now are g.                                         *)
Holds(r, k, g) ==
  /\ k \in 0..Len(r.receive_queue)
  /\ Parts(r.receive_queue) /\ Apart(r.receive_queue)
  /\ Split(r.receive_queue, k, Finish(r)) /\ Finish(r) <= Len(Stream)
  /\ g = SubSeq(Stream, 1, Start(r.receive_queue, k, Finish(r)))
  /\ r.rx_window_current + Finish(r) - Start(r.receive_queue, k, Finish(r)) = WindowDefault
  /\ Rcv!More(r) <= r.rx_window_current + 1
  /\ \A i \in 1..Len(r.receive_queue) :
       Rcv!End(r.receive_queue[i]) <= Edge(r) /\ Rcv!End(r.receive_queue[i]) <= Edge(r) - Rcv!More(r) + 1
  /\ r.fin_received => r.fin_sequence = Len(Stream)
  /\ r.state = "CLOSE_WAIT" => Finish(r) = Len(Stream)
  /\ r.over => r.state = "CLOSE_WAIT" /\ r.receive_queue = <<>>

(* Between two steps, besides: there is a gap behind the READY packets, and *)
(* nobody waits beside them.                                                *)
Gap(r, k) == \A i \in k + 1..Len(r.receive_queue) : Finish(r) < r.receive_queue[i].seq
Settled(r, k) ==
  /\ Gap(r, k)
  /\ r.receive_suspension_list # <<>> => k = 0 /\ r.state = "ESTABLISHED"
ReceiveInv ==
        /\ rcv \in SocketRecords /\ rcv.given = <<>> /\ rcv.sent = <<>>
        /\ \E k \in 0..Len(rcv.receive_queue) : Holds(rcv, k, receivedBytes) /\ Settled(rcv, k)
-----------------------------------------------------------------------------
(* A set of numbers with 0, and with n + 1 when it has n, has them all: its *)
(* least missing number would be neither.                                   *)
LEMMA Induction ==
  ASSUME NEW S, 0 \in S, \A n \in Nat : n \in S => n + 1 \in S
  PROVE  Nat \subseteq S
<1> DEFINE T == Nat \ S
<1> SUFFICES ASSUME T # {} PROVE FALSE
  OBVIOUS
<1>1. PICK x \in T : \A y \in T : ~ (<<y, x>> \in OpToRel(<, Nat))
  <2> HIDE DEF T
  <2>1. T \subseteq Nat BY DEF T
  <2>2. IsWellFoundedOn(OpToRel(<,Nat), Nat) BY NatLessThanWellFounded
  <2> QED BY <2>1, <2>2, WFMin
<1>2. x # 0 /\ x \in Nat OBVIOUS
<1>3. x - 1 \in Nat /\ x - 1 < x BY <1>2
<1>4. x - 1 \notin T
  BY <1>1, <1>2, <1>3 DEF OpToRel
<1> QED BY <1>2, <1>3, <1>4

(* Remainders of numbers that are at most one modulus away.                 *)
LEMMA Remainder ==
  ASSUME NEW U \in Nat \ {0}, NEW x \in Int
  PROVE  /\ 0 <= x /\ x < U => x % U = x
         /\ - U <= x /\ x < 0 => x % U = x + U
         /\ U <= x /\ x < 2 * U => x % U = x - U
         /\ x % U \in 0..U - 1
OBVIOUS

(* A set of numbers up to n that is not empty has a largest one.            *)
LEMMA MaxIs ==
  ASSUME NEW n \in Nat, NEW S \in SUBSET (0..n), S # {}
  PROVE  Rcv!Max(S) \in S /\ \A y \in S : Rcv!Max(S) >= y
<1> DEFINE T == {n - x : x \in S}
<1>0. \A x \in S : x \in Nat /\ x <= n /\ n - x \in Nat OBVIOUS
<1>1. PICK m \in T : \A y \in T : ~ (<<y, m>> \in OpToRel(<, Nat))
  <2>1. T \subseteq Nat /\ T # {} BY <1>0
  <2> HIDE DEF T
  <2>2. IsWellFoundedOn(OpToRel(<,Nat), Nat) BY NatLessThanWellFounded
  <2> QED BY <2>1, <2>2, WFMin
<1>2. PICK x \in S : m = n - x OBVIOUS
<1>3. ASSUME NEW y \in S PROVE x >= y
  <2>1. n - y \in Nat /\ m \in Nat /\ ~ (n - y < m)
    BY <1>0, <1>1, <1>2 DEF OpToRel
  <2> QED BY <1>0, <1>2, <2>1
<1>4. Rcv!Max(S) = CHOOSE z \in S : \A y \in S : z >= y BY DEF Rcv!Max
<1> QED BY <1>2, <1>3, <1>4

(* A walk passes the packets up to the first that is not in S.              *)
LEMMA PassedIs ==
  ASSUME NEW n \in Nat, NEW S
  PROVE  LET k == Rcv!Passed(n, S)
         IN k \in 0..n /\ (\A i \in 1..k : i \in S) /\ (k < n => k + 1 \notin S)
<1> DEFINE T == {k \in 0..n : 1..k \subseteq S}
<1>1. Rcv!Max(T) \in T /\ \A y \in T : Rcv!Max(T) >= y
  <2>1. 0 \in T OBVIOUS
  <2>2. T \in SUBSET (0..n) OBVIOUS
  <2> HIDE DEF T
  <2> QED BY <2>1, <2>2, MaxIs
<1> DEFINE k == Rcv!Max(T)
<1>2. Rcv!Passed(n, S) = k BY DEF Rcv!Passed
<1> HIDE DEF k
<1>3. k \in 0..n /\ (\A i \in 1..k : i \in S) /\ \A y \in T : k >= y BY <1>1 DEF k
<1>4. ASSUME k < n, k + 1 \in S PROVE FALSE
  <2>1. k + 1 \in 0..n /\ 1..k + 1 \subseteq S BY <1>3, <1>4
  <2> QED BY <1>3, <2>1
<1> QED BY <1>2, <1>3, <1>4

(* A number with which the walk stops is the number it passes.              *)
LEMMA PassedAre ==
  ASSUME NEW n \in Nat, NEW S, NEW k \in 0..n,
         \A i \in 1..k : i \in S, k < n => k + 1 \notin S
  PROVE  Rcv!Passed(n, S) = k
<1> DEFINE m == Rcv!Passed(n, S)
<1>1. m \in 0..n /\ (\A i \in 1..m : i \in S) /\ (m < n => m + 1 \notin S) BY PassedIs
<1> HIDE DEF m
<1>2. ~ (m < k) BY <1>1
<1>3. ~ (k < m) BY <1>1
<1> QED BY <1>1, <1>2, <1>3 DEF m

(* Sequences of bytes are joined one by one.                                *)
Join(s, t) == s \o t
(* What the joining of n sequences gives, when f says how far each brings.  *)
LEMMA FlattenIs ==
  ASSUME NEW q, NEW f, NEW n \in Nat \ {0},
         Len(q) = n, f[1] = q[1], \A i \in 2..n : f[i] = Join(f[i - 1], q[i])
  PROVE  Rcv!FlattenSeq(q) = f[n]
<1> DEFINE g == CHOOSE g : g = [i \in 1..Len(q) |-> IF i = 1 THEN q[i]
                                                       ELSE Join(g[i - 1], q[i])]
<1>1. Rcv!FlattenSeq(q) = g[n] BY Zenon DEF Rcv!FlattenSeq, Join
<1>2. [i \in 1..n |-> f[i]]
        = [i \in 1..n |-> IF i = 1 THEN q[i] ELSE Join([j \in 1..n |-> f[j]][i - 1], q[i])]
  <2> SUFFICES ASSUME NEW i \in 1..n
      PROVE f[i] = IF i = 1 THEN q[i] ELSE Join([j \in 1..n |-> f[j]][i - 1], q[i])
    BY Zenon
  <2>1. CASE i = 1 BY <2>1
  <2>2. CASE i # 1
    <3>1. i \in 2..n /\ i - 1 \in 1..n BY <2>2
    <3> QED BY <2>2, <3>1
  <2> QED BY <2>1, <2>2
<1>3. g = [i \in 1..n |-> IF i = 1 THEN q[i] ELSE Join(g[i - 1], q[i])]
  BY <1>2, Zenon
<1> HIDE DEF g
<1> DEFINE S == {k \in Nat : k \in 1..n => g[k] = f[k]}
<1>4. Nat \subseteq S
  <2>1. 0 \in S OBVIOUS
  <2>2. ASSUME NEW k \in Nat, k \in S PROVE k + 1 \in S
    <3> SUFFICES ASSUME k + 1 \in 1..n PROVE g[k + 1] = f[k + 1]
      OBVIOUS
    <3>1. g[k + 1] = IF k + 1 = 1 THEN q[k + 1] ELSE Join(g[(k + 1) - 1], q[k + 1])
      BY <1>3
    <3>2. CASE k = 0 BY <3>1, <3>2
    <3>3. CASE k # 0
      <4>1. k \in 1..n /\ k + 1 \in 2..n /\ (k + 1) - 1 = k BY <3>3
      <4>2. g[k] = f[k] BY <4>1, <2>2
      <4>3. f[k + 1] = Join(f[k], q[k + 1]) BY <4>1
      <4> QED BY <3>1, <3>3, <4>1, <4>2, <4>3
    <3> QED BY <3>2, <3>3
  <2> HIDE DEF S
  <2> QED BY <2>1, <2>2, Induction
<1>5. g[n] = f[n] BY <1>4
<1> QED BY <1>1, <1>5

-----------------------------------------------------------------------------
(* Parts of the stream.                                                     *)
LEMMA StreamSub ==
  ASSUME Rcv!ReceiveAssumption, NEW a \in Nat, NEW b \in Nat, a <= b, b <= Len(Stream)
  PROVE  /\ SubSeq(Stream, a + 1, b) \in Seq(AllBytes)
         /\ Len(SubSeq(Stream, a + 1, b)) = b - a
         /\ \A c \in b..Len(Stream) :
              SubSeq(Stream, a + 1, b) \o SubSeq(Stream, b + 1, c) = SubSeq(Stream, a + 1, c)
<1>1. Stream \in Seq(AllBytes) BY DEF Rcv!ReceiveAssumption, AllBytes
<1>2. Len(Stream) \in Nat BY <1>1
<1>3. \A i \in a + 1..b : Stream[i] \in AllBytes BY <1>1, <1>2, ElementOfSeq
<1>4. SubSeq(Stream, a + 1, b) \in Seq(AllBytes) /\ Len(SubSeq(Stream, a + 1, b)) = b - a
  BY <1>3, SubSeqProperties
<1>5. ASSUME NEW c \in b..Len(Stream)
      PROVE SubSeq(Stream, a + 1, b) \o SubSeq(Stream, b + 1, c) = SubSeq(Stream, a + 1, c)
  <2>1. a + 1 \in 1..Len(Stream) + 1 /\ b \in (a + 1) - 1..Len(Stream) BY <1>2
  <2> QED BY <1>1, <2>1, ConcatAdjacentSubSeq
<1> QED BY <1>4, <1>5

(* What IsPart says of a packet's numbers.                                  *)
LEMMA PartFacts ==
  ASSUME Rcv!ReceiveAssumption, NEW p \in QueuePackets, IsPart(p)
  PROVE  /\ p.seq \in Nat /\ Rcv!End(p) \in Nat /\ p.seq < Rcv!End(p) /\ Rcv!End(p) <= Len(Stream)
         /\ Len(p.data) = Rcv!End(p) - p.seq /\ p.ready \in BOOLEAN /\ p.data \in Seq(AllBytes)
         /\ p.data = SubSeq(Stream, p.seq + 1, Rcv!End(p))
<1>1. p.seq \in Nat /\ p.data \in Seq(AllBytes) /\ p.ready \in BOOLEAN BY DEF QueuePackets
<1>2. Len(p.data) \in Nat /\ Len(p.data) # 0 BY <1>1, EmptySeq DEF IsPart
<1> QED BY <1>1, <1>2 DEF IsPart, Rcv!End

(* The packets of a queue are such parts.                                   *)
LEMMA QueueFacts ==
  ASSUME Rcv!ReceiveAssumption, NEW q \in Seq(QueuePackets), Parts(q)
  PROVE  /\ Len(q) \in Nat /\ DOMAIN q = 1..Len(q)
         /\ \A i \in 1..Len(q) :
              /\ q[i] \in QueuePackets /\ IsPart(q[i])
              /\ q[i].seq \in Nat /\ Rcv!End(q[i]) \in Nat /\ q[i].seq < Rcv!End(q[i])
              /\ Rcv!End(q[i]) <= Len(Stream) /\ q[i].ready \in BOOLEAN
<1>1. Len(q) \in Nat /\ DOMAIN q = 1..Len(q) OBVIOUS
<1>2. ASSUME NEW i \in 1..Len(q)
      PROVE  /\ q[i] \in QueuePackets /\ IsPart(q[i])
             /\ q[i].seq \in Nat /\ Rcv!End(q[i]) \in Nat /\ q[i].seq < Rcv!End(q[i])
             /\ Rcv!End(q[i]) <= Len(Stream) /\ q[i].ready \in BOOLEAN
  <2>1. q[i] \in QueuePackets /\ IsPart(q[i]) BY ElementOfSeq DEF Parts
  <2> QED BY <2>1, PartFacts
<1> QED BY <1>1, <1>2

(* What the READY packets of a queue hold is the stream from their start to *)
(* their end.                                                               *)
LEMMA BytesAre ==
  ASSUME Rcv!ReceiveAssumption, NEW q \in Seq(QueuePackets), Parts(q), Apart(q), q # <<>>,
         \A i \in 1..Len(q) - 1 : Rcv!End(q[i]) = q[i + 1].seq
  PROVE  /\ q[1].seq < Rcv!End(q[Len(q)])
         /\ Rcv!Bytes(q) = SubSeq(Stream, q[1].seq + 1, Rcv!End(q[Len(q)]))
         /\ Rcv!Count(q) = Rcv!End(q[Len(q)]) - q[1].seq
<1> DEFINE n == Len(q)
           d == [i \in DOMAIN q |-> q[i].data]
           f == [i \in 1..n |-> SubSeq(Stream, q[1].seq + 1, Rcv!End(q[i]))]
<1>1. n \in Nat \ {0} /\ DOMAIN q = 1..n BY EmptySeq
<1>2. \A i \in 1..n : /\ q[i].seq \in Nat /\ Rcv!End(q[i]) \in Nat /\ q[i].seq < Rcv!End(q[i])
                      /\ Rcv!End(q[i]) <= Len(Stream) /\ IsPart(q[i])
  BY QueueFacts
<1>3. \A i \in 1..n : q[1].seq < Rcv!End(q[i])
  <2> SUFFICES ASSUME NEW i \in 1..n PROVE q[1].seq < Rcv!End(q[i])
    OBVIOUS
  <2>1. CASE i = 1 BY <1>2, <2>1
  <2>2. CASE i # 1
    <3>1. 1 \in 1..n /\ 1 < i BY <1>1, <2>2
    <3>2. Rcv!End(q[1]) <= q[i].seq BY <3>1 DEF Apart
    <3> QED BY <1>2, <3>1, <3>2
  <2> QED BY <2>1, <2>2
<1>4. Len(d) = n
  <2>1. d = [i \in 1..n |-> q[i].data] BY <1>1
  <2> QED BY <1>1, <2>1
<1>5. f[1] = d[1]
  <2>1. 1 \in 1..n BY <1>1
  <2>2. d[1] = q[1].data BY <1>1, <2>1
  <2>3. f[1] = SubSeq(Stream, q[1].seq + 1, Rcv!End(q[1])) BY <2>1
  <2> QED BY <1>2, <2>1, <2>2, <2>3 DEF IsPart
<1>6. \A i \in 2..n : f[i] = f[i - 1] \o d[i]
  <2> SUFFICES ASSUME NEW i \in 2..n PROVE f[i] = f[i - 1] \o d[i]
    OBVIOUS
  <2>1. i \in 1..n /\ i - 1 \in 1..n /\ i - 1 \in 1..n - 1 /\ (i - 1) + 1 = i /\ 1 \in 1..n
    BY <1>1
  <2>2. q[i].seq = Rcv!End(q[i - 1]) BY <2>1
  <2>3. q[i].data = SubSeq(Stream, Rcv!End(q[i - 1]) + 1, Rcv!End(q[i]))
    BY <1>2, <2>1, <2>2 DEF IsPart
  <2>4. /\ q[1].seq \in Nat /\ Rcv!End(q[i - 1]) \in Nat /\ q[1].seq <= Rcv!End(q[i - 1])
        /\ Rcv!End(q[i - 1]) <= Len(Stream) /\ Rcv!End(q[i]) \in Rcv!End(q[i - 1])..Len(Stream)
    <3>1. Len(Stream) \in Nat BY DEF Rcv!ReceiveAssumption
    <3> QED BY <1>2, <1>3, <2>1, <2>2, <3>1
  <2>5. SubSeq(Stream, q[1].seq + 1, Rcv!End(q[i - 1])) \o SubSeq(Stream, Rcv!End(q[i - 1]) + 1, Rcv!End(q[i]))
          = SubSeq(Stream, q[1].seq + 1, Rcv!End(q[i]))
    BY <2>4, StreamSub
  <2>6. d[i] = q[i].data BY <1>1, <2>1
  <2> QED BY <2>1, <2>3, <2>5, <2>6
<1>7. Rcv!FlattenSeq(d) = f[n]
  <2> HIDE DEF d, f, n
  <2>1. n \in Nat \ {0} BY <1>1
  <2>2. \A i \in 2..n : f[i] = Join(f[i - 1], d[i]) BY <1>6 DEF Join
  <2> QED BY <2>1, <1>4, <1>5, <2>2, FlattenIs
<1>8. n \in 1..n /\ 1 \in 1..n BY <1>1
<1>9. Rcv!Bytes(q) = SubSeq(Stream, q[1].seq + 1, Rcv!End(q[n]))
  BY <1>7, <1>8 DEF Rcv!Bytes
<1>10. Len(SubSeq(Stream, q[1].seq + 1, Rcv!End(q[n]))) = Rcv!End(q[n]) - q[1].seq
  <2>1. q[1].seq \in Nat /\ Rcv!End(q[n]) \in Nat /\ q[1].seq <= Rcv!End(q[n]) /\ Rcv!End(q[n]) <= Len(Stream)
    BY <1>2, <1>3, <1>8
  <2> QED BY <2>1, StreamSub
<1> QED BY <1>3, <1>8, <1>9, <1>10 DEF Rcv!Count

(* No packets hold no bytes.                                                *)
LEMMA NoBytes == Rcv!Bytes(<<>>) = <<>> /\ Rcv!Count(<<>>) = 0
<1>1. [i \in DOMAIN <<>> |-> <<>>[i].data] = <<>> OBVIOUS
<1>2. Rcv!FlattenSeq(<<>>) = <<>> BY DEF Rcv!FlattenSeq
<1> QED BY <1>1, <1>2 DEF Rcv!Bytes, Rcv!Count

-----------------------------------------------------------------------------
(* A part that is cut before n is the part up to there.                     *)
LEMMA CutIs ==
  ASSUME Rcv!ReceiveAssumption, NEW p \in QueuePackets, IsPart(p), NEW n \in Nat, p.seq < n
  PROVE  LET c == Rcv!CutAt(p, n)
         IN /\ c \in QueuePackets /\ IsPart(c) /\ c.seq = p.seq /\ c.ready = p.ready
            /\ Rcv!End(c) <= n /\ Rcv!End(c) <= Rcv!End(p)
            /\ Rcv!End(p) <= n => Rcv!End(c) = Rcv!End(p)
<1> DEFINE m == IF Rcv!End(p) < n THEN Rcv!End(p) ELSE n
           c == Rcv!CutAt(p, n)
<1>1. /\ p.seq \in Nat /\ Rcv!End(p) \in Nat /\ p.seq < Rcv!End(p) /\ Rcv!End(p) <= Len(Stream)
      /\ Len(p.data) = Rcv!End(p) - p.seq /\ p.ready \in BOOLEAN /\ p.data \in Seq(AllBytes)
      /\ p.data = SubSeq(Stream, p.seq + 1, Rcv!End(p))
  BY PartFacts
<1>2. m \in Nat /\ p.seq < m /\ m <= n /\ m <= Rcv!End(p) /\ (Rcv!End(p) <= n => m = Rcv!End(p)) BY <1>1
<1>3. Rcv!Smaller(Len(p.data), n - p.seq) = m - p.seq BY <1>1 DEF Rcv!Smaller
<1> HIDE DEF m
<1>4. Stream \in Seq(AllBytes) /\ Len(Stream) \in Nat BY DEF Rcv!ReceiveAssumption, AllBytes
<1>11. p.seq \in Nat /\ Rcv!End(p) \in Nat /\ p.seq < Rcv!End(p) /\ Rcv!End(p) <= Len(Stream)
  BY <1>1
<1>5. SubSeq(p.data, 1, m - p.seq) = SubSeq(Stream, p.seq + 1, m)
  <2>1. /\ p.seq + 1 \in 1..Len(Stream) /\ Rcv!End(p) \in 1..Len(Stream)
        /\ 1 \in 1..Rcv!End(p) - (p.seq + 1) + 1 /\ m - p.seq \in 1..Rcv!End(p) - (p.seq + 1) + 1
    BY <1>2, <1>4, <1>11
  <2>2. SubSeq(SubSeq(Stream, p.seq + 1, Rcv!End(p)), 1, m - p.seq)
          = SubSeq(Stream, (p.seq + 1) + 1 - 1, (p.seq + 1) + (m - p.seq) - 1)
    <3> DEFINE i == p.seq + 1
               j == Rcv!End(p)
               k == m - p.seq
    <3>1. i \in 1..Len(Stream) /\ j \in 1..Len(Stream) /\ 1 \in 1..j - i + 1 /\ k \in 1..j - i + 1
      BY <2>1
    <3> HIDE DEF i, j, k
    <3>2. SubSeq(SubSeq(Stream, i, j), 1, k) = SubSeq(Stream, i + 1 - 1, i + k - 1)
      BY <1>4, <3>1, SubSeqOfSubSeq
    <3> QED BY <3>2 DEF i, j, k
  <2>3. (p.seq + 1) + 1 - 1 = p.seq + 1 /\ (p.seq + 1) + (m - p.seq) - 1 = m BY <1>2, <1>11
  <2> QED BY <1>1, <2>2, <2>3
<1>6. /\ SubSeq(Stream, p.seq + 1, m) \in Seq(AllBytes)
      /\ Len(SubSeq(Stream, p.seq + 1, m)) = m - p.seq
  BY SMTT(20), <1>1, <1>2, StreamSub
<1>7. c = [p EXCEPT !.data = SubSeq(Stream, p.seq + 1, m)] BY <1>3, <1>5 DEF Rcv!CutAt
<1>8. /\ c \in QueuePackets /\ c.seq = p.seq /\ c.ready = p.ready
      /\ c.data = SubSeq(Stream, p.seq + 1, m)
  BY <1>1, <1>6, <1>7 DEF QueuePackets
<1>9. Rcv!End(c) = m BY <1>1, <1>2, <1>6, <1>8 DEF Rcv!End
<1>10. IsPart(c)
  <2>1. p.seq \in Nat /\ Len(c.data) = m - p.seq BY <1>1, <1>6, <1>8
  <2>2. Len(c.data) # 0 BY <1>2, <2>1
  <2>3. c.data # <<>> BY <2>2
  <2> QED BY SMTT(20), <1>1, <1>2, <1>8, <1>9, <2>3 DEF IsPart
<1> QED BY <1>2, <1>8, <1>9, <1>10

(* What lies where when a packet that the queue does not hold is put in:    *)
(* a packets before it, cut, and those behind the first b.                  *)
LEMMA InsertPlaces ==
  ASSUME Rcv!ReceiveAssumption, NEW q \in Seq(QueuePackets), Parts(q), Apart(q),
         NEW p \in QueuePackets, IsPart(p), ~ Rcv!Held(q, p)
  PROVE  LET a == Rcv!Left(q, p)
             b == Rcv!Gone(q, p)
             r == Rcv!Insert(q, p)
         IN /\ a \in 0..Len(q) /\ b \in a..Len(q)
            /\ \A i \in 1..a : q[i].seq < p.seq
            /\ a < Len(q) => p.seq <= q[a + 1].seq
            /\ b < Len(q) => p.seq < q[b + 1].seq
            /\ r \in Seq(QueuePackets) /\ Len(r) = a + 1 + (Len(q) - b)
            /\ \A i \in 1..a : r[i] = Rcv!CutAt(q[i], p.seq)
            /\ r[a + 1] = IF b = Len(q) THEN p ELSE Rcv!CutAt(p, q[b + 1].seq)
            /\ \A i \in a + 2..Len(r) : r[i] = q[i - (a + 1) + b] /\ i - (a + 1) + b \in b + 1..Len(q)
<1> DEFINE n == Len(q)
           a == Rcv!Left(q, p)
           b == Rcv!Gone(q, p)
           A == {i \in DOMAIN q : q[i].seq < p.seq}
           B == {i \in DOMAIN q : q[i].seq < p.seq \/ Rcv!End(q[i]) <= Rcv!End(p)}
           after == SubSeq(q, b + 1, n)
           before == [i \in 1..a |-> Rcv!CutAt(q[i], p.seq)]
           c == IF after = <<>> THEN p ELSE Rcv!CutAt(p, after[1].seq)
           r == Rcv!Insert(q, p)
<1>1. n \in Nat /\ DOMAIN q = 1..n OBVIOUS
<1>2. \A i \in 1..n : /\ q[i] \in QueuePackets /\ IsPart(q[i])
                      /\ q[i].seq \in Nat /\ Rcv!End(q[i]) \in Nat /\ q[i].seq < Rcv!End(q[i])
  BY QueueFacts
<1>3. p.seq \in Nat /\ Rcv!End(p) \in Nat /\ p.seq < Rcv!End(p) BY PartFacts
<1>4. a \in 0..n /\ (\A i \in 1..a : i \in A) /\ (a < n => a + 1 \notin A)
  <2>1. a = Rcv!Passed(n, A) BY DEF Rcv!Left
  <2> HIDE DEF A, a, n
  <2> QED BY <1>1, <2>1, PassedIs
<1>5. b \in 0..n /\ (\A i \in 1..b : i \in B) /\ (b < n => b + 1 \notin B)
  <2>1. b = Rcv!Passed(n, B) BY DEF Rcv!Gone
  <2> HIDE DEF B, b, n
  <2> QED BY <1>1, <2>1, PassedIs
<1> HIDE DEF a, b
<1>20. n \in Nat /\ a \in Nat /\ b \in Nat /\ a <= n /\ b <= n BY <1>1, <1>4, <1>5
<1>6. \A i \in 1..a : q[i].seq < p.seq BY <1>1, <1>4
<1>7. a < n => p.seq <= q[a + 1].seq
  <2> SUFFICES ASSUME a < n PROVE p.seq <= q[a + 1].seq
    OBVIOUS
  <2>1. a + 1 \in 1..n BY <1>1, <1>4
  <2> QED BY <1>1, <1>2, <1>3, <1>4, <2>1
<1>8. b < n => b + 1 \in 1..n /\ p.seq <= q[b + 1].seq /\ Rcv!End(p) < Rcv!End(q[b + 1])
  <2> SUFFICES ASSUME b < n PROVE b + 1 \in 1..n /\ p.seq <= q[b + 1].seq /\ Rcv!End(p) < Rcv!End(q[b + 1])
    OBVIOUS
  <2>1. b + 1 \in 1..n BY <1>1, <1>5
  <2> QED BY <1>1, <1>2, <1>3, <1>5, <2>1
<1>9. a <= b
  <2> SUFFICES ASSUME b < a PROVE FALSE
    BY <1>1, <1>4, <1>5
  <2>1. b < n /\ b + 1 \in 1..a BY <1>1, <1>4, <1>5
  <2> QED BY <1>2, <1>3, <1>6, <1>8, <2>1
<1>10. b < n => p.seq < q[b + 1].seq
  <2> SUFFICES ASSUME b < n, ~ p.seq < q[b + 1].seq PROVE FALSE
    OBVIOUS
  <2>1. q[b + 1].seq <= p.seq /\ Rcv!End(p) <= Rcv!End(q[b + 1]) /\ b + 1 \in DOMAIN q
    BY <1>1, <1>2, <1>3, <1>8
  <2> QED BY <2>1 DEF Rcv!Held
<1>11. /\ after \in Seq(QueuePackets) /\ Len(after) = n - b
       /\ \A i \in 1..n - b : after[i] = q[b + i]
  <2>1. \A i \in b + 1..n : q[i] \in QueuePackets BY <1>1, <1>2, <1>5
  <2>2. b + 1 \in Int /\ n \in Int BY <1>1, <1>5
  <2>3. /\ after \in Seq(QueuePackets) /\ Len(after) = IF b + 1 <= n THEN n - (b + 1) + 1 ELSE 0
        /\ \A i \in 1..n - (b + 1) + 1 : after[i] = q[(b + 1) + i - 1]
    BY <2>1, <2>2, SubSeqProperties
  <2>4. ASSUME NEW i \in 1..n - b PROVE after[i] = q[b + i]
    <3>1. i \in 1..n - (b + 1) + 1 /\ (b + 1) + i - 1 = b + i BY <1>1, <1>5
    <3> QED BY <2>3, <3>1
  <2> QED BY <1>1, <1>5, <2>3, <2>4
<1>12. c = (IF b = n THEN p ELSE Rcv!CutAt(p, q[b + 1].seq)) /\ c \in QueuePackets
  <2>1. CASE b = n
    <3>1. after = <<>> BY <1>11, <2>1, <1>1
    <3> QED BY <2>1, <3>1
  <2>2. CASE b # n
    <3>1. b < n BY <1>20, <2>2
    <3>2. Len(after) # 0 /\ 1 \in 1..n - b BY <1>20, <1>11, <3>1
    <3>5. after # <<>>
      <4> HIDE DEF after
      <4> QED BY <3>2
    <3>3. after[1] = q[b + 1] BY <1>11, <3>2
    <3>4. Rcv!CutAt(p, q[b + 1].seq) \in QueuePackets BY <1>2, <1>8, <1>10, <3>1, CutIs
    <3> QED BY <2>2, <3>5, <3>3, <3>4
  <2> QED BY <2>1, <2>2
<1>13. before \in Seq(QueuePackets) /\ Len(before) = a
  <2>1. \A i \in 1..a : Rcv!CutAt(q[i], p.seq) \in QueuePackets
    BY <1>1, <1>2, <1>3, <1>4, <1>6, CutIs
  <2> QED BY <1>4, <2>1
<1>14. r = (before \o <<c>>) \o after BY DEF Rcv!Insert, a, b
<1> HIDE DEF before, after, c, r, n
<1>15. LET h == before \o <<c>>
       IN /\ h \in Seq(QueuePackets) /\ Len(h) = a + 1
          /\ \A i \in 1..a : h[i] = before[i]
          /\ h[a + 1] = c
  <2>1. <<c>> \in Seq(QueuePackets) /\ Len(<<c>>) = 1 /\ <<c>>[1] = c BY <1>12
  <2> HIDE DEF c
  <2>2. /\ before \o <<c>> \in Seq(QueuePackets) /\ Len(before \o <<c>>) = a + 1
        /\ \A i \in 1..a + 1 : (before \o <<c>>)[i] = IF i <= a THEN before[i] ELSE <<c>>[i - a]
    BY <1>13, <2>1, ConcatProperties
  <2> QED BY <1>4, <2>1, <2>2
<1>16. /\ r \in Seq(QueuePackets) /\ Len(r) = a + 1 + (n - b)
       /\ \A i \in 1..a + 1 + (n - b) :
            r[i] = IF i <= a + 1 THEN (before \o <<c>>)[i] ELSE after[i - (a + 1)]
  <2> DEFINE h == before \o <<c>>
  <2>1. h \in Seq(QueuePackets) /\ Len(h) = a + 1 /\ r = h \o after BY <1>14, <1>15
  <2>2. after \in Seq(QueuePackets) /\ Len(after) = n - b BY <1>11
  <2> HIDE DEF h
  <2>3. /\ h \o after \in Seq(QueuePackets) /\ Len(h \o after) = Len(h) + Len(after)
        /\ \A i \in 1..Len(h) + Len(after) :
             (h \o after)[i] = IF i <= Len(h) THEN h[i] ELSE after[i - Len(h)]
    BY <2>1, <2>2, ConcatProperties
  <2>4. /\ r \in Seq(QueuePackets) /\ Len(r) = a + 1 + (n - b)
        /\ \A i \in 1..a + 1 + (n - b) : r[i] = IF i <= a + 1 THEN h[i] ELSE after[i - (a + 1)]
    BY <2>1, <2>2, <2>3
  <2> QED BY <2>4 DEF h
<1>17. \A i \in 1..a : r[i] = Rcv!CutAt(q[i], p.seq)
  <2> SUFFICES ASSUME NEW i \in 1..a PROVE r[i] = Rcv!CutAt(q[i], p.seq)
    OBVIOUS
  <2>1. i \in 1..a + 1 + (n - b) /\ i <= a + 1 BY <1>1, <1>4, <1>5
  <2>2. before[i] = Rcv!CutAt(q[i], p.seq) BY DEF before
  <2> QED BY <1>15, <1>16, <2>1, <2>2
<1>18. r[a + 1] = c
  <2>1. a + 1 \in 1..a + 1 + (n - b) BY <1>1, <1>4, <1>5
  <2> QED BY <1>15, <1>16, <2>1
<1>19. \A i \in a + 2..Len(r) : r[i] = q[i - (a + 1) + b] /\ i - (a + 1) + b \in b + 1..n
  <2> SUFFICES ASSUME NEW i \in a + 2..Len(r)
      PROVE r[i] = q[i - (a + 1) + b] /\ i - (a + 1) + b \in b + 1..n
    OBVIOUS
  <2>1. /\ i \in 1..a + 1 + (n - b) /\ ~ (i <= a + 1) /\ i - (a + 1) \in 1..n - b
        /\ b + (i - (a + 1)) = i - (a + 1) + b /\ i - (a + 1) + b \in b + 1..n
    BY <1>20, <1>16
  <2> QED BY <1>11, <1>16, <2>1
<1>21. a \in 0..n /\ b \in a..n BY <1>20, <1>9
<1> HIDE DEF c
<1>22. r[a + 1] = IF b = n THEN p ELSE Rcv!CutAt(p, q[b + 1].seq) BY <1>12, <1>18
<1>23. r \in Seq(QueuePackets) /\ Len(r) = a + 1 + (n - b) BY <1>16
<1> QED BY <1>6, <1>7, <1>10, <1>17, <1>19, <1>21, <1>22, <1>23 DEF n, a, b, r

(* A READY packet ends where the READY ones do, or before.                  *)
LEMMA ReadyEnds ==
  ASSUME Rcv!ReceiveAssumption, NEW q \in Seq(QueuePackets), Parts(q), Apart(q),
         NEW k \in 0..Len(q), NEW last \in Nat, Split(q, k, last)
  PROVE  \A i \in 1..k : Rcv!End(q[i]) <= last
<1> SUFFICES ASSUME NEW i \in 1..k PROVE Rcv!End(q[i]) <= last
  OBVIOUS
<1>1. /\ Len(q) \in Nat /\ k \in 1..Len(q) /\ i \in 1..Len(q) /\ k > 0
      /\ \A j \in 1..Len(q) : q[j].seq \in Nat /\ Rcv!End(q[j]) \in Nat /\ q[j].seq < Rcv!End(q[j])
  BY QueueFacts
<1>2. Rcv!End(q[k]) = last BY <1>1 DEF Split
<1>3. CASE i = k BY <1>1, <1>2, <1>3
<1>4. CASE i # k
  <2>1. i < k BY <1>4
  <2>2. Rcv!End(q[i]) <= q[k].seq BY <1>1, <2>1 DEF Apart
  <2> QED BY <1>1, <1>2, <2>2
<1> QED BY <1>3, <1>4

(* A packet put in keeps the queue in order, and its READY packets.         *)
LEMMA InsertKeeps ==
  ASSUME Rcv!ReceiveAssumption, NEW q \in Seq(QueuePackets), Parts(q), Apart(q),
         NEW p \in QueuePackets, IsPart(p), ~ Rcv!Held(q, p), ~ p.ready,
         NEW k \in 0..Len(q), NEW last \in Nat, Split(q, k, last), last <= p.seq
  PROVE  LET r == Rcv!Insert(q, p)
         IN /\ r \in Seq(QueuePackets) /\ Parts(r) /\ Apart(r)
            /\ k \in 0..Len(r) /\ Split(r, k, last) /\ Start(r, k, last) = Start(q, k, last)
            /\ \A i \in 1..Len(r) : Rcv!End(r[i]) <= Rcv!End(p) \/ \E j \in 1..Len(q) : Rcv!End(r[i]) <= Rcv!End(q[j])
<1> DEFINE n == Len(q)
           a == Rcv!Left(q, p)
           b == Rcv!Gone(q, p)
           r == Rcv!Insert(q, p)
           to(i) == i - (a + 1) + b
<1>1. /\ a \in 0..n /\ b \in a..n
      /\ \A i \in 1..a : q[i].seq < p.seq
      /\ a < n => p.seq <= q[a + 1].seq
      /\ b < n => p.seq < q[b + 1].seq
      /\ r \in Seq(QueuePackets) /\ Len(r) = a + 1 + (n - b)
      /\ \A i \in 1..a : r[i] = Rcv!CutAt(q[i], p.seq)
      /\ r[a + 1] = IF b = n THEN p ELSE Rcv!CutAt(p, q[b + 1].seq)
      /\ \A i \in a + 2..Len(r) : r[i] = q[to(i)] /\ to(i) \in b + 1..n
  BY InsertPlaces
<1> HIDE DEF a, b, r
<1>2. /\ n \in Nat
      /\ \A i \in 1..n : /\ q[i] \in QueuePackets /\ IsPart(q[i])
                         /\ q[i].seq \in Nat /\ Rcv!End(q[i]) \in Nat /\ q[i].seq < Rcv!End(q[i])
  BY QueueFacts
<1>3. p.seq \in Nat /\ Rcv!End(p) \in Nat /\ p.seq < Rcv!End(p) BY PartFacts
<1>4. a \in Nat /\ b \in Nat /\ a <= b /\ b <= n /\ k \in Nat /\ k <= n BY <1>1, <1>2
<1>5. \A i \in 1..k : Rcv!End(q[i]) <= last BY ReadyEnds
<1>6. k <= a
  <2> SUFFICES ASSUME a < k PROVE FALSE
    BY <1>4
  <2>1. a + 1 \in 1..n /\ a + 1 \in 1..k /\ a < n BY <1>4
  <2>2. p.seq <= q[a + 1].seq BY <1>1, <2>1
  <2> QED BY <1>2, <1>3, <1>5, <2>1, <2>2
<1>7. \A i \in 1..a : /\ IsPart(r[i]) /\ r[i].seq = q[i].seq /\ r[i].ready = q[i].ready
                      /\ Rcv!End(r[i]) <= p.seq /\ Rcv!End(r[i]) <= Rcv!End(q[i])
                      /\ Rcv!End(q[i]) <= p.seq => Rcv!End(r[i]) = Rcv!End(q[i])
  <2> SUFFICES ASSUME NEW i \in 1..a
      PROVE  /\ IsPart(r[i]) /\ r[i].seq = q[i].seq /\ r[i].ready = q[i].ready
             /\ Rcv!End(r[i]) <= p.seq /\ Rcv!End(r[i]) <= Rcv!End(q[i])
             /\ Rcv!End(q[i]) <= p.seq => Rcv!End(r[i]) = Rcv!End(q[i])
    OBVIOUS
  <2>1. i \in 1..n BY <1>4
  <2>2. q[i] \in QueuePackets /\ IsPart(q[i]) /\ q[i].seq < p.seq /\ r[i] = Rcv!CutAt(q[i], p.seq)
    BY <1>1, <1>2, <2>1
  <2> QED BY <1>3, <2>2, CutIs
<1>8. b < n => b + 1 \in 1..n /\ \A j \in b + 1..n : q[b + 1].seq <= q[j].seq
  <2> SUFFICES ASSUME b < n, NEW j \in b + 1..n PROVE b + 1 \in 1..n /\ q[b + 1].seq <= q[j].seq
    BY <1>4
  <2>1. b + 1 \in 1..n /\ j \in 1..n BY <1>4
  <2>2. CASE j = b + 1 BY <1>2, <2>1, <2>2
  <2>3. CASE j # b + 1
    <3>1. b + 1 < j BY <1>4, <2>1, <2>3
    <3>2. Rcv!End(q[b + 1]) <= q[j].seq BY <2>1, <3>1 DEF Apart
    <3> QED BY <1>2, <2>1, <3>2
  <2> QED BY <2>1, <2>2, <2>3
<1>9. /\ IsPart(r[a + 1]) /\ r[a + 1].seq = p.seq /\ r[a + 1].ready = p.ready
      /\ Rcv!End(r[a + 1]) <= Rcv!End(p) /\ (b < n => Rcv!End(r[a + 1]) <= q[b + 1].seq)
  <2>1. CASE b = n BY <1>1, <1>3, <2>1
  <2>2. CASE b < n
    <3>1. b + 1 \in 1..n /\ b # n BY <1>4, <2>2
    <3>2. q[b + 1].seq \in Nat /\ p.seq < q[b + 1].seq BY <1>1, <1>2, <2>2, <3>1
    <3>3. r[a + 1] = Rcv!CutAt(p, q[b + 1].seq) BY <1>1, <3>1
    <3> QED BY <3>2, <3>3, CutIs
  <2> QED BY <1>4, <2>1, <2>2
<1>10. \A i \in a + 2..Len(r) : /\ r[i] = q[to(i)] /\ to(i) \in b + 1..n /\ to(i) \in 1..n /\ b < n
                                /\ p.seq < r[i].seq /\ q[b + 1].seq <= r[i].seq
  <2> SUFFICES ASSUME NEW i \in a + 2..Len(r)
      PROVE  /\ r[i] = q[to(i)] /\ to(i) \in b + 1..n /\ to(i) \in 1..n /\ b < n
             /\ p.seq < r[i].seq /\ q[b + 1].seq <= r[i].seq
    OBVIOUS
  <2>1. r[i] = q[to(i)] /\ to(i) \in b + 1..n BY <1>1
  <2> HIDE DEF to
  <2>2. to(i) \in 1..n /\ b < n /\ b + 1 \in 1..n BY <1>4, <2>1
  <2>3. q[b + 1].seq <= q[to(i)].seq /\ p.seq < q[b + 1].seq BY <1>1, <1>8, <2>1, <2>2
  <2>5. q[b + 1].seq \in Nat /\ q[to(i)].seq \in Nat BY <1>2, <2>2
  <2>4. p.seq < q[to(i)].seq BY SMTT(20), <1>3, <2>3, <2>5
  <2> QED BY <2>1, <2>2, <2>3, <2>4
<1>11. Len(r) \in Nat /\ a + 1 <= Len(r) /\ Len(r) = a + 1 + (n - b) BY <1>1, <1>4
<1>12. \A i \in 1..Len(r) : i \in 1..a \/ i = a + 1 \/ i \in a + 2..Len(r) BY <1>4, <1>11
<1>13. Parts(r)
  <2> SUFFICES ASSUME NEW i \in 1..Len(r) PROVE IsPart(r[i])
    BY DEF Parts
  <2> QED BY <1>2, <1>7, <1>9, <1>10, <1>12
<1>14. r \in Seq(QueuePackets) BY <1>1
<1>15. \A i \in 1..Len(r) : r[i].seq \in Nat /\ Rcv!End(r[i]) \in Nat /\ r[i].seq < Rcv!End(r[i])
  BY <1>13, <1>14, QueueFacts
<1>16. Apart(r)
  <2> SUFFICES ASSUME NEW i \in 1..Len(r), NEW j \in 1..Len(r), i < j PROVE Rcv!End(r[i]) <= r[j].seq
    BY DEF Apart
  <2>1. CASE j \in 1..a
    <3>1. i \in 1..a /\ i \in 1..n /\ j \in 1..n BY <1>4, <2>1
    <3>2. Rcv!End(q[i]) <= q[j].seq BY <3>1 DEF Apart
    <3>3. Rcv!End(r[i]) <= Rcv!End(q[i]) /\ r[j].seq = q[j].seq BY <1>7, <2>1, <3>1
    <3> QED BY <1>2, <1>15, <3>1, <3>2, <3>3
  <2>2. CASE j = a + 1
    <3>1. i \in 1..a BY <1>4, <2>2
    <3> QED BY <1>7, <1>9, <2>2, <3>1
  <2>3. CASE j \in a + 2..Len(r) /\ i \in 1..a
    <3>1. Rcv!End(r[i]) <= p.seq /\ p.seq < r[j].seq BY <1>7, <1>10, <2>3
    <3> QED BY <1>3, <1>15, <3>1
  <2>4. CASE j \in a + 2..Len(r) /\ i = a + 1
    <3>1. Rcv!End(r[i]) <= q[b + 1].seq /\ q[b + 1].seq <= r[j].seq /\ b + 1 \in 1..n
      BY <1>8, <1>9, <1>10, <2>4
    <3> QED BY SMTT(20), <1>2, <1>15, <3>1
  <2>5. CASE j \in a + 2..Len(r) /\ i \in a + 2..Len(r)
    <3>1. r[i] = q[to(i)] /\ r[j] = q[to(j)] /\ to(i) \in 1..n /\ to(j) \in 1..n
      <4> HIDE DEF to
      <4> QED BY <1>10, <2>5
    <3>2. to(i) < to(j) BY <1>4
    <3> HIDE DEF to
    <3> QED BY <3>1, <3>2 DEF Apart
  <2> QED BY <1>12, <2>1, <2>2, <2>3, <2>4, <2>5
<1>17. k \in 0..Len(r) BY <1>4, <1>6, <1>11
<1>18. Split(r, k, last)
  <2>1. \A i \in 1..Len(r) : r[i].ready <=> i <= k
    <3> SUFFICES ASSUME NEW i \in 1..Len(r) PROVE r[i].ready <=> i <= k
      OBVIOUS
    <3>1. CASE i \in 1..a
      <4>1. i \in 1..n BY <1>4, <3>1
      <4> QED BY <1>7, <3>1, <4>1 DEF Split
    <3>2. CASE i = a + 1
      <4>1. ~ (i <= k) BY <1>4, <1>6, <3>2
      <4> QED BY <1>9, <3>2, <4>1
    <3>3. CASE i \in a + 2..Len(r)
      <4>1. r[i] = q[to(i)] /\ to(i) \in 1..n BY <1>10, <3>3
      <4>2. ~ (i <= k) /\ ~ (to(i) <= k) BY <1>4, <1>6, <3>3
      <4> HIDE DEF to
      <4> QED BY <4>1, <4>2 DEF Split
    <3> QED BY <1>12, <3>1, <3>2, <3>3
  <2>2. \A i \in 1..k : i \in 1..a /\ i \in 1..n /\ Rcv!End(r[i]) = Rcv!End(q[i]) /\ r[i].seq = q[i].seq
    <3> SUFFICES ASSUME NEW i \in 1..k
        PROVE i \in 1..a /\ i \in 1..n /\ Rcv!End(r[i]) = Rcv!End(q[i]) /\ r[i].seq = q[i].seq
      OBVIOUS
    <3>1. i \in 1..a /\ i \in 1..n BY <1>4, <1>6
    <3>2. Rcv!End(q[i]) <= p.seq BY <1>2, <1>3, <1>5, <3>1
    <3> QED BY <1>7, <3>1, <3>2
  <2>3. \A i \in 1..k - 1 : Rcv!End(r[i]) = r[i + 1].seq
    <3> SUFFICES ASSUME NEW i \in 1..k - 1 PROVE Rcv!End(r[i]) = r[i + 1].seq
      OBVIOUS
    <3>1. i \in 1..k /\ i + 1 \in 1..k BY <1>4
    <3>2. Rcv!End(q[i]) = q[i + 1].seq BY DEF Split
    <3> QED BY <2>2, <3>1, <3>2
  <2>4. k > 0 => Rcv!End(r[k]) = last
    <3> SUFFICES ASSUME k > 0 PROVE Rcv!End(r[k]) = last
      OBVIOUS
    <3>1. k \in 1..k BY <1>4
    <3> QED BY <2>2, <3>1 DEF Split
  <2>5. \A i \in k + 1..Len(r) : last <= r[i].seq
    <3> SUFFICES ASSUME NEW i \in k + 1..Len(r) PROVE last <= r[i].seq
      OBVIOUS
    <3>1. i \in 1..Len(r) BY <1>4, <1>11
    <3>2. CASE i \in 1..a
      <4>1. i \in k + 1..n BY <1>4, <1>11, <3>2
      <4> QED BY <1>7, <3>2, <4>1 DEF Split
    <3>3. CASE i = a + 1 BY <1>9, <3>3
    <3>4. CASE i \in a + 2..Len(r)
      <4>1. p.seq < r[i].seq BY <1>10, <3>4
      <4> QED BY <1>3, <1>15, <3>1, <4>1
    <3> QED BY <1>12, <3>1, <3>2, <3>3, <3>4
  <2> QED BY <2>1, <2>3, <2>4, <2>5 DEF Split
<1>19. Start(r, k, last) = Start(q, k, last)
  <2>1. CASE k = 0 BY <2>1 DEF Start
  <2>2. CASE k # 0
    <3>1. 1 \in 1..a BY <1>4, <1>6, <2>2
    <3> QED BY <1>7, <2>2, <3>1 DEF Start
  <2> QED BY <2>1, <2>2
<1>20. \A i \in 1..Len(r) : Rcv!End(r[i]) <= Rcv!End(p) \/ \E j \in 1..n : Rcv!End(r[i]) <= Rcv!End(q[j])
  <2> SUFFICES ASSUME NEW i \in 1..Len(r)
      PROVE Rcv!End(r[i]) <= Rcv!End(p) \/ \E j \in 1..n : Rcv!End(r[i]) <= Rcv!End(q[j])
    OBVIOUS
  <2>1. CASE i \in 1..a
    <3>1. i \in 1..n BY <1>4, <2>1
    <3> QED BY <1>7, <2>1, <3>1
  <2>2. CASE i = a + 1 BY <1>9, <2>2
  <2>3. CASE i \in a + 2..Len(r)
    <3>1. r[i] = q[to(i)] /\ to(i) \in 1..n BY <1>10, <2>3
    <3> HIDE DEF to
    <3>2. Rcv!End(r[i]) <= Rcv!End(q[to(i)]) BY <1>2, <3>1
    <3> QED BY <3>1, <3>2
  <2> QED BY <1>12, <2>1, <2>2, <2>3
<1> QED BY <1>13, <1>14, <1>16, <1>17, <1>18, <1>19, <1>20 DEF r

-----------------------------------------------------------------------------
(* The types of a socket's fields, one by one.                              *)
LEMMA SocketFacts ==
  ASSUME Rcv!ReceiveAssumption, NEW r \in SocketRecords
  PROVE  /\ r.state \in {"ESTABLISHED", "CLOSE_WAIT"}
         /\ r.rx_sequence \in Nat /\ r.rx_sequence_acked \in Nat
         /\ r.rx_window_current \in Nat /\ r.rx_window_current <= WindowDefault
         /\ r.rx_window_last_sent \in Nat /\ r.rx_window_last_sent < ULongSize
         /\ r.receive_queue \in Seq(QueuePackets) /\ Len(r.receive_queue) \in Nat
         /\ r.receive_suspension_list \in Seq(Readers) /\ Len(r.receive_suspension_list) \in Nat
         /\ r.fin_received \in BOOLEAN /\ r.fin_sequence \in Nat
         /\ r.given \in Seq(AllBytes) /\ r.sent \in Seq([ack : Nat, window : Nat])
         /\ r.over \in BOOLEAN
         /\ WindowDefault \in Nat /\ ULongSize \in Nat \ {0} /\ ULongSize > 4 * WindowDefault
         /\ WindowDefault > 0
         /\ Stream \in Seq(AllBytes) /\ Len(Stream) \in Nat
BY DEF SocketRecords, Rcv!ReceiveAssumption, AllBytes

(* The window and what the peer was told of it differ by less than ULongSize*)
LEMMA MoreIs ==
  ASSUME Rcv!ReceiveAssumption, NEW r \in SocketRecords
  PROVE  /\ Rcv!More(r) \in Nat /\ Rcv!More(r) < ULongSize
         /\ Rcv!More(r) = IF r.rx_window_last_sent <= r.rx_window_current
                          THEN r.rx_window_current - r.rx_window_last_sent
                          ELSE r.rx_window_current - r.rx_window_last_sent + ULongSize
<1> DEFINE x == r.rx_window_current - r.rx_window_last_sent
<1>1. /\ x \in Int /\ - ULongSize <= x /\ x < ULongSize /\ ULongSize \in Nat \ {0}
      /\ (x < 0 <=> ~ r.rx_window_last_sent <= r.rx_window_current)
  BY SocketFacts
<1>2. Rcv!More(r) = x % ULongSize BY DEF Rcv!More
<1> HIDE DEF x
<1>3. x % ULongSize = IF 0 <= x THEN x ELSE x + ULongSize
  <2>1. /\ 0 <= x /\ x < ULongSize => x % ULongSize = x
        /\ - ULongSize <= x /\ x < 0 => x % ULongSize = x + ULongSize
    BY <1>1, Remainder
  <2>2. 0 <= x \/ x < 0 BY <1>1
  <2> QED BY <1>1, <2>1, <2>2
<1> QED BY <1>1, <1>2, <1>3 DEF x

(* _nx_tcp_packet_send_ack tells the peer the window as it is.              *)
LEMMA AckIs ==
  ASSUME Rcv!ReceiveAssumption, NEW r \in SocketRecords
  PROVE  LET s == Rcv!SendAck(r)
         IN /\ s \in SocketRecords /\ s.state = r.state /\ s.rx_sequence = r.rx_sequence
            /\ s.rx_window_current = r.rx_window_current /\ s.receive_queue = r.receive_queue
            /\ s.receive_suspension_list = r.receive_suspension_list
            /\ s.fin_received = r.fin_received /\ s.fin_sequence = r.fin_sequence
            /\ s.given = r.given /\ s.over = r.over /\ Rcv!More(s) = 0
<1> DEFINE s == Rcv!SendAck(r)
           e == [ack |-> r.rx_sequence, window |-> r.rx_window_current]
<1>1. /\ r.rx_window_current \in 0..ULongSize - 1 /\ r.rx_sequence \in Nat
      /\ r.rx_window_current \in Nat
  BY SocketFacts
<1>2. Append(r.sent, e) \in Seq([ack : Nat, window : Nat])
  BY <1>1, SocketFacts
<1> HIDE DEF e
<1>3. s = [r EXCEPT !.sent = Append(@, e), !.rx_sequence_acked = r.rx_sequence,
                    !.rx_window_last_sent = r.rx_window_current]
  BY DEF Rcv!SendAck, e
<1>4. s \in SocketRecords /\ s.rx_window_last_sent = r.rx_window_current
  BY <1>1, <1>2, <1>3 DEF SocketRecords
<1>5. /\ s.state = r.state /\ s.rx_sequence = r.rx_sequence
      /\ s.rx_window_current = r.rx_window_current /\ s.receive_queue = r.receive_queue
      /\ s.receive_suspension_list = r.receive_suspension_list
      /\ s.fin_received = r.fin_received /\ s.fin_sequence = r.fin_sequence
      /\ s.given = r.given /\ s.over = r.over
  BY <1>3 DEF SocketRecords
<1>6. Rcv!More(s) = 0 BY <1>1, <1>4, <1>5, MoreIs
<1> QED BY <1>4, <1>5, <1>6

(* The same when an acknowledgment depends on a condition: what the socket  *)
(* holds does not change, and the peer knows no less of the window.         *)
LEMMA AckKeeps ==
  ASSUME Rcv!ReceiveAssumption, NEW r \in SocketRecords, NEW k, NEW g, NEW c
  PROVE  LET s == Rcv!SendAckIf(c, r)
         IN /\ s \in SocketRecords /\ s.state = r.state /\ s.given = r.given /\ s.over = r.over
            /\ s.receive_queue = r.receive_queue /\ s.rx_sequence = r.rx_sequence
            /\ s.receive_suspension_list = r.receive_suspension_list
            /\ s.rx_window_current = r.rx_window_current
            /\ s.fin_received = r.fin_received /\ s.fin_sequence = r.fin_sequence
            /\ Rcv!More(s) <= Rcv!More(r)
            /\ Holds(r, k, g) => Holds(s, k, g)
            /\ Settled(r, k) => Settled(s, k)
            /\ Edge(s) = Edge(r)
<1> DEFINE s == Rcv!SendAckIf(c, r)
<1>1. CASE c
  <2>1. s = Rcv!SendAck(r) BY <1>1 DEF Rcv!SendAckIf
  <2>2. /\ s \in SocketRecords /\ s.state = r.state /\ s.rx_sequence = r.rx_sequence
        /\ s.rx_window_current = r.rx_window_current /\ s.receive_queue = r.receive_queue
        /\ s.receive_suspension_list = r.receive_suspension_list
        /\ s.fin_received = r.fin_received /\ s.fin_sequence = r.fin_sequence
        /\ s.given = r.given /\ s.over = r.over /\ Rcv!More(s) = 0
    BY <2>1, AckIs
  <2> HIDE DEF s
  <2>3. Finish(s) = Finish(r) /\ Edge(s) = Edge(r) BY <2>2 DEF Finish, Edge
  <2>4. Settled(r, k) => Settled(s, k) BY <2>2, <2>3 DEF Settled, Gap
  <2>5. Rcv!More(r) \in Nat BY MoreIs
  <2>6. ASSUME Holds(r, k, g) PROVE Holds(s, k, g)
    <3>1. \A i \in 1..Len(r.receive_queue) : Rcv!End(r.receive_queue[i]) <= Edge(r) - 0 + 1
      <4> SUFFICES ASSUME NEW i \in 1..Len(r.receive_queue)
          PROVE Rcv!End(r.receive_queue[i]) <= Edge(r) - 0 + 1
        OBVIOUS
      <4>1. Rcv!End(r.receive_queue[i]) <= Edge(r) BY <2>6 DEF Holds
      <4>2. Rcv!End(r.receive_queue[i]) \in Nat BY <2>6, SocketFacts, QueueFacts DEF Holds
      <4>3. Edge(r) \in Nat BY SocketFacts DEF Edge
      <4> QED BY <4>1, <4>2, <4>3
    <3>2. 0 <= r.rx_window_current + 1 BY SocketFacts
    <3> QED BY <2>2, <2>3, <2>6, <3>1, <3>2 DEF Holds
  <2> QED BY <2>2, <2>3, <2>4, <2>5, <2>6 DEF s
<1>2. CASE ~ c
  <2>1. s = r BY <1>2 DEF Rcv!SendAckIf
  <2>2. Rcv!More(r) \in Nat BY MoreIs
  <2> QED BY <2>1, <2>2
<1> QED BY <1>1, <1>2

(* What Holds says of a socket, put together.                               *)
LEMMA HoldsFacts ==
  ASSUME Rcv!ReceiveAssumption, NEW r \in SocketRecords, NEW k, NEW g, Holds(r, k, g)
  PROVE  LET q == r.receive_queue
             last == Finish(r)
             start == Start(q, k, last)
         IN /\ q \in Seq(QueuePackets) /\ Len(q) \in Nat /\ Parts(q) /\ Apart(q)
            /\ k \in 0..Len(q) /\ last \in Nat /\ last <= Len(Stream)
            /\ Split(q, k, last) /\ start \in Nat /\ start <= last
            /\ r.rx_window_current + last - start = WindowDefault
            /\ r.rx_sequence = last \/ (r.state = "CLOSE_WAIT" /\ r.rx_sequence = last + 1)
            /\ r.state = "ESTABLISHED" => r.rx_sequence = last
            /\ Edge(r) \in Nat /\ Rcv!More(r) \in Nat /\ Rcv!More(r) <= r.rx_window_current + 1
            /\ Rcv!More(r) <= WindowDefault + 1
            /\ \A i \in 1..Len(q) :
                 Rcv!End(q[i]) <= Edge(r) /\ Rcv!End(q[i]) <= Edge(r) - Rcv!More(r) + 1
<1> DEFINE q == r.receive_queue
           last == Finish(r)
           start == Start(q, k, last)
<1>1. /\ k \in 0..Len(q) /\ Parts(q) /\ Apart(q) /\ Split(q, k, last) /\ last <= Len(Stream)
      /\ r.rx_window_current + last - start = WindowDefault
      /\ Rcv!More(r) <= r.rx_window_current + 1
      /\ \A i \in 1..Len(q) : Rcv!End(q[i]) <= Edge(r) /\ Rcv!End(q[i]) <= Edge(r) - Rcv!More(r) + 1
      /\ r.state = "CLOSE_WAIT" => last = Len(Stream)
  BY DEF Holds
<1>2. /\ q \in Seq(QueuePackets) /\ Len(q) \in Nat /\ Edge(r) \in Nat /\ Rcv!More(r) \in Nat
      /\ r.rx_sequence \in Nat /\ r.state \in {"ESTABLISHED", "CLOSE_WAIT"}
      /\ r.rx_window_current \in Nat /\ r.rx_window_current <= WindowDefault
      /\ WindowDefault \in Nat /\ Len(Stream) \in Nat
  BY SocketFacts, MoreIs DEF Edge
<1>3. /\ last \in Nat
      /\ r.rx_sequence = last \/ (r.state = "CLOSE_WAIT" /\ r.rx_sequence = last + 1)
      /\ r.state = "ESTABLISHED" => r.rx_sequence = last
  <2>1. CASE r.state = "CLOSE_WAIT"
    <3>1. last = r.rx_sequence - 1 /\ last = Len(Stream) BY <1>1, <2>1 DEF Finish
    <3> QED BY <1>2, <2>1, <3>1
  <2>2. CASE r.state = "ESTABLISHED"
    <3>1. last = r.rx_sequence BY <2>2 DEF Finish
    <3> QED BY <1>2, <2>2, <3>1
  <2> QED BY <1>2, <2>1, <2>2
<1>4. start \in Nat /\ start <= last
  <2>1. CASE k = 0 BY <1>3, <2>1 DEF Start
  <2>2. CASE k # 0
    <3>1. 1 \in 1..k /\ 1 \in 1..Len(q) BY <1>1, <1>2, <2>2
    <3>2. Rcv!End(q[1]) <= last
      <4> HIDE DEF q, last
      <4> QED BY <1>1, <1>2, <1>3, <3>1, ReadyEnds
    <3>3. q[1].seq \in Nat /\ Rcv!End(q[1]) \in Nat /\ q[1].seq < Rcv!End(q[1])
      <4> HIDE DEF q
      <4> QED BY <1>1, <1>2, <3>1, QueueFacts
    <3> QED BY <1>3, <2>2, <3>2, <3>3 DEF Start
  <2> QED BY <2>1, <2>2
<1>5. Rcv!More(r) <= WindowDefault + 1 BY <1>1, <1>2
<1> QED BY <1>1, <1>2, <1>3, <1>4, <1>5

(* The walk of _nx_tcp_socket_state_data_check along a queue with k READY   *)
(* packets passes those and the ones that follow without a gap.             *)
LEMMA InOrderIs ==
  ASSUME Rcv!ReceiveAssumption, NEW r \in SocketRecords, NEW k, NEW g, Holds(r, k, g),
         r.state = "ESTABLISHED"
  PROVE  LET m == Rcv!InOrder(r)
             q == r.receive_queue
         IN /\ m \in k..Len(q) /\ Rcv!Reach(r, m) \in Nat /\ r.rx_sequence <= Rcv!Reach(r, m)
            /\ m = k => Rcv!Reach(r, m) = r.rx_sequence
            /\ m > 0 => Rcv!Reach(r, m) = Rcv!End(q[m])
            /\ \A i \in 1..m - 1 : Rcv!End(q[i]) = q[i + 1].seq
            /\ \A i \in m + 1..Len(q) : Rcv!Reach(r, m) < q[i].seq
            /\ Start(q, m, Rcv!Reach(r, m)) = Start(q, k, r.rx_sequence)
<1> DEFINE m == Rcv!InOrder(r)
           q == r.receive_queue
           n == Len(q)
           at == r.rx_sequence
           S == {i \in DOMAIN q : q[i].seq <= Rcv!Reach(r, i - 1)}
<1>1. /\ q \in Seq(QueuePackets) /\ n \in Nat /\ Parts(q) /\ Apart(q) /\ k \in 0..n
      /\ at \in Nat /\ at = Finish(r) /\ Split(q, k, at)
  BY HoldsFacts
<1>2. /\ DOMAIN q = 1..n
      /\ \A i \in 1..n : q[i].seq \in Nat /\ Rcv!End(q[i]) \in Nat /\ q[i].seq < Rcv!End(q[i])
  BY <1>1, QueueFacts
<1>3. m \in 0..n /\ (\A i \in 1..m : i \in S) /\ (m < n => m + 1 \notin S)
  <2>1. m = Rcv!Passed(n, S) BY DEF Rcv!InOrder
  <2> HIDE DEF S, m, n
  <2> QED BY <1>1, <2>1, PassedIs
<1>4. m < n => Rcv!Reach(r, m) < q[m + 1].seq
  <2> SUFFICES ASSUME m < n PROVE Rcv!Reach(r, m) < q[m + 1].seq
    OBVIOUS
  <2>1. m + 1 \in 1..n /\ (m + 1) - 1 = m /\ m \in 0..n BY <1>1, <1>3
  <2>2. ~ (q[m + 1].seq <= Rcv!Reach(r, m)) BY <1>2, <1>3, <2>1
  <2>3. Rcv!Reach(r, m) \in Nat
    <3>1. CASE m = 0 BY <1>1, <3>1 DEF Rcv!Reach
    <3>2. CASE m # 0
      <4>1. m \in 1..n BY <2>1, <3>2
      <4>2. Rcv!End(q[m]) \in Nat BY <1>2, <4>1
      <4> QED BY <1>1, <3>2, <4>2 DEF Rcv!Reach, Rcv!Larger
    <3> QED BY <3>1, <3>2
  <2>4. q[m + 1].seq \in Nat BY <1>2, <2>1
  <2> HIDE DEF m
  <2> QED BY <2>2, <2>3, <2>4
<1>5. \A i \in 1..m : q[i].seq <= Rcv!Reach(r, i - 1) BY <1>3
<1> HIDE DEF m, n
<1>6. n \in Nat /\ m \in Nat /\ m <= n /\ k \in Nat /\ k <= n BY <1>1, <1>3
<1>7. \A i \in 1..k : Rcv!End(q[i]) <= at
  <2> HIDE DEF q, at
  <2> QED BY <1>1, ReadyEnds DEF n
<1>8. \A i \in 0..k : Rcv!Reach(r, i) = at
  <2> SUFFICES ASSUME NEW i \in 0..k PROVE Rcv!Reach(r, i) = at
    OBVIOUS
  <2>1. CASE i = 0 BY <2>1 DEF Rcv!Reach
  <2>2. CASE i # 0
    <3>1. i \in 1..k /\ i \in 1..n BY <1>6, <2>2
    <3>2. Rcv!End(q[i]) <= at /\ Rcv!End(q[i]) \in Nat BY <1>2, <1>7, <3>1
    <3> QED BY <1>1, <2>2, <3>2 DEF Rcv!Reach, Rcv!Larger
  <2> QED BY <2>1, <2>2
<1>9. \A i \in k + 1..n : /\ i \in 1..n /\ i # 0 /\ at <= q[i].seq /\ at < Rcv!End(q[i])
                          /\ Rcv!Reach(r, i) = Rcv!End(q[i])
  <2> SUFFICES ASSUME NEW i \in k + 1..n
      PROVE /\ i \in 1..n /\ i # 0 /\ at <= q[i].seq /\ at < Rcv!End(q[i])
            /\ Rcv!Reach(r, i) = Rcv!End(q[i])
    OBVIOUS
  <2>1. i \in 1..n /\ i # 0 BY <1>6
  <2>2. at <= q[i].seq BY <1>1 DEF Split, n
  <2>3. at < Rcv!End(q[i]) BY <1>1, <1>2, <2>1, <2>2
  <2> QED BY <1>1, <1>2, <2>1, <2>2, <2>3 DEF Rcv!Reach, Rcv!Larger
<1>10. k <= m
  <2> SUFFICES ASSUME m < k PROVE FALSE
    BY <1>6
  <2>1. m + 1 \in 1..k /\ m + 1 \in 1..n /\ m < n /\ m \in 0..k BY <1>6
  <2>2. q[m + 1].seq < Rcv!End(q[m + 1]) /\ Rcv!End(q[m + 1]) <= at /\ Rcv!Reach(r, m) = at
    BY <1>2, <1>7, <1>8, <2>1
  <2> QED BY <1>1, <1>2, <1>4, <2>1, <2>2
<1>11. m = k => Rcv!Reach(r, m) = at BY <1>6, <1>8
<1>12. m > 0 => Rcv!Reach(r, m) = Rcv!End(q[m])
  <2>1. CASE k < m
    <3>1. m \in k + 1..n BY <1>6, <2>1
    <3> QED BY <1>9, <3>1
  <2>2. CASE m = k /\ m > 0
    <3>1. k > 0 BY <2>2
    <3>2. Rcv!End(q[k]) = at BY <1>1, <3>1 DEF Split
    <3> QED BY <1>11, <2>2, <3>2
  <2> QED BY <1>6, <1>10, <2>1, <2>2
<1>13. Rcv!Reach(r, m) \in Nat /\ at <= Rcv!Reach(r, m)
  <2>1. CASE k < m
    <3>1. m \in k + 1..n BY <1>6, <2>1
    <3> QED BY <1>1, <1>2, <1>9, <3>1
  <2>2. CASE m = k BY <1>1, <1>11, <2>2
  <2> QED BY <1>6, <1>10, <2>1, <2>2
<1>14. \A i \in k + 1..m : i > 1 => Rcv!End(q[i - 1]) = q[i].seq
  <2> SUFFICES ASSUME NEW i \in k + 1..m, i > 1 PROVE Rcv!End(q[i - 1]) = q[i].seq
    OBVIOUS
  <2>1. i \in 1..m /\ i \in k + 1..n /\ i \in 1..n /\ i - 1 \in 1..n /\ i - 1 < i BY <1>6
  <2>2. q[i].seq <= Rcv!Reach(r, i - 1) /\ Rcv!End(q[i - 1]) <= q[i].seq
    BY <1>1, <1>5, <2>1 DEF Apart, n
  <2>3. Rcv!Reach(r, i - 1) = Rcv!End(q[i - 1])
    <3>1. CASE i - 1 \in k + 1..n BY <1>9, <3>1
    <3>2. CASE i - 1 = k
      <4>1. k > 0 BY <2>1, <3>2
      <4>2. Rcv!End(q[k]) = at BY <1>1, <4>1 DEF Split
      <4>3. k \in 0..k BY <1>6
      <4> QED BY <1>8, <3>2, <4>2, <4>3
    <3> QED BY <1>6, <2>1, <3>1, <3>2
  <2>4. q[i].seq \in Nat /\ Rcv!End(q[i - 1]) \in Nat BY <1>2, <2>1
  <2> QED BY <2>2, <2>3, <2>4
<1>15. \A i \in 1..m - 1 : Rcv!End(q[i]) = q[i + 1].seq
  <2> SUFFICES ASSUME NEW i \in 1..m - 1 PROVE Rcv!End(q[i]) = q[i + 1].seq
    OBVIOUS
  <2>1. CASE i \in 1..k - 1 BY <1>1, <2>1 DEF Split
  <2>2. CASE i \notin 1..k - 1
    <3>1. i + 1 \in k + 1..m /\ i + 1 > 1 /\ (i + 1) - 1 = i BY <1>6, <2>2
    <3> QED BY <1>14, <3>1
  <2> QED BY <2>1, <2>2
<1>16. \A i \in m + 1..n : Rcv!Reach(r, m) < q[i].seq
  <2> SUFFICES ASSUME NEW i \in m + 1..n PROVE Rcv!Reach(r, m) < q[i].seq
    OBVIOUS
  <2>1. m < n /\ m + 1 \in 1..n /\ i \in 1..n BY <1>6
  <2>2. Rcv!Reach(r, m) < q[m + 1].seq BY <1>4, <2>1
  <2>3. CASE i = m + 1 BY <2>2, <2>3
  <2>4. CASE i # m + 1
    <3>1. m + 1 < i BY <1>6, <2>4
    <3>2. Rcv!End(q[m + 1]) <= q[i].seq BY <1>1, <2>1, <3>1 DEF Apart, n
    <3> QED BY <1>2, <1>13, <2>1, <2>2, <3>2
  <2> QED BY <2>3, <2>4
<1>17. Start(q, m, Rcv!Reach(r, m)) = Start(q, k, at)
  <2>1. CASE m = 0
    <3>1. k = 0 BY <1>6, <1>10, <2>1
    <3> QED BY <1>11, <2>1, <3>1 DEF Start
  <2>2. CASE m # 0 /\ k # 0 BY <2>2 DEF Start
  <2>3. CASE m # 0 /\ k = 0
    <3>1. 1 \in k + 1..n /\ 1 \in 1..m /\ 0 \in 0..k /\ 1 - 1 = 0 /\ 1 \in 1..n
      BY <1>6, <2>3
    <3>2. at <= q[1].seq BY <1>9, <3>1
    <3>3. q[1].seq <= at BY <1>5, <1>8, <3>1
    <3>4. q[1].seq \in Nat BY <1>2, <3>1
    <3> QED BY <1>1, <2>3, <3>2, <3>3, <3>4 DEF Start
  <2> QED BY <2>1, <2>2, <2>3
<1>18. m \in k..n BY <1>6, <1>10
<1> QED BY <1>11, <1>12, <1>13, <1>15, <1>16, <1>17, <1>18 DEF m, n

(* The first m packets of a queue become READY.                             *)
LEMMA MadeReady ==
  ASSUME Rcv!ReceiveAssumption, NEW q \in Seq(QueuePackets), Parts(q), NEW m \in 0..Len(q)
  PROVE  LET s == [i \in DOMAIN q |-> IF i <= m THEN [q[i] EXCEPT !.ready = TRUE] ELSE q[i]]
         IN /\ s \in Seq(QueuePackets) /\ Len(s) = Len(q) /\ Parts(s)
            /\ \A i \in 1..Len(q) : /\ s[i].seq = q[i].seq /\ Rcv!End(s[i]) = Rcv!End(q[i])
                                    /\ i <= m => s[i].ready
                                    /\ ~ (i <= m) => s[i].ready = q[i].ready
<1> DEFINE n == Len(q)
           e(i) == IF i <= m THEN [q[i] EXCEPT !.ready = TRUE] ELSE q[i]
           s == [i \in DOMAIN q |-> e(i)]
<1>1. n \in Nat /\ DOMAIN q = 1..n BY QueueFacts
<1>2. \A i \in 1..n : q[i] \in QueuePackets /\ IsPart(q[i]) BY QueueFacts
<1>3. \A i \in 1..n : /\ e(i) \in QueuePackets /\ e(i).seq = q[i].seq /\ e(i).data = q[i].data
                      /\ i <= m => e(i).ready
                      /\ ~ (i <= m) => e(i).ready = q[i].ready
  BY <1>2 DEF QueuePackets
<1>4. \A i \in 1..n : Rcv!End(e(i)) = Rcv!End(q[i]) /\ IsPart(e(i))
  BY <1>2, <1>3 DEF Rcv!End, IsPart
<1>5. s = [i \in 1..n |-> e(i)] BY <1>1
<1> HIDE DEF e
<1>6. s \in Seq(QueuePackets) /\ Len(s) = n BY <1>1, <1>3, <1>5
<1>7. \A i \in 1..n : s[i] = e(i) BY <1>5
<1> HIDE DEF s, n
<1>8. Parts(s) BY <1>4, <1>6, <1>7 DEF Parts
<1>9. \A i \in 1..n : /\ s[i].seq = q[i].seq /\ Rcv!End(s[i]) = Rcv!End(q[i])
                      /\ i <= m => s[i].ready
                      /\ ~ (i <= m) => s[i].ready = q[i].ready
  BY <1>3, <1>4, <1>7
<1> QED BY <1>6, <1>8, <1>9 DEF s, e, n

(* What the window loses, the peer was told too: both move together.        *)
LEMMA WindowMoves ==
  ASSUME NEW U \in Nat \ {0}, NEW c \in Nat, NEW l \in Nat, NEW a \in Nat,
         c < U, l < U, a <= c
  PROVE  /\ (l - a) % U \in 0..U - 1
         /\ ((c - a) - ((l - a) % U)) % U = (c - l) % U
<1>1. /\ l - a \in Int /\ - U <= l - a /\ l - a < U /\ c - l \in Int /\ - U <= c - l /\ c - l < U
      /\ c - l - U \in Int /\ c - a - (l - a) = c - l
  OBVIOUS
<1>2. CASE a <= l
  <2>1. (l - a) % U = l - a
    <3>1. 0 <= l - a /\ l - a < U BY <1>2
    <3> QED BY <1>1, <3>1, Remainder
  <2>2. l - a \in 0..U - 1 BY <1>2
  <2> QED BY <1>1, <2>1, <2>2
<1>3. CASE l < a
  <2>1. (l - a) % U = l - a + U
    <3>1. - U <= l - a /\ l - a < 0 BY <1>1, <1>3
    <3> QED BY <1>1, <3>1, Remainder
  <2>2. l - a + U \in 0..U - 1 BY <1>1, <1>3
  <2>3. (c - a) - (l - a + U) = c - l - U OBVIOUS
  <2>4. (c - l - U) % U = c - l
    <3>1. - U <= c - l - U /\ c - l - U < 0 BY <1>1, <1>3
    <3>2. (c - l - U) % U = c - l - U + U BY <1>1, <3>1, Remainder
    <3> QED BY <3>2
  <2>5. (c - l) % U = c - l
    <3>1. 0 <= c - l /\ c - l < U BY <1>3
    <3> QED BY <1>1, <3>1, Remainder
  <2> QED BY <2>1, <2>2, <2>3, <2>4, <2>5
<1> QED BY <1>2, <1>3

(* The packets in order become READY, up to the next gap: the stream that   *)
(* is ready grows by what the window shrinks.                               *)
LEMMA AdvanceKeeps ==
  ASSUME Rcv!ReceiveAssumption, NEW r \in SocketRecords, NEW k, NEW g, Holds(r, k, g),
         r.state = "ESTABLISHED"
  PROVE  LET s == Rcv!Advance(r)
             m == Rcv!InOrder(r)
         IN /\ s \in SocketRecords /\ m \in k..Len(r.receive_queue) /\ Holds(s, m, g)
            /\ Gap(s, m) /\ Edge(s) = Edge(r) /\ s.receive_suspension_list = r.receive_suspension_list
            /\ s.state = r.state /\ s.given = r.given /\ s.over = r.over
<1> DEFINE m == Rcv!InOrder(r)
           q == r.receive_queue
           at == r.rx_sequence
           to == Rcv!Reach(r, m)
           a == to - at
           c == r.rx_window_current
           l == r.rx_window_last_sent
           t == [i \in DOMAIN q |-> IF i <= m THEN [q[i] EXCEPT !.ready = TRUE] ELSE q[i]]
           s == Rcv!Advance(r)
<1>1. /\ m \in k..Len(q) /\ to \in Nat /\ at <= to /\ (m = k => to = at)
      /\ m > 0 => to = Rcv!End(q[m])
      /\ \A i \in 1..m - 1 : Rcv!End(q[i]) = q[i + 1].seq
      /\ \A i \in m + 1..Len(q) : to < q[i].seq
      /\ Start(q, m, to) = Start(q, k, at)
  BY InOrderIs
<1>2. /\ q \in Seq(QueuePackets) /\ Len(q) \in Nat /\ Parts(q) /\ Apart(q) /\ k \in 0..Len(q)
      /\ at = Finish(r) /\ at \in Nat /\ at <= Len(Stream) /\ Split(q, k, at)
      /\ c + at - Start(q, k, at) = WindowDefault /\ Start(q, k, at) \in Nat
      /\ Edge(r) \in Nat /\ Rcv!More(r) \in Nat /\ Rcv!More(r) <= c + 1
      /\ \A i \in 1..Len(q) : Rcv!End(q[i]) <= Edge(r) /\ Rcv!End(q[i]) <= Edge(r) - Rcv!More(r) + 1
      /\ Start(q, k, at) <= at
  BY HoldsFacts
<1>3. /\ c \in Nat /\ l \in Nat /\ l < ULongSize /\ ULongSize \in Nat \ {0}
      /\ WindowDefault \in Nat /\ c <= WindowDefault /\ c < ULongSize /\ Len(Stream) \in Nat
  BY SocketFacts
<1>4. /\ g = SubSeq(Stream, 1, Start(q, k, at))
      /\ r.fin_received => r.fin_sequence = Len(Stream)
      /\ ~ r.over
  BY <1>2 DEF Holds
<1>5. Edge(r) = at + c BY DEF Edge
<1> HIDE DEF m, q, at, to, c, l
<1>6. /\ m \in Nat /\ m \in 0..Len(q) /\ k \in Nat
      /\ \A i \in 1..Len(q) : q[i].seq \in Nat /\ Rcv!End(q[i]) \in Nat /\ q[i].ready \in BOOLEAN
  BY <1>1, <1>2, QueueFacts
<1>7. a \in Nat /\ a <= c /\ Rcv!More(r) <= (c - a) + 1 /\ to <= Len(Stream)
  <2>1. CASE m = 0
    <3>1. a = 0 BY <1>1, <1>2, <1>6, <2>1
    <3> QED BY SMTT(20), <1>1, <1>2, <1>3, <3>1
  <2>2. CASE m > 0
    <3>1. m \in 1..Len(q) BY <1>6, <2>2
    <3>2. to <= Edge(r) /\ to <= Edge(r) - Rcv!More(r) + 1 BY <1>1, <1>2, <2>2, <3>1
    <3>3. Rcv!End(q[m]) <= Len(Stream) BY <1>2, <3>1, QueueFacts
    <3>4. /\ to \in Nat /\ at \in Nat /\ at <= to /\ c \in Nat /\ Edge(r) = at + c
          /\ Rcv!More(r) \in Nat
      BY <1>1, <1>2, <1>3, <1>5
    <3>5. to <= Len(Stream) BY <1>1, <2>2, <3>3
    <3>6. a \in Nat /\ a <= c /\ Rcv!More(r) <= (c - a) + 1 BY <3>2, <3>4
    <3> QED BY <3>5, <3>6
  <2>3. m = 0 \/ m > 0 BY <1>6
  <2> HIDE DEF a
  <2> QED BY <2>1, <2>2, <2>3
<1>8. /\ t \in Seq(QueuePackets) /\ Len(t) = Len(q) /\ Parts(t)
      /\ \A i \in 1..Len(q) : /\ t[i].seq = q[i].seq /\ Rcv!End(t[i]) = Rcv!End(q[i])
                              /\ i <= m => t[i].ready
                              /\ ~ (i <= m) => t[i].ready = q[i].ready
  BY <1>2, <1>6, MadeReady
<1> HIDE DEF t
<1>9. (l - a) % ULongSize \in 0..ULongSize - 1
      /\ ((c - a) - ((l - a) % ULongSize)) % ULongSize = (c - l) % ULongSize
  <2> HIDE DEF a
  <2>1. /\ ULongSize \in Nat \ {0} /\ c \in Nat /\ l \in Nat /\ a \in Nat
        /\ c < ULongSize /\ l < ULongSize /\ a <= c
    BY <1>3, <1>7
  <2> QED BY <2>1, WindowMoves
<1>10. s = [r EXCEPT !.rx_sequence = to, !.rx_window_current = c - a,
                     !.rx_window_last_sent = (l - a) % ULongSize, !.receive_queue = t]
  BY DEF Rcv!Advance, m, q, at, to, c, l, t
<1> HIDE DEF s
<1>11. c - a \in 0..WindowDefault BY <1>3, <1>7
<1> HIDE DEF a
<1>12. s \in SocketRecords BY <1>1, <1>8, <1>9, <1>10, <1>11 DEF SocketRecords
<1>13. /\ s.rx_sequence = to /\ s.rx_window_current = c - a
       /\ s.rx_window_last_sent = (l - a) % ULongSize /\ s.receive_queue = t
       /\ s.state = r.state /\ s.receive_suspension_list = r.receive_suspension_list
       /\ s.fin_received = r.fin_received /\ s.fin_sequence = r.fin_sequence
       /\ s.given = r.given /\ s.over = r.over
  BY <1>10 DEF SocketRecords
<1>14. Rcv!More(s) = Rcv!More(r) BY <1>9, <1>13 DEF Rcv!More, c, l
<1>15. Edge(s) = Edge(r) BY SMTT(20), <1>1, <1>2, <1>3, <1>5, <1>13 DEF Edge, a
<1>16. Finish(s) = to BY <1>13 DEF Finish
<1>17. Apart(t)
  <2> SUFFICES ASSUME NEW i \in 1..Len(t), NEW j \in 1..Len(t), i < j PROVE Rcv!End(t[i]) <= t[j].seq
    BY DEF Apart
  <2>1. i \in 1..Len(q) /\ j \in 1..Len(q) BY <1>8
  <2>2. Rcv!End(q[i]) <= q[j].seq BY <1>2, <2>1 DEF Apart
  <2> QED BY <1>8, <2>1, <2>2
<1>18. Split(t, m, to)
  <2>1. \A i \in 1..Len(t) : t[i].ready <=> i <= m
    <3> SUFFICES ASSUME NEW i \in 1..Len(t) PROVE t[i].ready <=> i <= m
      OBVIOUS
    <3>1. i \in 1..Len(q) BY <1>8
    <3>2. ~ (i <= m) => ~ (i <= k) BY <1>1, <1>2, <1>6, <3>1
    <3>3. q[i].ready <=> i <= k BY <1>2, <3>1 DEF Split
    <3> QED BY <1>8, <3>1, <3>2, <3>3
  <2>2. \A i \in 1..m - 1 : Rcv!End(t[i]) = t[i + 1].seq
    <3> SUFFICES ASSUME NEW i \in 1..m - 1 PROVE Rcv!End(t[i]) = t[i + 1].seq
      OBVIOUS
    <3>1. i \in 1..Len(q) /\ i + 1 \in 1..Len(q) BY <1>2, <1>6
    <3>2. Rcv!End(q[i]) = q[i + 1].seq BY <1>1
    <3> QED BY <1>8, <3>1, <3>2
  <2>3. m > 0 => Rcv!End(t[m]) = to
    <3> SUFFICES ASSUME m > 0 PROVE Rcv!End(t[m]) = to
      OBVIOUS
    <3>1. m \in 1..Len(q) BY <1>6
    <3> QED BY <1>1, <1>8, <3>1
  <2>4. \A i \in m + 1..Len(t) : to <= t[i].seq
    <3> SUFFICES ASSUME NEW i \in m + 1..Len(t) PROVE to <= t[i].seq
      OBVIOUS
    <3>1. i \in 1..Len(q) /\ i \in m + 1..Len(q) BY <1>6, <1>8
    <3>2. to < q[i].seq /\ t[i].seq = q[i].seq BY <1>1, <1>8, <3>1
    <3> QED BY <1>1, <1>6, <3>1, <3>2
  <2> QED BY <2>1, <2>2, <2>3, <2>4 DEF Split
<1>19. Start(t, m, to) = Start(q, k, at)
  <2>1. CASE m = 0 BY <1>1, <2>1 DEF Start
  <2>2. CASE m # 0
    <3>1. 1 \in 1..Len(q) BY <1>6, <2>2
    <3> QED BY <1>1, <1>8, <2>2, <3>1 DEF Start
  <2> QED BY <2>1, <2>2
<1>20. (c - a) + to - Start(q, k, at) = WindowDefault
  BY <1>1, <1>2, <1>3 DEF a
<1>21. \A i \in 1..Len(t) : Rcv!End(t[i]) <= Edge(s) /\ Rcv!End(t[i]) <= Edge(s) - Rcv!More(s) + 1
  BY <1>2, <1>8, <1>14, <1>15
<1>22. Holds(s, m, g)
  <2>1. m \in 0..Len(t) BY <1>6, <1>8
  <2>2. /\ g = SubSeq(Stream, 1, Start(t, m, to))
        /\ s.rx_window_current + to - Start(t, m, to) = WindowDefault
    BY <1>4, <1>13, <1>19, <1>20
  <2>3. Rcv!More(s) <= s.rx_window_current + 1 BY <1>7, <1>13, <1>14
  <2>4. ~ s.over /\ (s.fin_received => s.fin_sequence = Len(Stream)) /\ s.state # "CLOSE_WAIT"
    BY <1>4, <1>13
  <2> QED BY <1>7, <1>8, <1>13, <1>16, <1>17, <1>18, <1>21, <2>1, <2>2, <2>3, <2>4 DEF Holds
<1>23. Gap(s, m)
  <2> SUFFICES ASSUME NEW i \in m + 1..Len(t) PROVE to < t[i].seq
    BY <1>13, <1>16 DEF Gap
  <2>1. i \in 1..Len(q) /\ i \in m + 1..Len(q) BY <1>6, <1>8
  <2> QED BY <1>1, <1>8, <2>1
<1> QED BY <1>1, <1>12, <1>13, <1>15, <1>16, <1>22, <1>23 DEF m, q, s

-----------------------------------------------------------------------------
(* The READY packets of a queue are its first k.                            *)
LEMMA ReadyAre ==
  ASSUME Rcv!ReceiveAssumption, NEW q \in Seq(QueuePackets),
         NEW k \in 0..Len(q), NEW last, Split(q, k, last)
  PROVE  Rcv!Ready(q) = SubSeq(q, 1, k) /\ Len(Rcv!Ready(q)) = k
<1> DEFINE S == {i \in DOMAIN q : q[i].ready}
<1>1. Len(q) \in Nat /\ DOMAIN q = 1..Len(q) OBVIOUS
<1>2. (\A i \in 1..k : i \in S) /\ (k < Len(q) => k + 1 \notin S)
  <2>1. \A i \in 1..Len(q) : q[i].ready <=> i <= k BY DEF Split
  <2> QED BY <1>1, <2>1
<1>3. Rcv!Passed(Len(q), S) = k
  <2> HIDE DEF S
  <2> QED BY <1>1, <1>2, PassedAre
<1>4. Rcv!Ready(q) = SubSeq(q, 1, k) BY <1>3 DEF Rcv!Ready
<1>5. Len(SubSeq(q, 1, k)) = k
  <2>1. k \in Int /\ \A i \in 1..k : q[i] \in QueuePackets BY <1>1, ElementOfSeq
  <2> QED BY <1>1, <2>1, SubSeqProperties
<1> QED BY <1>4, <1>5

(* The first n READY packets leave the queue: what they hold is the stream  *)
(* up to where the rest begins.                                             *)
LEMMA FrontIs ==
  ASSUME Rcv!ReceiveAssumption, NEW q \in Seq(QueuePackets), Parts(q), Apart(q),
         NEW k \in 0..Len(q), NEW last \in Nat, last <= Len(Stream), Split(q, k, last),
         NEW n \in 0..k
  PROVE  LET front == SubSeq(q, 1, n)
             rest == SubSeq(q, n + 1, Len(q))
             start == Start(q, k, last)
             to == Start(rest, k - n, last)
         IN /\ rest \in Seq(QueuePackets) /\ Len(rest) = Len(q) - n /\ k - n \in 0..Len(rest)
            /\ \A i \in 1..Len(q) - n : rest[i] = q[n + i]
            /\ Parts(rest) /\ Apart(rest) /\ Split(rest, k - n, last)
            /\ start \in Nat /\ to \in Nat /\ start <= to /\ to <= last
            /\ Rcv!Bytes(front) = SubSeq(Stream, start + 1, to) /\ Rcv!Count(front) = to - start
<1> DEFINE N == Len(q)
           front == SubSeq(q, 1, n)
           rest == SubSeq(q, n + 1, N)
           start == Start(q, k, last)
           to == Start(rest, k - n, last)
<1>1. /\ N \in Nat /\ k \in Nat /\ k <= N /\ n \in Nat /\ n <= k
      /\ \A i \in 1..N : /\ q[i] \in QueuePackets /\ IsPart(q[i])
                         /\ q[i].seq \in Nat /\ Rcv!End(q[i]) \in Nat /\ q[i].seq < Rcv!End(q[i])
  BY QueueFacts
<1> HIDE DEF N
<1>2. \A i \in 1..k : Rcv!End(q[i]) <= last BY ReadyEnds
<1>3. /\ rest \in Seq(QueuePackets) /\ Len(rest) = N - n
      /\ \A i \in 1..N - n : rest[i] = q[n + i]
  <2>1. n + 1 \in Int /\ N \in Int /\ \A i \in n + 1..N : q[i] \in QueuePackets BY <1>1
  <2>2. /\ rest \in Seq(QueuePackets) /\ Len(rest) = IF n + 1 <= N THEN N - (n + 1) + 1 ELSE 0
        /\ \A i \in 1..N - (n + 1) + 1 : rest[i] = q[(n + 1) + i - 1]
    BY SMTT(20), <2>1, SubSeqProperties
  <2>3. ASSUME NEW i \in 1..N - n PROVE rest[i] = q[n + i]
    <3>1. i \in 1..N - (n + 1) + 1 /\ (n + 1) + i - 1 = n + i BY <1>1
    <3> QED BY <2>2, <3>1
  <2> QED BY <1>1, <2>2, <2>3
<1>4. /\ front \in Seq(QueuePackets) /\ Len(front) = n
      /\ \A i \in 1..n : front[i] = q[i]
  <2>1. 1 \in Int /\ n \in Int /\ \A i \in 1..n : q[i] \in QueuePackets BY <1>1
  <2>2. /\ front \in Seq(QueuePackets) /\ Len(front) = IF 1 <= n THEN n - 1 + 1 ELSE 0
        /\ \A i \in 1..n - 1 + 1 : front[i] = q[1 + i - 1]
    BY <2>1, SubSeqProperties
  <2>3. ASSUME NEW i \in 1..n PROVE front[i] = q[i]
    <3>1. i \in 1..n - 1 + 1 /\ 1 + i - 1 = i BY <1>1
    <3> QED BY <2>2, <3>1
  <2> QED BY <1>1, <2>2, <2>3
<1> HIDE DEF front, rest
<1>5. Parts(rest)
  <2> SUFFICES ASSUME NEW i \in 1..Len(rest) PROVE IsPart(rest[i])
    BY DEF Parts
  <2>1. i \in 1..N - n /\ n + i \in 1..N BY <1>1, <1>3
  <2> QED BY <1>1, <1>3, <2>1
<1>6. Apart(rest)
  <2> SUFFICES ASSUME NEW i \in 1..Len(rest), NEW j \in 1..Len(rest), i < j
      PROVE Rcv!End(rest[i]) <= rest[j].seq
    BY DEF Apart
  <2>1. i \in 1..N - n /\ j \in 1..N - n /\ n + i \in 1..N /\ n + j \in 1..N /\ n + i < n + j
    BY <1>1, <1>3
  <2>2. Rcv!End(q[n + i]) <= q[n + j].seq BY <2>1 DEF Apart, N
  <2> QED BY <1>3, <2>1, <2>2
<1>7. Split(rest, k - n, last)
  <2>1. \A i \in 1..Len(rest) : rest[i].ready <=> i <= k - n
    <3> SUFFICES ASSUME NEW i \in 1..Len(rest) PROVE rest[i].ready <=> i <= k - n
      OBVIOUS
    <3>1. i \in 1..N - n /\ n + i \in 1..N /\ (n + i <= k <=> i <= k - n) BY <1>1, <1>3
    <3>2. q[n + i].ready <=> n + i <= k BY <3>1 DEF Split, N
    <3> QED BY <1>3, <3>1, <3>2
  <2>2. \A i \in 1..k - n - 1 : Rcv!End(rest[i]) = rest[i + 1].seq
    <3> SUFFICES ASSUME NEW i \in 1..k - n - 1 PROVE Rcv!End(rest[i]) = rest[i + 1].seq
      OBVIOUS
    <3>1. i \in 1..N - n /\ i + 1 \in 1..N - n /\ n + i \in 1..k - 1 /\ n + (i + 1) = (n + i) + 1
      <4>1. N \in Nat /\ k \in Nat /\ k <= N /\ n \in Nat /\ n <= k BY <1>1
      <4> QED BY SMTT(20), <4>1
    <3>2. Rcv!End(q[n + i]) = q[(n + i) + 1].seq BY <3>1 DEF Split
    <3> QED BY <1>3, <3>1, <3>2
  <2>3. k - n > 0 => Rcv!End(rest[k - n]) = last
    <3> SUFFICES ASSUME k - n > 0 PROVE Rcv!End(rest[k - n]) = last
      OBVIOUS
    <3>1. k - n \in 1..N - n /\ n + (k - n) = k /\ k > 0 BY <1>1
    <3>2. Rcv!End(q[k]) = last BY <3>1 DEF Split
    <3> QED BY <1>3, <3>1, <3>2
  <2>4. \A i \in (k - n) + 1..Len(rest) : last <= rest[i].seq
    <3> SUFFICES ASSUME NEW i \in (k - n) + 1..Len(rest) PROVE last <= rest[i].seq
      OBVIOUS
    <3>1. i \in 1..N - n /\ n + i \in k + 1..N BY <1>1, <1>3
    <3>2. last <= q[n + i].seq BY <3>1 DEF Split, N
    <3> QED BY <1>3, <3>1, <3>2
  <2> QED BY <2>1, <2>2, <2>3, <2>4 DEF Split
<1>8. CASE n = 0
  <2>1. front = <<>> BY <1>4, <1>8
  <2>2. Rcv!Bytes(front) = <<>> /\ Rcv!Count(front) = 0 BY <2>1, NoBytes
  <2>3. to = start
    <3>1. CASE k = 0 BY <1>8, <3>1 DEF Start
    <3>2. CASE k # 0
      <4>1. 1 \in 1..N - n /\ n + 1 = 1 /\ k - n # 0 BY <1>1, <1>8, <3>2
      <4> QED BY <1>3, <3>2, <4>1 DEF Start
    <3> QED BY <3>1, <3>2
  <2>4. start \in Nat /\ start <= last
    <3>1. CASE k = 0 BY <3>1 DEF Start
    <3>2. CASE k # 0
      <4>1. 1 \in 1..N /\ 1 \in 1..k BY <1>1, <3>2
      <4>2. q[1].seq < Rcv!End(q[1]) /\ Rcv!End(q[1]) <= last /\ q[1].seq \in Nat /\ Rcv!End(q[1]) \in Nat
        BY <1>1, <1>2, <4>1
      <4> QED BY <3>2, <4>2 DEF Start
    <3> QED BY <3>1, <3>2
  <2>5. SubSeq(Stream, start + 1, start) = <<>>
    <3> HIDE DEF start
    <3>1. start + 1 \in Int /\ start \in Int /\ start < start + 1 BY <2>4
    <3> QED BY <3>1, SubSeqEmpty
  <2>6. k - n \in 0..Len(rest) BY <1>1, <1>3
  <2>7. to - start = 0 /\ start <= to
    <3> HIDE DEF start, to
    <3> QED BY <2>3, <2>4
  <2> HIDE DEF start, to
  <2> QED BY <1>3, <1>5, <1>6, <1>7, <2>2, <2>3, <2>4, <2>5, <2>6, <2>7 DEF start, to, N, front, rest
<1>9. CASE n # 0
  <2>1. 1 \in 1..n /\ n \in 1..n /\ n \in 1..N /\ 1 \in 1..N /\ n \in 1..k /\ k # 0
    BY <1>1, <1>9
  <2>2. start = q[1].seq BY <2>1 DEF Start
  <2>3. to = Rcv!End(q[n]) /\ to <= last
    <3>1. CASE k = n
      <4>1. to = last BY <1>1, <3>1 DEF Start
      <4>2. Rcv!End(q[k]) = last BY <1>1, <2>1 DEF Split
      <4> QED BY <3>1, <4>1, <4>2
    <3>2. CASE k # n
      <4>1. 1 \in 1..N - n /\ k - n # 0 /\ n \in 1..k - 1 BY <1>1, <2>1, <3>2
      <4>2. to = q[n + 1].seq BY <1>3, <4>1 DEF Start
      <4>3. Rcv!End(q[n]) = q[n + 1].seq BY <4>1 DEF Split
      <4> QED BY <1>2, <2>1, <4>2, <4>3
    <3> QED BY <3>1, <3>2
  <2>4. /\ front # <<>> /\ Parts(front) /\ Apart(front)
        /\ \A i \in 1..Len(front) - 1 : Rcv!End(front[i]) = front[i + 1].seq
    <3>1. front # <<>> BY <1>4, <1>9
    <3>2. \A i \in 1..n : i \in 1..N BY <1>1
    <3>3. Parts(front) BY <1>1, <1>4, <3>2 DEF Parts
    <3>4. Apart(front)
      <4> SUFFICES ASSUME NEW i \in 1..n, NEW j \in 1..n, i < j PROVE Rcv!End(front[i]) <= front[j].seq
        BY <1>4 DEF Apart
      <4>1. i \in 1..N /\ j \in 1..N BY <1>1
      <4>2. Rcv!End(q[i]) <= q[j].seq BY <4>1 DEF Apart, N
      <4> QED BY <1>4, <4>2
    <3>5. \A i \in 1..n - 1 : Rcv!End(front[i]) = front[i + 1].seq
      <4> SUFFICES ASSUME NEW i \in 1..n - 1 PROVE Rcv!End(front[i]) = front[i + 1].seq
        OBVIOUS
      <4>1. i \in 1..n /\ i + 1 \in 1..n /\ i \in 1..k - 1 BY <1>1
      <4>2. Rcv!End(q[i]) = q[i + 1].seq BY <4>1 DEF Split
      <4> QED BY <1>4, <4>1, <4>2
    <3> QED BY <1>4, <3>1, <3>3, <3>4, <3>5
  <2>5. /\ front[1].seq < Rcv!End(front[n])
        /\ Rcv!Bytes(front) = SubSeq(Stream, front[1].seq + 1, Rcv!End(front[n]))
        /\ Rcv!Count(front) = Rcv!End(front[n]) - front[1].seq
    <3>1. /\ front[1].seq < Rcv!End(front[Len(front)])
          /\ Rcv!Bytes(front) = SubSeq(Stream, front[1].seq + 1, Rcv!End(front[Len(front)]))
          /\ Rcv!Count(front) = Rcv!End(front[Len(front)]) - front[1].seq
      BY <1>4, <2>4, BytesAre
    <3> QED BY <1>4, <3>1
  <2>6. front[1] = q[1] /\ front[n] = q[n] BY <1>4, <2>1
  <2>7. start \in Nat /\ to \in Nat /\ start <= to
    BY <1>1, <2>1, <2>2, <2>3, <2>5, <2>6
  <2>8. k - n \in 0..Len(rest) BY <1>1, <1>3
  <2> HIDE DEF start, to
  <2>9. Rcv!Bytes(front) = SubSeq(Stream, start + 1, to) /\ Rcv!Count(front) = to - start
    BY <2>2, <2>3, <2>5, <2>6
  <2> QED BY <1>3, <1>5, <1>6, <1>7, <2>3, <2>7, <2>8, <2>9 DEF start, to, N, front, rest
<1> QED BY <1>8, <1>9

(* Adding to a number whose remainder has room adds to the remainder.       *)
LEMMA RemainderMoves ==
  ASSUME NEW U \in Nat \ {0}, NEW x \in Int, NEW c \in Nat,
         - U <= x, x < U, (x % U) + c < U
  PROVE  (x + c) % U = (x % U) + c
<1>1. CASE 0 <= x
  <2>1. x % U = x BY <1>1, Remainder
  <2>2. x + c \in Int /\ 0 <= x + c /\ x + c < U BY <1>1, <2>1
  <2>3. (x + c) % U = x + c BY <2>2, Remainder
  <2> QED BY <2>1, <2>3
<1>2. CASE x < 0
  <2>1. x % U = x + U BY <1>2, Remainder
  <2>2. x + c \in Int /\ - U <= x + c /\ x + c < 0 BY <1>2, <2>1
  <2>3. (x + c) % U = x + c + U BY <2>2, Remainder
  <2> QED BY <2>1, <2>3
<1> QED BY <1>1, <1>2

(* What READY packets hold is given, and their room is in the window again: *)
(* s is r without its first n packets.                                      *)
LEMMA ReleaseIs ==
  ASSUME Rcv!ReceiveAssumption, NEW r \in SocketRecords, NEW k, NEW g, NEW n, NEW s,
         Holds(r, k, g), n \in 0..k,
         s.state = r.state, s.rx_sequence = r.rx_sequence,
         s.rx_window_current = r.rx_window_current + Rcv!Count(SubSeq(r.receive_queue, 1, n)),
         s.rx_window_last_sent = r.rx_window_last_sent,
         s.receive_queue = SubSeq(r.receive_queue, n + 1, Len(r.receive_queue)),
         s.fin_received = r.fin_received, s.fin_sequence = r.fin_sequence, s.over = r.over
  PROVE  LET bytes == Rcv!Bytes(SubSeq(r.receive_queue, 1, n))
         IN /\ bytes \in Seq(AllBytes)
            /\ s.receive_queue \in Seq(QueuePackets) /\ s.rx_window_current \in 0..WindowDefault
            /\ Holds(s, k - n, Join(g, bytes)) /\ Finish(s) = Finish(r) /\ Edge(s) >= Edge(r)
            /\ Gap(r, k) => Gap(s, k - n)
<1> DEFINE q == r.receive_queue
           rest == s.receive_queue
           last == Finish(r)
           start == Start(q, k, last)
           to == Start(rest, k - n, last)
           bytes == Rcv!Bytes(SubSeq(q, 1, n))
           c == Rcv!Count(SubSeq(q, 1, n))
           w == r.rx_window_current
           l == r.rx_window_last_sent
<1>1. /\ q \in Seq(QueuePackets) /\ Len(q) \in Nat /\ Parts(q) /\ Apart(q)
      /\ k \in 0..Len(q) /\ last \in Nat /\ last <= Len(Stream)
      /\ Split(q, k, last) /\ w + last - start = WindowDefault
      /\ Edge(r) \in Nat /\ Rcv!More(r) \in Nat /\ Rcv!More(r) <= w + 1 /\ Rcv!More(r) <= WindowDefault + 1
      /\ \A i \in 1..Len(q) : Rcv!End(q[i]) <= Edge(r) /\ Rcv!End(q[i]) <= Edge(r) - Rcv!More(r) + 1
  BY HoldsFacts
<1>2. /\ w \in Nat /\ l \in Nat /\ l < ULongSize /\ ULongSize \in Nat \ {0}
      /\ WindowDefault \in Nat /\ WindowDefault > 0 /\ ULongSize > 4 * WindowDefault
      /\ w <= WindowDefault /\ Len(Stream) \in Nat /\ r.rx_sequence \in Nat
  BY SocketFacts
<1>3. /\ g = SubSeq(Stream, 1, start)
      /\ r.fin_received => r.fin_sequence = Len(Stream)
      /\ r.state = "CLOSE_WAIT" => last = Len(Stream)
      /\ r.over => r.state = "CLOSE_WAIT" /\ q = <<>>
  BY DEF Holds
<1>4. /\ rest \in Seq(QueuePackets) /\ Len(rest) = Len(q) - n /\ k - n \in 0..Len(rest)
      /\ \A i \in 1..Len(q) - n : rest[i] = q[n + i]
      /\ Parts(rest) /\ Apart(rest) /\ Split(rest, k - n, last)
      /\ start \in Nat /\ to \in Nat /\ start <= to /\ to <= last
      /\ bytes = SubSeq(Stream, start + 1, to) /\ c = to - start
  <2>1. rest = SubSeq(q, n + 1, Len(q)) OBVIOUS
  <2> DEFINE R == SubSeq(q, n + 1, Len(q))
             Q == q
             L == last
             F == SubSeq(Q, 1, n)
  <2>2. Q \in Seq(QueuePackets) /\ Parts(Q) /\ Apart(Q) /\ k \in 0..Len(Q) /\ L \in Nat
        /\ L <= Len(Stream) /\ Split(Q, k, L) /\ n \in 0..k
    BY <1>1
  <2> HIDE DEF Q, L
  <2>3. LET X == SubSeq(Q, n + 1, Len(Q))
        IN /\ X \in Seq(QueuePackets) /\ Len(X) = Len(Q) - n /\ k - n \in 0..Len(X)
           /\ \A i \in 1..Len(Q) - n : X[i] = Q[n + i]
           /\ Parts(X) /\ Apart(X) /\ Split(X, k - n, L)
           /\ Start(Q, k, L) \in Nat /\ Start(X, k - n, L) \in Nat
           /\ Start(Q, k, L) <= Start(X, k - n, L) /\ Start(X, k - n, L) <= L
           /\ Rcv!Bytes(F) = SubSeq(Stream, Start(Q, k, L) + 1, Start(X, k - n, L))
           /\ Rcv!Count(F) = Start(X, k - n, L) - Start(Q, k, L)
    BY <2>2, FrontIs
  <2> QED BY <2>1, <2>3, Zenon DEF Q, L
<1> HIDE DEF start, to, bytes, c, last, w, l, q
<1>0. n \in Nat /\ k \in Nat /\ n <= k /\ k <= Len(q) BY <1>1
<1>5. c \in Nat /\ w + c \in 0..WindowDefault /\ w + c + last - to = WindowDefault
      /\ Rcv!More(r) + c < ULongSize /\ Rcv!More(r) + c <= w + c + 1
  <2>0. /\ w \in Nat /\ last \in Nat /\ start \in Nat /\ to \in Nat /\ start <= to /\ to <= last
        /\ c = to - start /\ w + last - start = WindowDefault /\ WindowDefault \in Nat
        /\ WindowDefault > 0 /\ ULongSize > 4 * WindowDefault /\ ULongSize \in Nat
        /\ Rcv!More(r) \in Nat /\ Rcv!More(r) <= w + 1 /\ Rcv!More(r) <= WindowDefault + 1
    BY <1>1, <1>2, <1>4
  <2>1. c \in Nat /\ w + c + last - to = WindowDefault BY SMTT(20), <2>0
  <2>2. w + c <= WindowDefault /\ c <= WindowDefault /\ w + c \in Nat BY <2>0, <2>1
  <2>3. Rcv!More(r) + c < ULongSize /\ Rcv!More(r) + c <= w + c + 1 BY <2>0, <2>1, <2>2
  <2> QED BY <2>0, <2>1, <2>2, <2>3
<1>6. s.rx_window_current = w + c /\ s.rx_window_last_sent = l BY DEF w, l, c, q
<1>7. Rcv!More(s) = Rcv!More(r) + c
  <2>1. Rcv!More(r) = (w - l) % ULongSize BY DEF Rcv!More, w, l
  <2>2. Rcv!More(s) = ((w + c) - l) % ULongSize BY <1>6 DEF Rcv!More
  <2>3. (w + c) - l = (w - l) + c BY <1>2, <1>5
  <2>4. w - l \in Int /\ - ULongSize <= w - l /\ w - l < ULongSize BY <1>2
  <2>5. ((w - l) % ULongSize) + c < ULongSize BY <1>5, <2>1
  <2>6. ((w - l) + c) % ULongSize = ((w - l) % ULongSize) + c
    <3> DEFINE x == w - l
    <3> HIDE DEF x
    <3>1. x \in Int /\ - ULongSize <= x /\ x < ULongSize /\ (x % ULongSize) + c < ULongSize
      BY <2>4, <2>5 DEF x
    <3>2. (x + c) % ULongSize = (x % ULongSize) + c BY <1>2, <1>5, <3>1, RemainderMoves
    <3> QED BY <3>2 DEF x
  <2> QED BY <2>1, <2>2, <2>3, <2>6
<1>8. Finish(s) = last BY DEF Finish, last
<1>9. Edge(s) = Edge(r) + c
  <2>1. Edge(r) = r.rx_sequence + w BY DEF Edge, w
  <2>2. Edge(s) = r.rx_sequence + (w + c) BY <1>6 DEF Edge
  <2> QED BY <1>2, <1>5, <2>1, <2>2
<1>10. bytes \in Seq(AllBytes) /\ Join(g, bytes) = SubSeq(Stream, 1, to)
  <2>1. to <= Len(Stream) /\ to \in start..Len(Stream) BY <1>1, <1>2, <1>4
  <2>2. bytes \in Seq(AllBytes) BY <1>4, <2>1, StreamSub
  <2>3. SubSeq(Stream, 0 + 1, start) \o SubSeq(Stream, start + 1, to) = SubSeq(Stream, 0 + 1, to)
    <3>1. 0 \in Nat /\ start \in Nat /\ 0 <= start /\ start <= Len(Stream)
      BY <1>1, <1>2, <1>4
    <3> QED BY <2>1, <3>1, StreamSub
  <2>4. 0 + 1 = 1 OBVIOUS
  <2>5. Join(g, bytes) = g \o bytes BY Zenon DEF Join
  <2>6. g = SubSeq(Stream, 0 + 1, start) /\ bytes = SubSeq(Stream, start + 1, to)
    BY Zenon, <1>3, <1>4, <2>4
  <2>7. g \o bytes = SubSeq(Stream, 0 + 1, to) BY Zenon, <2>3, <2>6
  <2> QED BY Zenon, <2>2, <2>4, <2>5, <2>7
<1>11. \A i \in 1..Len(rest) : Rcv!End(rest[i]) <= Edge(s) /\ Rcv!End(rest[i]) <= Edge(s) - Rcv!More(s) + 1
  <2> SUFFICES ASSUME NEW i \in 1..Len(rest)
      PROVE Rcv!End(rest[i]) <= Edge(s) /\ Rcv!End(rest[i]) <= Edge(s) - Rcv!More(s) + 1
    OBVIOUS
  <2>1. i \in 1..Len(q) - n /\ n + i \in 1..Len(q) BY SMTT(20), <1>0, <1>1, <1>4
  <2>2. rest[i] = q[n + i] BY <1>4, <2>1
  <2>3. /\ Rcv!End(q[n + i]) <= Edge(r) /\ Rcv!End(q[n + i]) <= Edge(r) - Rcv!More(r) + 1
        /\ Rcv!End(q[n + i]) \in Nat
    BY <1>1, <2>1, QueueFacts
  <2>4. /\ Edge(r) <= Edge(s) /\ Edge(s) - Rcv!More(s) + 1 = Edge(r) - Rcv!More(r) + 1
        /\ Edge(s) \in Nat /\ Edge(r) \in Nat
    <3>1. Edge(r) \in Nat /\ c \in Nat /\ Rcv!More(r) \in Nat BY <1>1, <1>5
    <3> QED BY <1>7, <1>9, <3>1
  <2>5. Rcv!End(q[n + i]) <= Edge(s) BY <2>3, <2>4
  <2>6. Rcv!End(q[n + i]) <= Edge(s) - Rcv!More(s) + 1
    <3> DEFINE a == Edge(s) - Rcv!More(s) + 1
               b == Edge(r) - Rcv!More(r) + 1
    <3>1. a = b /\ Rcv!End(q[n + i]) <= b BY <2>3, <2>4
    <3> HIDE DEF a, b
    <3>2. Rcv!End(q[n + i]) <= a BY <3>1
    <3> QED BY <3>2 DEF a
  <2> QED BY <2>2, <2>5, <2>6
<1>12. s.over => s.state = "CLOSE_WAIT" /\ rest = <<>>
  <2> SUFFICES ASSUME s.over PROVE s.state = "CLOSE_WAIT" /\ rest = <<>>
    OBVIOUS
  <2>1. s.state = "CLOSE_WAIT" /\ q = <<>> BY <1>3
  <2>2. Len(q) = 0 BY <2>1
  <2>3. n = 0 BY <1>1, <2>2
  <2>4. Len(rest) = 0 BY <1>4, <2>2, <2>3
  <2> QED BY <1>4, <2>1, <2>4, EmptySeq
<1>13. Holds(s, k - n, Join(g, bytes))
  <2>1. /\ k - n \in 0..Len(s.receive_queue)
        /\ Parts(s.receive_queue) /\ Apart(s.receive_queue)
        /\ Split(s.receive_queue, k - n, Finish(s)) /\ Finish(s) <= Len(Stream)
    BY <1>1, <1>4, <1>8
  <2>2. /\ Join(g, bytes) = SubSeq(Stream, 1, Start(s.receive_queue, k - n, Finish(s)))
        /\ s.rx_window_current + Finish(s) - Start(s.receive_queue, k - n, Finish(s)) = WindowDefault
    BY <1>5, <1>6, <1>8, <1>10 DEF to
  <2>3. Rcv!More(s) <= s.rx_window_current + 1 BY <1>5, <1>6, <1>7
  <2>4. /\ s.fin_received => s.fin_sequence = Len(Stream)
        /\ s.state = "CLOSE_WAIT" => Finish(s) = Len(Stream)
    BY <1>3, <1>8
  <2> HIDE DEF rest
  <2> QED BY <1>11, <1>12, <2>1, <2>2, <2>3, <2>4 DEF Holds, rest
<1>14. ASSUME Gap(r, k) PROVE Gap(s, k - n)
  <2> SUFFICES ASSUME NEW i \in (k - n) + 1..Len(rest) PROVE Finish(s) < rest[i].seq
    BY DEF Gap
  <2>1. i \in 1..Len(q) - n /\ n + i \in k + 1..Len(q)
    <3>1. Len(rest) = Len(q) - n /\ Len(q) \in Nat BY <1>1, <1>4
    <3> HIDE DEF rest
    <3>2. n \in Nat /\ k \in Nat /\ n <= k /\ k <= Len(q) BY <1>0
    <3>3. i \in (k - n) + 1..Len(q) - n BY <3>1
    <3> QED BY SMTT(20), <3>1, <3>2, <3>3
  <2>2. last < q[n + i].seq BY <1>14, <2>1 DEF Gap, last, q
  <2> QED BY <1>4, <1>8, <2>1, <2>2
<1>15. Edge(s) >= Edge(r) BY <1>1, <1>5, <1>9
<1>16. s.rx_window_current \in 0..WindowDefault BY <1>5, <1>6
<1> HIDE DEF rest
<1> QED BY <1>4, <1>8, <1>10, <1>13, <1>14, <1>15, <1>16 DEF bytes, q, last, rest

(* The same with a name for k - n, as the steps below have it.              *)
LEMMA ReleaseKeeps ==
  ASSUME Rcv!ReceiveAssumption, NEW r \in SocketRecords, NEW k, NEW g, NEW n, NEW s, NEW j,
         Holds(r, k, g), n \in 0..k, j = k - n,
         s.state = r.state, s.rx_sequence = r.rx_sequence,
         s.rx_window_current = r.rx_window_current + Rcv!Count(SubSeq(r.receive_queue, 1, n)),
         s.rx_window_last_sent = r.rx_window_last_sent,
         s.receive_queue = SubSeq(r.receive_queue, n + 1, Len(r.receive_queue)),
         s.fin_received = r.fin_received, s.fin_sequence = r.fin_sequence, s.over = r.over
  PROVE  LET bytes == Rcv!Bytes(SubSeq(r.receive_queue, 1, n))
         IN /\ bytes \in Seq(AllBytes)
            /\ s.receive_queue \in Seq(QueuePackets) /\ s.rx_window_current \in 0..WindowDefault
            /\ Holds(s, j, Join(g, bytes)) /\ Finish(s) = Finish(r) /\ Edge(s) >= Edge(r)
            /\ Gap(r, k) => Gap(s, j)
<1>1. LET bytes == Rcv!Bytes(SubSeq(r.receive_queue, 1, n))
      IN /\ bytes \in Seq(AllBytes)
         /\ s.receive_queue \in Seq(QueuePackets) /\ s.rx_window_current \in 0..WindowDefault
         /\ Holds(s, k - n, Join(g, bytes)) /\ Finish(s) = Finish(r) /\ Edge(s) >= Edge(r)
         /\ Gap(r, k) => Gap(s, k - n)
  BY ReleaseIs
<1> QED BY <1>1

(* What a step leaves when the bytes given before it are g.                 *)
Good(s, g) ==
  /\ s \in SocketRecords
  /\ \E k \in 0..Len(s.receive_queue) : Holds(s, k, Join(g, s.given)) /\ Settled(s, k)

(* An acknowledgment keeps a result good.                                   *)
LEMMA GoodAck ==
  ASSUME Rcv!ReceiveAssumption, NEW s, NEW g, NEW c, Good(s, g)
  PROVE  /\ Good(Rcv!SendAckIf(c, s), g) /\ Edge(Rcv!SendAckIf(c, s)) = Edge(s)
         /\ Rcv!SendAckIf(c, s).state = s.state
<1> DEFINE t == Rcv!SendAckIf(c, s)
<1>1. s \in SocketRecords BY DEF Good
<1>2. PICK k \in 0..Len(s.receive_queue) : Holds(s, k, Join(g, s.given)) /\ Settled(s, k)
  BY DEF Good
<1>3. /\ t \in SocketRecords /\ t.state = s.state /\ t.given = s.given
      /\ t.receive_queue = s.receive_queue /\ Edge(t) = Edge(s)
      /\ Holds(t, k, Join(g, s.given)) /\ Settled(t, k)
  BY <1>1, <1>2, AckKeeps
<1> HIDE DEF t
<1>4. Good(t, g) BY <1>3 DEF Good
<1> QED BY <1>3, <1>4 DEF t

(* A list of threads without its first n.                                   *)
LEMMA RestOfThreads ==
  ASSUME NEW S, NEW w \in Seq(S), NEW n \in 0..Len(w)
  PROVE  /\ SubSeq(w, n + 1, Len(w)) \in Seq(S)
         /\ n = Len(w) => SubSeq(w, n + 1, Len(w)) = <<>>
<1> DEFINE v == SubSeq(w, n + 1, Len(w))
<1>1. n + 1 \in Int /\ Len(w) \in Int /\ \A i \in n + 1..Len(w) : w[i] \in S BY ElementOfSeq
<1>2. v \in Seq(S) /\ Len(v) = IF n + 1 <= Len(w) THEN Len(w) - (n + 1) + 1 ELSE 0
  BY <1>1, SubSeqProperties
<1>3. n = Len(w) => Len(v) = 0 BY <1>1, <1>2
<1> HIDE DEF v
<1>4. n = Len(w) => v = <<>> BY <1>2, <1>3, EmptySeq
<1> QED BY <1>2, <1>4 DEF v

(* Threads that wait get the packets made READY: then no packet is READY or *)
(* no thread waits.                                                         *)
LEMMA HandOverKeeps ==
  ASSUME Rcv!ReceiveAssumption, NEW r \in SocketRecords, NEW m, NEW g, NEW new \in 0..m,
         Holds(r, m, g), r.given = <<>>, r.state = "ESTABLISHED",
         Gap(r, m),
         r.receive_suspension_list # <<>> => new = m
  PROVE  LET s == Rcv!HandOver(r, new)
         IN Good(s, g) /\ s.state = "ESTABLISHED" /\ Edge(s) >= Edge(r)
<1> DEFINE w == r.receive_suspension_list
           q == r.receive_queue
           n == Rcv!Smaller(new, Len(w))
           front == SubSeq(q, 1, n)
           rest == SubSeq(q, n + 1, Len(q))
           v == SubSeq(w, n + 1, Len(w))
           s == Rcv!HandOver(r, new)
           j == m - n
<1>1. /\ w \in Seq(Readers) /\ Len(w) \in Nat /\ m \in 0..Len(q) /\ Len(q) \in Nat
      /\ r.rx_window_current \in Nat
  BY SocketFacts, HoldsFacts
<1>2. n \in 0..m /\ n \in 0..Len(w) /\ (n = new \/ n = Len(w)) BY <1>1 DEF Rcv!Smaller
<1> HIDE DEF n
<1>3. v \in Seq(Readers) /\ (n = Len(w) => v = <<>>)
  <2> HIDE DEF w
  <2> QED BY <1>1, <1>2, RestOfThreads DEF v
<1>4. s = [r EXCEPT !.receive_queue = rest, !.receive_suspension_list = v,
                    !.rx_window_current = @ + Rcv!Count(front), !.given = @ \o Rcv!Bytes(front)]
  BY DEF Rcv!HandOver, n
<1> HIDE DEF s, v, rest, front, j
<1>5. /\ s.state = r.state /\ s.rx_sequence = r.rx_sequence
      /\ s.rx_window_current = r.rx_window_current + Rcv!Count(front)
      /\ s.rx_window_last_sent = r.rx_window_last_sent
      /\ s.receive_queue = rest /\ s.receive_suspension_list = v
      /\ s.fin_received = r.fin_received /\ s.fin_sequence = r.fin_sequence /\ s.over = r.over
      /\ s.given = r.given \o Rcv!Bytes(front)
  BY <1>4 DEF SocketRecords
<1>6. /\ Rcv!Bytes(front) \in Seq(AllBytes)
      /\ rest \in Seq(QueuePackets)
      /\ s.rx_window_current \in 0..WindowDefault
      /\ Holds(s, j, Join(g, Rcv!Bytes(front))) /\ Finish(s) = Finish(r) /\ Edge(s) >= Edge(r)
      /\ Gap(s, j)
  <2>1. /\ s.rx_window_current = r.rx_window_current + Rcv!Count(SubSeq(r.receive_queue, 1, n))
        /\ s.receive_queue = SubSeq(r.receive_queue, n + 1, Len(r.receive_queue))
    BY <1>5 DEF front, rest
  <2>2. /\ Rcv!Bytes(SubSeq(r.receive_queue, 1, n)) \in Seq(AllBytes)
        /\ s.receive_queue \in Seq(QueuePackets)
        /\ s.rx_window_current \in 0..WindowDefault
        /\ Holds(s, j, Join(g, Rcv!Bytes(SubSeq(r.receive_queue, 1, n))))
        /\ Finish(s) = Finish(r) /\ Edge(s) >= Edge(r) /\ Gap(s, j)
    <3>1. j = m - n BY DEF j
    <3> QED BY <1>2, <1>5, <2>1, <3>1, ReleaseKeeps
  <2> QED BY <1>5, <2>2 DEF front
<1>7. s.given = Rcv!Bytes(front) /\ s.given \in Seq(AllBytes)
  BY <1>5, <1>6, ConcatEmptySeq
<1>8. s \in SocketRecords
  <2>1. r.rx_window_current + Rcv!Count(front) \in 0..WindowDefault BY <1>5, <1>6
  <2>2. r.given \o Rcv!Bytes(front) \in Seq(AllBytes) BY <1>5, <1>7
  <2> QED BY <1>3, <1>4, <1>6, <2>1, <2>2 DEF SocketRecords
<1>9. Settled(s, j)
  <2>1. v # <<>> => j = 0
    <3> SUFFICES ASSUME v # <<>> PROVE j = 0
      OBVIOUS
    <3>1. n # Len(w) BY <1>3
    <3>2. n = new BY <1>2, <3>1
    <3>3. w # <<>>
      <4>1. Len(w) # 0 BY <1>1, <1>2, <3>1
      <4> QED BY <4>1
    <3> QED BY <1>1, <3>2, <3>3 DEF j
  <2> QED BY <1>5, <1>6, <2>1 DEF Settled
<1>10. j \in 0..Len(s.receive_queue) BY <1>6 DEF Holds
<1>11. Good(s, g) BY <1>6, <1>7, <1>8, <1>9, <1>10 DEF Good
<1> QED BY <1>5, <1>6, <1>11 DEF s

(* A packet was queued: READY packets follow, waiting threads get theirs.   *)
LEMMA QueuedKeeps ==
  ASSUME Rcv!ReceiveAssumption, NEW r \in SocketRecords, NEW k, NEW g,
         Holds(r, k, g), r.given = <<>>, r.state = "ESTABLISHED",
         r.receive_suspension_list # <<>> => k = 0
  PROVE  LET s == Rcv!Queued(r)
         IN Good(s, g) /\ s.state = "ESTABLISHED" /\ Edge(s) >= Edge(r)
<1> DEFINE in == Rcv!Advance(r)
           m == Rcv!InOrder(r)
           to == Rcv!HandOver(in, Rcv!ReadyIn(in) - Rcv!ReadyIn(r))
<1>1. /\ in \in SocketRecords /\ m \in k..Len(r.receive_queue) /\ Holds(in, m, g)
      /\ Gap(in, m)
      /\ Edge(in) = Edge(r) /\ in.receive_suspension_list = r.receive_suspension_list
      /\ in.state = r.state /\ in.given = r.given /\ in.over = r.over
  BY AdvanceKeeps
<1> HIDE DEF in, m
<1>2. Rcv!ReadyIn(in) = m /\ m \in 0..Len(in.receive_queue)
  <2>1. /\ in.receive_queue \in Seq(QueuePackets) /\ m \in 0..Len(in.receive_queue)
        /\ Split(in.receive_queue, m, Finish(in))
    BY <1>1, HoldsFacts
  <2> QED BY <2>1, ReadyAre DEF Rcv!ReadyIn
<1>3. Rcv!ReadyIn(r) = k /\ k \in 0..Len(r.receive_queue)
  <2>1. /\ r.receive_queue \in Seq(QueuePackets) /\ k \in 0..Len(r.receive_queue)
        /\ Split(r.receive_queue, k, Finish(r))
    BY HoldsFacts
  <2> QED BY <2>1, ReadyAre DEF Rcv!ReadyIn
<1>4. m - k \in 0..m /\ (in.receive_suspension_list # <<>> => m - k = m)
  <2>1. m \in Nat /\ k \in Nat /\ k <= m BY <1>1, <1>2, <1>3
  <2> QED BY <1>1, <2>1
<1>5. to = Rcv!HandOver(in, m - k) BY <1>2, <1>3
<1> HIDE DEF to
<1>6. Good(to, g) /\ to.state = "ESTABLISHED" /\ Edge(to) >= Edge(r)
  BY <1>1, <1>4, <1>5, HandOverKeeps
<1>7. Rcv!Queued(r) = Rcv!SendAckIf(Rcv!Grown(to), to) BY DEF Rcv!Queued, to, in
<1> QED BY <1>6, <1>7, GoodAck

-----------------------------------------------------------------------------
(* What the peer sends: the bytes of the stream from m.seq on, with the FIN *)
(* behind the last, no further than it was told or a byte more.             *)
IsSegment(m) ==
  /\ m.seq \in Nat /\ Rcv!End(m) \in Nat /\ m.seq <= Rcv!End(m) /\ Rcv!End(m) <= Len(Stream)
  /\ m.data = SubSeq(Stream, m.seq + 1, Rcv!End(m)) /\ Len(m.data) = Rcv!End(m) - m.seq
  /\ m.fin \in BOOLEAN /\ (m.fin => Rcv!End(m) = Len(Stream))
Within(r, m) ==
  /\ Rcv!End(m) <= Edge(r) - Rcv!More(r) + 1
  /\ m.fin => Rcv!End(m) <= Edge(r) - Rcv!More(r)

(* What the peer sends is a part of its stream within what it was told.     *)
LEMMA SegmentFacts ==
  ASSUME Rcv!ReceiveAssumption, rcv \in SocketRecords, NEW m \in Rcv!Segments, Rcv!FromPeer(m)
  PROVE  IsSegment(m) /\ Within(rcv, m)
<1> DEFINE L == Len(Stream)
<1>1. L \in Nat /\ Stream \in Seq(AllBytes) BY DEF Rcv!ReceiveAssumption, AllBytes
<1>2. PICK from \in 0..L, to \in 0..L :
        /\ m.seq = from /\ m.data = SubSeq(Stream, from + 1, to)
        /\ m.fin \in BOOLEAN /\ (m.fin => to = L)
  <2>1. CASE m \in {Rcv!Part(from, to) : from \in 0..L, to \in 0..L}
    <3>1. PICK from \in 0..L, to \in 0..L : m = Rcv!Part(from, to) BY <2>1
    <3>2. m.seq = from /\ m.data = SubSeq(Stream, from + 1, to)
      BY <3>1 DEF Rcv!Part
    <3>3. m.fin \in BOOLEAN /\ (m.fin => to = L) BY <3>1 DEF Rcv!Part
    <3> QED BY <3>2, <3>3, Zenon
  <2>2. CASE m \in {[Rcv!Part(from, L) EXCEPT !.fin = TRUE] : from \in 0..L}
    <3>1. PICK from \in 0..L : m = [Rcv!Part(from, L) EXCEPT !.fin = TRUE] BY <2>2
    <3>2. m.seq = from /\ m.data = SubSeq(Stream, from + 1, L) /\ m.fin = TRUE
      BY <3>1 DEF Rcv!Part
    <3>3. L \in 0..L BY <1>1
    <3>4. m.fin \in BOOLEAN BY <3>2, Zenon
    <3> QED BY <3>2, <3>3, <3>4, Zenon
  <2> QED BY <2>1, <2>2 DEF Rcv!Segments
<1>3. Len(m.data) = IF from + 1 <= to THEN to - from ELSE 0
  <2>1. from + 1 \in Int /\ to \in Int /\ \A i \in from + 1..to : Stream[i] \in AllBytes
    BY <1>1, ElementOfSeq
  <2>2. Len(m.data) = IF from + 1 <= to THEN to - (from + 1) + 1 ELSE 0
    BY <1>2, <2>1, SubSeqProperties
  <2> QED BY <1>1, <2>2
<1>4. from <= to
  <2>1. CASE m.fin BY <1>1, <1>2, <2>1
  <2>2. CASE ~ m.fin
    <3>1. Len(m.data) \in 1..Longest BY <2>2 DEF Rcv!FromPeer
    <3> QED BY <1>3, <3>1
  <2> QED BY <1>2, <2>1, <2>2
<1>5. Rcv!End(m) = to /\ Len(m.data) = to - from BY <1>2, <1>3, <1>4 DEF Rcv!End
<1>6. IsSegment(m) BY <1>1, <1>2, <1>4, <1>5 DEF IsSegment
<1>8. Edge(rcv) \in Nat /\ Rcv!More(rcv) \in Nat BY SocketFacts, MoreIs DEF Edge
<1>7. Rcv!Told = Edge(rcv) - Rcv!More(rcv)
  <2>1. rcv.rx_sequence \in Nat /\ rcv.rx_window_current \in Nat BY SocketFacts
  <2> QED BY <1>8, <2>1 DEF Rcv!Told, Edge
<1>9. Rcv!End(m) <= Rcv!Told \/ (Rcv!End(m) = Rcv!Told + 1 /\ ~ m.fin)
  <2>1. Rcv!End(m) <= Rcv!Told \/ (m.seq = Rcv!Told /\ Len(m.data) = 1 /\ ~ m.fin) BY DEF Rcv!FromPeer
  <2>2. ASSUME m.seq = Rcv!Told, Len(m.data) = 1 PROVE Rcv!End(m) = Rcv!Told + 1
    BY <2>2 DEF Rcv!End
  <2> QED BY <2>1, <2>2
<1>10. Within(rcv, m)
  <2> DEFINE T == Edge(rcv) - Rcv!More(rcv)
  <2>1. T \in Int /\ Rcv!End(m) \in Int /\ (Rcv!End(m) <= T \/ (Rcv!End(m) = T + 1 /\ ~ m.fin))
    BY <1>2, <1>5, <1>7, <1>8, <1>9
  <2> HIDE DEF T
  <2>2. Rcv!End(m) <= T + 1 /\ (m.fin => Rcv!End(m) <= T) BY <2>1
  <2> QED BY <2>2 DEF Within, T
<1> QED BY <1>6, <1>10

(* The trimmed segment is a part of the stream in the window, or empty.     *)
LEMMA TrimIs ==
  ASSUME Rcv!ReceiveAssumption, NEW r \in SocketRecords, NEW m, IsSegment(m), Within(r, m),
         Rcv!Acceptable(r, m)
  PROVE  LET p == Rcv!Trim(r, m)
         IN /\ p.ready = FALSE /\ (m.fin => Rcv!End(p) = Len(Stream))
            /\ p.data # <<>> =>
                 /\ p \in QueuePackets /\ IsPart(p) /\ r.rx_sequence <= p.seq
                 /\ Rcv!End(p) <= Edge(r) /\ Rcv!End(p) <= Edge(r) - Rcv!More(r) + 1
<1> DEFINE p == Rcv!Trim(r, m)
           at == r.rx_sequence
           w == r.rx_window_current
           e == Edge(r)
           from == IF m.data = <<>> THEN m.seq ELSE Rcv!Larger(m.seq, at)
           to == IF m.data = <<>> THEN m.seq ELSE Rcv!Smaller(Rcv!End(m), at + w)
<1>1. /\ at \in Nat /\ w \in Nat /\ Rcv!More(r) \in Nat /\ e \in Nat /\ e = at + w
      /\ Stream \in Seq(AllBytes) /\ Len(Stream) \in Nat
  BY SocketFacts, MoreIs DEF Edge
<1>2. /\ m.seq \in Nat /\ Rcv!End(m) \in Nat /\ m.seq <= Rcv!End(m) /\ Rcv!End(m) <= Len(Stream)
      /\ m.data = SubSeq(Stream, m.seq + 1, Rcv!End(m)) /\ Len(m.data) = Rcv!End(m) - m.seq
      /\ m.fin \in BOOLEAN /\ (m.fin => Rcv!End(m) = Len(Stream))
  BY DEF IsSegment
<1>3. p = [seq |-> from, data |-> SubSeq(m.data, from - m.seq + 1, to - m.seq), ready |-> FALSE]
  BY DEF Rcv!Trim
<1>4. p.ready = FALSE /\ p.seq = from /\ p.data = SubSeq(m.data, from - m.seq + 1, to - m.seq)
  <2> HIDE DEF from, to, p
  <2> QED BY <1>3
<1>5. CASE m.data = <<>>
  <2>1. Len(m.data) = 0 BY <1>5
  <2>2. Rcv!End(m) = m.seq BY <1>2, <2>1
  <2>3. from = m.seq /\ to = m.seq BY <1>5
  <2>4. p.data = SubSeq(m.data, 1, 0) BY SMTT(20), <1>2, <1>4, <2>3
  <2>5. p.data = <<>>
    <3>1. SubSeq(m.data, 1, 0) = <<>> BY SubSeqEmpty
    <3> QED BY <2>4, <3>1
  <2>6. Len(p.data) = 0 BY <2>5
  <2>7. Rcv!End(p) = m.seq BY <1>2, <1>4, <2>3, <2>6 DEF Rcv!End
  <2> QED BY <1>2, <1>4, <2>2, <2>5, <2>7
<1>6. CASE m.data # <<>>
  <2>1. m.seq < Rcv!End(m)
    <3>1. SubSeq(Stream, m.seq + 1, Rcv!End(m)) \in Seq(AllBytes) BY <1>2, StreamSub
    <3>2. Len(m.data) # 0 BY <1>2, <1>6, <3>1, EmptySeq
    <3> QED BY <1>2, <3>2
  <2>2. /\ w > 0 /\ ((at <= m.seq /\ m.seq < e) \/ (at < Rcv!End(m) /\ Rcv!End(m) <= e))
    <3>1. at < at + w /\ ((at <= m.seq /\ m.seq < at + w) \/ (at < Rcv!End(m) /\ Rcv!End(m) <= at + w))
      BY <1>6 DEF Rcv!Acceptable
    <3> QED BY <1>1, <3>1
  <2>3. /\ from = (IF m.seq > at THEN m.seq ELSE at)
        /\ to = IF Rcv!End(m) < e THEN Rcv!End(m) ELSE e
    BY <1>1, <1>6 DEF Rcv!Larger, Rcv!Smaller
  <2> HIDE DEF from, to, e
  <2>4. /\ from \in Nat /\ to \in Nat /\ m.seq <= from /\ at <= from /\ from < to
        /\ to <= Rcv!End(m) /\ to <= e
    <3> DEFINE S == m.seq
               E == Rcv!End(m)
    <3>1. /\ S \in Nat /\ E \in Nat /\ S < E /\ at \in Nat /\ w \in Nat /\ e = at + w /\ w > 0
          /\ (at <= S /\ S < e) \/ (at < E /\ E <= e)
          /\ from = (IF S > at THEN S ELSE at)
          /\ to = IF E < e THEN E ELSE e
      BY <1>1, <1>2, <2>1, <2>2, <2>3
    <3> HIDE DEF S, E, at, w
    <3>2. from \in Nat /\ S <= from /\ at <= from BY <3>1
    <3>3. to \in Nat /\ to <= E /\ to <= e BY <3>1
    <3>4. from < to BY <3>1
    <3> QED BY <3>2, <3>3, <3>4 DEF S, E, at
  <2>5. p.data = SubSeq(Stream, from + 1, to)
    <3> DEFINE i == m.seq + 1
               j == Rcv!End(m)
               a == from - m.seq + 1
               b == to - m.seq
    <3>1. /\ i \in 1..Len(Stream) /\ j \in 1..Len(Stream) /\ a \in 1..j - i + 1 /\ b \in 1..j - i + 1
          /\ i + a - 1 = from + 1 /\ i + b - 1 = to
      <4> DEFINE S == m.seq
                 E == Rcv!End(m)
                 N == Len(Stream)
      <4>1. /\ S \in Nat /\ E \in Nat /\ N \in Nat /\ E <= N /\ from \in Nat /\ to \in Nat
            /\ S <= from /\ from < to /\ to <= E
        BY <1>1, <1>2, <2>4
      <4> HIDE DEF S, E, N
      <4>2. /\ S + 1 \in 1..N /\ E \in 1..N /\ from - S + 1 \in 1..E - (S + 1) + 1
            /\ to - S \in 1..E - (S + 1) + 1
            /\ (S + 1) + (from - S + 1) - 1 = from + 1 /\ (S + 1) + (to - S) - 1 = to
        BY <4>1
      <4> QED BY <4>2 DEF S, E, N
    <3>2. p.data = SubSeq(SubSeq(Stream, i, j), a, b) BY <1>2, <1>4
    <3> HIDE DEF i, j, a, b
    <3>3. SubSeq(SubSeq(Stream, i, j), a, b) = SubSeq(Stream, i + a - 1, i + b - 1)
      BY <1>1, <3>1, SubSeqOfSubSeq
    <3> QED BY <3>1, <3>2, <3>3
  <2>6. p.data \in Seq(AllBytes) /\ Len(p.data) = to - from
    <3>1. from <= to /\ to <= Len(Stream) BY <1>1, <1>2, <2>4
    <3> QED BY <2>4, <2>5, <3>1, StreamSub
  <2>7. Rcv!End(p) = to BY <1>4, <2>4, <2>6 DEF Rcv!End
  <2>8. p \in QueuePackets BY <1>3, <1>4, <2>4, <2>6 DEF QueuePackets
  <2>9. IsPart(p)
    <3>1. Len(p.data) # 0 BY <2>4, <2>6
    <3>2. p.data # <<>> BY <3>1
    <3>3. to <= Len(Stream) BY <1>1, <1>2, <2>4
    <3> QED BY <1>4, <2>5, <2>7, <3>2, <3>3 DEF IsPart
  <2>10. to <= e - Rcv!More(r) + 1
    <3> DEFINE T == e - Rcv!More(r)
    <3>1. T \in Int /\ Rcv!End(m) <= T + 1 BY <1>1 DEF Within, e
    <3> HIDE DEF T
    <3>2. to <= T + 1 BY <1>2, <2>4, <3>1
    <3> QED BY <3>2 DEF T
  <2>11. m.fin => to = Len(Stream)
    <3> SUFFICES ASSUME m.fin PROVE to = Len(Stream)
      OBVIOUS
    <3> DEFINE T == e - Rcv!More(r)
    <3>1. T \in Int /\ Rcv!End(m) <= T /\ T <= e BY <1>1 DEF Within, e
    <3> HIDE DEF T
    <3>2. Rcv!End(m) <= e BY <1>1, <1>2, <3>1
    <3>3. to = Rcv!End(m) BY <1>1, <1>2, <2>3, <3>2
    <3> QED BY <1>2, <3>3
  <2>12. /\ p.ready = FALSE /\ (m.fin => Rcv!End(p) = Len(Stream))
         /\ p \in QueuePackets /\ IsPart(p) /\ at <= p.seq
         /\ Rcv!End(p) <= Edge(r) /\ Rcv!End(p) <= Edge(r) - Rcv!More(r) + 1
    <3> HIDE DEF p
    <3> QED BY <1>4, <2>4, <2>7, <2>8, <2>9, <2>10, <2>11 DEF e
  <2> HIDE DEF at
  <2> QED BY <2>12 DEF at
<1> QED BY <1>5, <1>6

-----------------------------------------------------------------------------
(* A socket that holds and is settled, and has given nothing, is good.      *)
LEMMA GoodStays ==
  ASSUME Rcv!ReceiveAssumption, NEW s \in SocketRecords, NEW k, NEW g,
         s.given = <<>>, Holds(s, k, g), Settled(s, k)
  PROVE  Good(s, g)
<1> DEFINE start == Start(s.receive_queue, k, Finish(s))
<1>1. k \in 0..Len(s.receive_queue) /\ g = SubSeq(Stream, 1, start) BY DEF Holds
<1>2. start \in Nat /\ start <= Len(Stream)
  <2>1. start \in Nat /\ start <= Finish(s) /\ Finish(s) <= Len(Stream) /\ Finish(s) \in Nat
    BY HoldsFacts
  <2>2. Len(Stream) \in Nat BY SocketFacts
  <2> HIDE DEF start
  <2> QED BY <2>1, <2>2
<1> HIDE DEF start
<1>3. g \in Seq(AllBytes)
  <2>1. 0 \in Nat /\ 0 <= start BY <1>2
  <2>2. SubSeq(Stream, 0 + 1, start) \in Seq(AllBytes) BY <1>2, <2>1, StreamSub
  <2> QED BY <1>1, <2>2
<1>4. Join(g, s.given) = g BY <1>3, ConcatEmptySeq DEF Join
<1> QED BY <1>1, <1>4 DEF Good

(* The socket may have queue q in place of its own.                         *)
Queueable(r, k, q) ==
  /\ q \in Seq(QueuePackets) /\ Parts(q) /\ Apart(q) /\ k \in 0..Len(q)
  /\ Split(q, k, Finish(r)) /\ Start(q, k, Finish(r)) = Start(r.receive_queue, k, Finish(r))
  /\ \A i \in 1..Len(q) : Rcv!End(q[i]) <= Edge(r) /\ Rcv!End(q[i]) <= Edge(r) - Rcv!More(r) + 1

(* A segment queued keeps the result good, through what becomes READY, is   *)
(* handed over and is acknowledged.                                         *)
LEMMA PutKeeps ==
  ASSUME Rcv!ReceiveAssumption, NEW r \in SocketRecords, NEW k, NEW g, NEW q,
         Holds(r, k, g), r.given = <<>>, r.state = "ESTABLISHED",
         r.receive_suspension_list # <<>> => k = 0, Queueable(r, k, q)
  PROVE  LET s == Rcv!Queued([r EXCEPT !.receive_queue = q])
         IN Good(s, g) /\ s.state = "ESTABLISHED" /\ Edge(s) >= Edge(r)
<1> DEFINE t == [r EXCEPT !.receive_queue = q]
<1>1. /\ t.state = r.state /\ t.rx_sequence = r.rx_sequence
      /\ t.rx_window_current = r.rx_window_current
      /\ t.rx_window_last_sent = r.rx_window_last_sent
      /\ t.receive_queue = q /\ t.receive_suspension_list = r.receive_suspension_list
      /\ t.fin_received = r.fin_received /\ t.fin_sequence = r.fin_sequence
      /\ t.given = r.given /\ t.over = r.over
  BY DEF SocketRecords
<1>2. t \in SocketRecords BY DEF Queueable, SocketRecords
<1> HIDE DEF t
<1>3. Finish(t) = Finish(r) /\ Edge(t) = Edge(r) /\ Rcv!More(t) = Rcv!More(r)
  BY <1>1 DEF Finish, Edge, Rcv!More
<1>4. Holds(t, k, g) BY <1>1, <1>3, Zenon DEF Holds, Queueable
<1>5. Good(Rcv!Queued(t), g) /\ Rcv!Queued(t).state = "ESTABLISHED" /\ Edge(Rcv!Queued(t)) >= Edge(t)
  BY <1>1, <1>2, <1>4, QueuedKeeps
<1> QED BY <1>3, <1>5 DEF t

(* A packet behind all others goes to the end of the queue.                 *)
LEMMA AppendKeeps ==
  ASSUME Rcv!ReceiveAssumption, NEW q \in Seq(QueuePackets), Parts(q), Apart(q),
         NEW p \in QueuePackets, IsPart(p), ~ p.ready,
         NEW k \in 0..Len(q), NEW last \in Nat, Split(q, k, last), last <= p.seq,
         \A i \in 1..Len(q) : Rcv!End(q[i]) <= p.seq
  PROVE  LET r == Append(q, p)
         IN /\ r \in Seq(QueuePackets) /\ Parts(r) /\ Apart(r)
            /\ k \in 0..Len(r) /\ Split(r, k, last) /\ Start(r, k, last) = Start(q, k, last)
            /\ \A i \in 1..Len(r) : r[i] = p \/ \E j \in 1..Len(q) : r[i] = q[j]
<1> DEFINE n == Len(q)
           r == Append(q, p)
<1>1. /\ n \in Nat /\ k \in Nat /\ k <= n /\ r \in Seq(QueuePackets) /\ Len(r) = n + 1
      /\ \A i \in 1..n : r[i] = q[i]
      /\ r[n + 1] = p
  BY AppendProperties
<1> HIDE DEF r, n
<1>2. \A i \in 1..Len(r) : i \in 1..n \/ i = n + 1 BY <1>1
<1>3. Parts(r) BY <1>1, <1>2 DEF Parts, n
<1>4. Apart(r)
  <2> SUFFICES ASSUME NEW i \in 1..Len(r), NEW j \in 1..Len(r), i < j PROVE Rcv!End(r[i]) <= r[j].seq
    BY DEF Apart
  <2>1. i \in 1..n BY <1>1
  <2>2. CASE j \in 1..n
    <3>1. Rcv!End(q[i]) <= q[j].seq BY <2>1, <2>2 DEF Apart, n
    <3> QED BY <1>1, <2>1, <2>2, <3>1
  <2>3. CASE j = n + 1
    <3>1. Rcv!End(q[i]) <= p.seq BY <2>1 DEF n
    <3> QED BY <1>1, <2>1, <2>3, <3>1
  <2> QED BY <1>2, <2>2, <2>3
<1>5. Split(r, k, last)
  <2>1. \A i \in 1..Len(r) : r[i].ready <=> i <= k
    <3> SUFFICES ASSUME NEW i \in 1..Len(r) PROVE r[i].ready <=> i <= k
      OBVIOUS
    <3>1. CASE i \in 1..n
      <4>1. q[i].ready <=> i <= k BY <3>1 DEF Split, n
      <4> QED BY <1>1, <3>1, <4>1
    <3>2. CASE i = n + 1 BY <1>1, <3>2
    <3> QED BY <1>2, <3>1, <3>2
  <2>2. \A i \in 1..k - 1 : Rcv!End(r[i]) = r[i + 1].seq
    <3> SUFFICES ASSUME NEW i \in 1..k - 1 PROVE Rcv!End(r[i]) = r[i + 1].seq
      OBVIOUS
    <3>1. i \in 1..n /\ i + 1 \in 1..n BY <1>1
    <3>2. Rcv!End(q[i]) = q[i + 1].seq BY DEF Split
    <3> QED BY <1>1, <3>1, <3>2
  <2>3. k > 0 => Rcv!End(r[k]) = last
    <3> SUFFICES ASSUME k > 0 PROVE Rcv!End(r[k]) = last
      OBVIOUS
    <3>1. k \in 1..n BY <1>1
    <3> QED BY <1>1, <3>1 DEF Split
  <2>4. \A i \in k + 1..Len(r) : last <= r[i].seq
    <3> SUFFICES ASSUME NEW i \in k + 1..Len(r) PROVE last <= r[i].seq
      OBVIOUS
    <3>1. CASE i = n + 1 BY <1>1, <3>1
    <3>2. CASE i # n + 1
      <4>1. i \in 1..n /\ i \in k + 1..n BY <1>1, <3>2
      <4>2. last <= q[i].seq BY <4>1 DEF Split, n
      <4> QED BY <1>1, <4>1, <4>2
    <3> QED BY <3>1, <3>2
  <2> QED BY <2>1, <2>2, <2>3, <2>4 DEF Split
<1>6. Start(r, k, last) = Start(q, k, last)
  <2>1. CASE k = 0 BY <2>1 DEF Start
  <2>2. CASE k # 0
    <3>1. 1 \in 1..n BY <1>1, <2>2
    <3> QED BY <1>1, <2>2, <3>1 DEF Start
  <2> QED BY <2>1, <2>2
<1>7. k \in 0..Len(r) BY <1>1
<1>8. \A i \in 1..Len(r) : r[i] = p \/ \E j \in 1..n : r[i] = q[j] BY <1>1, <1>2
<1> QED BY <1>1, <1>3, <1>4, <1>5, <1>6, <1>7, <1>8 DEF r, n

(* The number of the FIN is noted.                                          *)
Noted(r, m) ==
  IF m.fin THEN [r EXCEPT !.fin_received = TRUE, !.fin_sequence = Rcv!End(Rcv!Trim(r, m))] ELSE r
(* A FIN noted changes nothing but where the stream ends.                   *)
LEMMA NotedKeeps ==
  ASSUME Rcv!ReceiveAssumption, NEW r \in SocketRecords, NEW m, NEW k, NEW g,
         m.fin => Rcv!End(Rcv!Trim(r, m)) = Len(Stream), Holds(r, k, g), Settled(r, k)
  PROVE  LET f == Noted(r, m)
         IN /\ f \in SocketRecords /\ f.state = r.state /\ f.given = r.given
            /\ f.receive_queue = r.receive_queue /\ f.rx_sequence = r.rx_sequence
            /\ f.receive_suspension_list = r.receive_suspension_list
            /\ Holds(f, k, g) /\ Settled(f, k) /\ Finish(f) = Finish(r)
            /\ Edge(f) = Edge(r) /\ Rcv!More(f) = Rcv!More(r)
<1>1. CASE ~ m.fin BY <1>1 DEF Noted
<1>2. CASE m.fin
  <2> DEFINE f == [r EXCEPT !.fin_received = TRUE, !.fin_sequence = Len(Stream)]
  <2>1. Noted(r, m) = f BY <1>2 DEF Noted
  <2>2. Len(Stream) \in Nat BY SocketFacts
  <2>3. /\ f.state = r.state /\ f.rx_sequence = r.rx_sequence
        /\ f.rx_window_current = r.rx_window_current
        /\ f.rx_window_last_sent = r.rx_window_last_sent
        /\ f.receive_queue = r.receive_queue
        /\ f.receive_suspension_list = r.receive_suspension_list
        /\ f.fin_sequence = Len(Stream) /\ f.given = r.given /\ f.over = r.over
    BY DEF SocketRecords
  <2>4. f \in SocketRecords BY <2>2 DEF SocketRecords
  <2> HIDE DEF f
  <2>5. Finish(f) = Finish(r) /\ Edge(f) = Edge(r) /\ Rcv!More(f) = Rcv!More(r)
    BY <2>3 DEF Finish, Edge, Rcv!More
  <2>6. Holds(f, k, g) BY <2>3, <2>5, Zenon DEF Holds
  <2>7. Settled(f, k) BY <2>3, <2>5 DEF Settled, Gap
  <2> QED BY <2>1, <2>3, <2>4, <2>5, <2>6, <2>7
<1> QED BY <1>1, <1>2

(* What may be queued when the peer was told as much or less may be after   *)
(* an acknowledgment, too.                                                  *)
LEMMA StillQueueable ==
  ASSUME Rcv!ReceiveAssumption, NEW r \in SocketRecords, NEW s \in SocketRecords, NEW k, NEW q,
         Queueable(r, k, q), Finish(s) = Finish(r), Edge(s) = Edge(r),
         s.receive_queue = r.receive_queue, Rcv!More(s) <= Rcv!More(r)
  PROVE  Queueable(s, k, q)
<1>1. /\ Edge(r) \in Nat /\ Rcv!More(r) \in Nat /\ Rcv!More(s) \in Nat
  BY SocketFacts, MoreIs DEF Edge
<1>2. q \in Seq(QueuePackets) /\ Parts(q) BY DEF Queueable
<1>3. \A i \in 1..Len(q) : Rcv!End(q[i]) \in Nat BY <1>2, QueueFacts
<1>4. ASSUME NEW i \in 1..Len(q) PROVE Rcv!End(q[i]) <= Edge(s) - Rcv!More(s) + 1
  <2> DEFINE a == Edge(r)
             b == Rcv!More(r)
             c == Rcv!More(s)
             d == Rcv!End(q[i])
  <2>1. a \in Nat /\ b \in Nat /\ c \in Nat /\ c <= b /\ d \in Nat /\ d <= a - b + 1
    BY <1>1, <1>3 DEF Queueable
  <2> HIDE DEF a, b, c, d
  <2>2. d <= a - c + 1 BY <2>1
  <2> QED BY <2>2 DEF a, c, d
<1> QED BY <1>4 DEF Queueable

(* What DataCheck queues behind what there is, or in its place among it.    *)
LEMMA TrimmedGoes ==
  ASSUME Rcv!ReceiveAssumption, NEW r \in SocketRecords, NEW k, NEW g, Holds(r, k, g),
         r.state = "ESTABLISHED", NEW p \in QueuePackets, IsPart(p), ~ p.ready,
         r.rx_sequence <= p.seq, Rcv!End(p) <= Edge(r), Rcv!End(p) <= Edge(r) - Rcv!More(r) + 1
  PROVE  LET q == r.receive_queue
         IN /\ q = <<>> \/ Rcv!End(Rcv!Last(q)) <= p.seq => Queueable(r, k, Append(q, p))
            /\ ~ Rcv!Held(q, p) => Queueable(r, k, Rcv!Insert(q, p))
<1> DEFINE q == r.receive_queue
           last == Finish(r)
           lim == Edge(r) - Rcv!More(r) + 1
<1>1. /\ q \in Seq(QueuePackets) /\ Len(q) \in Nat /\ Parts(q) /\ Apart(q)
      /\ k \in 0..Len(q) /\ last \in Nat /\ Split(q, k, last) /\ r.rx_sequence = last
      /\ Edge(r) \in Nat /\ Rcv!More(r) \in Nat
      /\ \A i \in 1..Len(q) : Rcv!End(q[i]) <= Edge(r) /\ Rcv!End(q[i]) <= lim
  BY HoldsFacts
<1>2. \A i \in 1..Len(q) : q[i].seq \in Nat /\ Rcv!End(q[i]) \in Nat /\ q[i].seq < Rcv!End(q[i])
  BY <1>1, QueueFacts
<1>3. p.seq \in Nat /\ Rcv!End(p) \in Nat BY PartFacts
<1>4. lim \in Int /\ last <= p.seq /\ Rcv!End(p) <= lim BY <1>1
<1> HIDE DEF lim, last, q
<1>5. ASSUME q = <<>> \/ Rcv!End(Rcv!Last(q)) <= p.seq PROVE Queueable(r, k, Append(q, p))
  <2>1. \A i \in 1..Len(q) : Rcv!End(q[i]) <= p.seq
    <3> SUFFICES ASSUME NEW i \in 1..Len(q) PROVE Rcv!End(q[i]) <= p.seq
      OBVIOUS
    <3>1. q # <<>> BY <1>1
    <3>2. Rcv!End(q[Len(q)]) <= p.seq BY <1>5, <3>1 DEF Rcv!Last
    <3>3. CASE i = Len(q) BY <3>2, <3>3
    <3>4. CASE i # Len(q)
      <4>1. i < Len(q) /\ Len(q) \in 1..Len(q) BY <1>1, <3>4
      <4>2. Rcv!End(q[i]) <= q[Len(q)].seq BY <1>1, <4>1 DEF Apart
      <4> QED BY <1>2, <1>3, <3>2, <4>1, <4>2
    <3> QED BY <3>3, <3>4
  <2> DEFINE t == Append(q, p)
  <2>2. /\ t \in Seq(QueuePackets) /\ Parts(t) /\ Apart(t)
        /\ k \in 0..Len(t) /\ Split(t, k, last) /\ Start(t, k, last) = Start(q, k, last)
        /\ \A i \in 1..Len(t) : t[i] = p \/ \E j \in 1..Len(q) : t[i] = q[j]
    BY <1>1, <1>4, <2>1, AppendKeeps
  <2> HIDE DEF t
  <2>3. \A i \in 1..Len(t) : Rcv!End(t[i]) <= Edge(r) /\ Rcv!End(t[i]) <= lim
    BY <1>1, <1>4, <2>2
  <2> QED BY <2>2, <2>3 DEF Queueable, t, lim, last, q
<1>6. ASSUME ~ Rcv!Held(q, p) PROVE Queueable(r, k, Rcv!Insert(q, p))
  <2> DEFINE t == Rcv!Insert(q, p)
  <2>1. /\ t \in Seq(QueuePackets) /\ Parts(t) /\ Apart(t)
        /\ k \in 0..Len(t) /\ Split(t, k, last) /\ Start(t, k, last) = Start(q, k, last)
        /\ \A i \in 1..Len(t) : Rcv!End(t[i]) <= Rcv!End(p) \/ \E j \in 1..Len(q) : Rcv!End(t[i]) <= Rcv!End(q[j])
    BY <1>1, <1>4, <1>6, InsertKeeps
  <2> HIDE DEF t
  <2>2. \A i \in 1..Len(t) : Rcv!End(t[i]) \in Nat BY <2>1, QueueFacts
  <2>3. ASSUME NEW i \in 1..Len(t) PROVE Rcv!End(t[i]) <= Edge(r) /\ Rcv!End(t[i]) <= lim
    <3>1. CASE Rcv!End(t[i]) <= Rcv!End(p) BY <1>1, <1>3, <1>4, <2>2, <3>1
    <3>2. CASE \E j \in 1..Len(q) : Rcv!End(t[i]) <= Rcv!End(q[j])
      <4>1. PICK j \in 1..Len(q) : Rcv!End(t[i]) <= Rcv!End(q[j]) BY <3>2
      <4> QED BY SMTT(20), <1>1, <1>2, <1>4, <2>2, <4>1
    <3> QED BY <2>1, <3>1, <3>2
  <2> QED BY <2>1, <2>3 DEF Queueable, t, lim, last, q
<1> QED BY <1>5, <1>6 DEF q

(* _nx_tcp_socket_state_data_check, in any case of it.                      *)
LEMMA DataCheckKeeps ==
  ASSUME Rcv!ReceiveAssumption, NEW r \in SocketRecords, NEW m, NEW k, NEW g,
         IsSegment(m), Within(r, m), Rcv!Acceptable(r, m),
         r.given = <<>>, r.state = "ESTABLISHED", Holds(r, k, g), Settled(r, k)
  PROVE  LET s == Rcv!DataCheck(r, m)
         IN Good(s, g) /\ s.state = "ESTABLISHED" /\ Edge(s) >= Edge(r)
<1> DEFINE p == Rcv!Trim(r, m)
           q == r.receive_queue
           ends == IF q = <<>> THEN r.rx_sequence ELSE Rcv!End(Rcv!Last(q))
           f == Noted(r, m)
           ahead == Rcv!SendAckIf(p.seq > r.rx_sequence, f)
           s == Rcv!DataCheck(r, m)
           Put(h, packets) == Rcv!Queued([h EXCEPT !.receive_queue = packets])
           Fine(t) == /\ t \in SocketRecords /\ t.state = "ESTABLISHED" /\ t.given = <<>>
                      /\ Holds(t, k, g) /\ Settled(t, k) /\ Edge(t) = Edge(r)
                      /\ t.receive_queue = q /\ Finish(t) = Finish(r) /\ Rcv!More(t) <= Rcv!More(r)
           Done(t) == Good(t, g) /\ t.state = "ESTABLISHED" /\ Edge(t) >= Edge(r)
<1>1. /\ p.ready = FALSE /\ (m.fin => Rcv!End(p) = Len(Stream))
      /\ p.data # <<>> =>
           /\ p \in QueuePackets /\ IsPart(p) /\ r.rx_sequence <= p.seq
           /\ Rcv!End(p) <= Edge(r) /\ Rcv!End(p) <= Edge(r) - Rcv!More(r) + 1
  BY TrimIs
<1>2. Edge(r) \in Nat /\ Rcv!More(r) \in Nat BY SocketFacts, MoreIs DEF Edge
<1>3. Fine(f)
  <2>1. /\ f \in SocketRecords /\ f.state = r.state /\ f.given = r.given
        /\ f.receive_queue = r.receive_queue
        /\ Holds(f, k, g) /\ Settled(f, k) /\ Finish(f) = Finish(r)
        /\ Edge(f) = Edge(r) /\ Rcv!More(f) = Rcv!More(r)
    BY <1>1, NotedKeeps
  <2> HIDE DEF f
  <2> QED BY <1>2, <2>1
<1>4. ASSUME NEW t, Fine(t), NEW c PROVE Fine(Rcv!SendAckIf(c, t))
  <2> DEFINE u == Rcv!SendAckIf(c, t)
  <2>1. /\ u \in SocketRecords /\ u.state = t.state /\ u.given = t.given
        /\ u.receive_queue = t.receive_queue /\ u.rx_sequence = t.rx_sequence
        /\ Rcv!More(u) <= Rcv!More(t) /\ Holds(u, k, g) /\ Settled(u, k) /\ Edge(u) = Edge(t)
    BY <1>4, AckKeeps
  <2> HIDE DEF u
  <2>2. Rcv!More(u) \in Nat /\ Rcv!More(t) \in Nat BY <1>4, <2>1, MoreIs
  <2>3. Finish(u) = Finish(t) BY <2>1 DEF Finish
  <2>4. Rcv!More(u) <= Rcv!More(r) BY <1>2, <1>4, <2>1, <2>2
  <2>5. Fine(u) BY <1>4, <2>1, <2>3, <2>4
  <2> QED BY <2>5 DEF u
<1>5. ASSUME NEW t, Fine(t) PROVE Done(t)
  <2>1. Good(t, g) BY <1>5, GoodStays
  <2> QED BY <1>2, <1>5, <2>1
<1>6. ASSUME NEW t, Fine(t), NEW packets, Queueable(r, k, packets) PROVE Done(Put(t, packets))
  <2>1. Queueable(t, k, packets) BY <1>6, StillQueueable
  <2>2. t.receive_suspension_list # <<>> => k = 0 BY <1>6 DEF Settled
  <2> DEFINE u == Put(t, packets)
  <2>3. Good(u, g) /\ u.state = "ESTABLISHED" /\ Edge(u) >= Edge(t)
    BY <1>6, <2>1, <2>2, PutKeeps
  <2> HIDE DEF u
  <2>4. Edge(u) >= Edge(r) BY <1>6, <2>3
  <2>5. Done(u) BY <2>3, <2>4
  <2> QED BY <2>5 DEF u
<1>7. /\ Rcv!SendAck(f) = Rcv!SendAckIf(TRUE, f) /\ Rcv!SendAck(ahead) = Rcv!SendAckIf(TRUE, ahead)
  BY DEF Rcv!SendAckIf
<1>8. Fine(ahead) /\ Fine(Rcv!SendAck(f)) /\ Fine(Rcv!SendAck(ahead))
  <2> HIDE DEF Fine, f
  <2>1. Fine(ahead) BY <1>3, <1>4
  <2> HIDE DEF ahead
  <2> QED BY <1>3, <1>4, <1>7, <2>1
<1>9. s = IF p.data = <<>>
            THEN Rcv!SendAckIf(q = <<>> /\ p.seq \notin {r.rx_sequence, r.rx_sequence - 1}, f)
          ELSE IF p.seq = r.rx_sequence /\ ends = r.rx_sequence THEN Put(f, Append(q, p))
          ELSE IF q = <<>> THEN Put(Rcv!SendAck(f), <<p>>)
          ELSE IF Rcv!Held(q, p) THEN Rcv!SendAck(ahead)
          ELSE Put(ahead, Rcv!Insert(q, p))
  BY DEF Rcv!DataCheck, Noted
<1>10. p.data # <<>> =>
         /\ q = <<>> \/ Rcv!End(Rcv!Last(q)) <= p.seq => Queueable(r, k, Append(q, p))
         /\ ~ Rcv!Held(q, p) => Queueable(r, k, Rcv!Insert(q, p))
  BY <1>1, TrimmedGoes
<1>11. r.rx_sequence \in Nat BY SocketFacts
<1>12. q = <<>> => Append(q, p) = <<p>> OBVIOUS
<1> HIDE DEF p, q, f, ahead, s, Put, Fine, Done
<1>13. CASE p.data = <<>>
  <2> DEFINE c == q = <<>> /\ p.seq \notin {r.rx_sequence, r.rx_sequence - 1}
  <2>1. s = Rcv!SendAckIf(c, f) BY <1>9, <1>13
  <2> HIDE DEF c
  <2>2. Fine(s) BY <1>3, <1>4, <2>1
  <2> QED BY <1>5, <2>2 DEF Done, s
<1>14. CASE p.data # <<>> /\ p.seq = r.rx_sequence /\ ends = r.rx_sequence
  <2>1. s = Put(f, Append(q, p)) BY <1>9, <1>14
  <2>2. q = <<>> \/ Rcv!End(Rcv!Last(q)) <= p.seq BY <1>11, <1>14
  <2>3. Queueable(r, k, Append(q, p)) BY <1>10, <1>14, <2>2
  <2>4. Done(s) BY <1>3, <1>6, <2>1, <2>3
  <2> QED BY <2>4 DEF Done, s
<1>15. CASE p.data # <<>> /\ ~ (p.seq = r.rx_sequence /\ ends = r.rx_sequence)
  <2> HIDE DEF ends
  <2>1. CASE q = <<>>
    <3>1. s = Put(Rcv!SendAck(f), <<p>>) BY <1>9, <1>15, <2>1
    <3>2. Queueable(r, k, <<p>>) BY <1>10, <1>12, <1>15, <2>1
    <3>3. Done(s) BY <1>6, <1>8, <3>1, <3>2
    <3> QED BY <3>3 DEF Done, s
  <2>2. CASE q # <<>> /\ Rcv!Held(q, p)
    <3>1. s = Rcv!SendAck(ahead) BY <1>9, <1>15, <2>2
    <3>2. Fine(s) BY <1>8, <3>1
    <3> QED BY <1>5, <3>2 DEF Done, s
  <2>3. CASE q # <<>> /\ ~ Rcv!Held(q, p)
    <3>1. s = Put(ahead, Rcv!Insert(q, p)) BY <1>9, <1>15, <2>3
    <3>2. Queueable(r, k, Rcv!Insert(q, p)) BY <1>10, <1>15, <2>3
    <3>3. Done(s) BY <1>6, <1>8, <3>1, <3>2
    <3> QED BY <3>3 DEF Done, s
  <2> QED BY <2>1, <2>2, <2>3
<1> QED BY <1>13, <1>14, <1>15

(* _nx_tcp_socket_state_established: at the FIN nothing is left unread that *)
(* a wait could be for, and it is beyond the window's edge by one.          *)
LEMMA EstablishedKeeps ==
  ASSUME Rcv!ReceiveAssumption, NEW r, NEW g, Good(r, g), r.state = "ESTABLISHED"
  PROVE  LET s == Rcv!Established(r)
         IN Good(s, g) /\ Edge(s) >= Edge(r)
<1> DEFINE s == Rcv!Established(r)
           q == r.receive_queue
           w == r.receive_suspension_list
<1>1. r \in SocketRecords BY DEF Good
<1>2. PICK k \in 0..Len(q) : Holds(r, k, Join(g, r.given)) /\ Settled(r, k) BY DEF Good
<1>3. /\ q \in Seq(QueuePackets) /\ Len(q) \in Nat /\ Parts(q) /\ Apart(q) /\ k \in 0..Len(q)
      /\ Finish(r) = r.rx_sequence /\ r.rx_sequence \in Nat /\ Edge(r) \in Nat
      /\ Split(q, k, r.rx_sequence) /\ Len(Stream) \in Nat /\ Rcv!More(r) \in Nat
      /\ \A i \in 1..Len(q) : Rcv!End(q[i]) <= Edge(r) /\ Rcv!End(q[i]) <= Edge(r) - Rcv!More(r) + 1
  BY <1>1, <1>2, HoldsFacts, SocketFacts
<1>4. CASE ~ (r.fin_received /\ r.fin_sequence = r.rx_sequence)
  <2>1. s = r BY <1>4 DEF Rcv!Established
  <2> QED BY <1>3, <2>1
<1>5. CASE r.fin_received /\ r.fin_sequence = r.rx_sequence
  <2> DEFINE waits == w # <<>>
             t == [r EXCEPT !.state = "CLOSE_WAIT", !.rx_sequence = @ + 1,
                            !.receive_suspension_list = <<>>, !.over = waits]
  <2>1. s = Rcv!SendAckIf(TRUE, t) BY <1>5 DEF Rcv!Established, Rcv!SendAckIf
  <2>12. waits \in BOOLEAN OBVIOUS
  <2> HIDE DEF waits
  <2>2. /\ t.state = "CLOSE_WAIT" /\ t.rx_sequence = r.rx_sequence + 1
        /\ t.rx_window_current = r.rx_window_current
        /\ t.rx_window_last_sent = r.rx_window_last_sent
        /\ t.receive_queue = q /\ t.receive_suspension_list = <<>>
        /\ t.fin_received = r.fin_received /\ t.fin_sequence = r.fin_sequence
        /\ t.given = r.given /\ t.over = waits
    BY <1>1 DEF SocketRecords
  <2>3. t \in SocketRecords
    <3>1. r.rx_sequence + 1 \in Nat /\ <<>> \in Seq(Readers) BY <1>3, EmptySeq
    <3> QED BY <1>1, <2>12, <3>1 DEF SocketRecords
  <2> HIDE DEF t
  <2>4. r.rx_sequence = Len(Stream) BY <1>2, <1>5 DEF Holds
  <2>5. /\ Finish(t) = Finish(r) /\ Edge(t) = Edge(r) + 1 /\ Rcv!More(t) = Rcv!More(r)
    <3>1. Rcv!More(t) = Rcv!More(r) BY <2>2 DEF Rcv!More
    <3>2. r.rx_window_current \in Nat BY <1>1, SocketFacts
    <3>3. Finish(t) = Finish(r)
      <4>1. Finish(t) = (r.rx_sequence + 1) - 1 BY <2>2 DEF Finish
      <4>2. Finish(r) = r.rx_sequence BY <1>3
      <4>3. (r.rx_sequence + 1) - 1 = r.rx_sequence BY <1>3
      <4> QED BY <4>1, <4>2, <4>3
    <3>4. Edge(t) = Edge(r) + 1
      <4>1. Edge(t) = (r.rx_sequence + 1) + r.rx_window_current BY <2>2 DEF Edge
      <4>2. Edge(r) = r.rx_sequence + r.rx_window_current BY DEF Edge
      <4> QED BY <1>3, <3>2, <4>1, <4>2
    <3> QED BY <3>1, <3>3, <3>4
  <2>6. w # <<>> => q = <<>>
    <3> SUFFICES ASSUME w # <<>>, q # <<>> PROVE FALSE
      OBVIOUS
    <3>1. k = 0 BY <1>2 DEF Settled
    <3>2. Len(q) # 0 BY <1>3, EmptySeq
    <3>3. 1 \in k + 1..Len(q) /\ 1 \in 1..Len(q) BY <1>3, <3>1, <3>2
    <3>4. r.rx_sequence < q[1].seq BY <1>2, <1>3, <3>3 DEF Settled, Gap
    <3>5. q[1].seq < Rcv!End(q[1]) /\ Rcv!End(q[1]) <= Len(Stream) /\ q[1].seq \in Nat /\ Rcv!End(q[1]) \in Nat
      BY <1>3, <3>3, QueueFacts
    <3> QED BY <1>3, <2>4, <3>4, <3>5
  <2>7. \A i \in 1..Len(q) : Rcv!End(q[i]) <= Edge(t) /\ Rcv!End(q[i]) <= Edge(t) - Rcv!More(t) + 1
    <3> SUFFICES ASSUME NEW i \in 1..Len(q)
        PROVE Rcv!End(q[i]) <= Edge(t) /\ Rcv!End(q[i]) <= Edge(t) - Rcv!More(t) + 1
      OBVIOUS
    <3> DEFINE a == Edge(r)
               b == Rcv!More(r)
               d == Rcv!End(q[i])
    <3>1. a \in Nat /\ b \in Nat /\ d \in Nat /\ d <= a /\ d <= a - b + 1
      BY <1>3, QueueFacts
    <3> HIDE DEF a, b, d
    <3>2. d <= a + 1 /\ d <= (a + 1) - b + 1 BY <3>1
    <3> QED BY <2>5, <3>2 DEF a, b, d
  <2>8. Holds(t, k, Join(g, t.given))
    <3>1. /\ k \in 0..Len(q) /\ Parts(q) /\ Apart(q) /\ Split(q, k, Finish(t))
          /\ Finish(t) <= Len(Stream)
          /\ Join(g, t.given) = SubSeq(Stream, 1, Start(q, k, Finish(t)))
          /\ t.rx_window_current + Finish(t) - Start(q, k, Finish(t)) = WindowDefault
          /\ Rcv!More(t) <= t.rx_window_current + 1
          /\ t.fin_received => t.fin_sequence = Len(Stream)
      BY <1>2, <2>2, <2>5 DEF Holds
    <3>2. Finish(t) = Len(Stream) BY <1>3, <2>4, <2>5
    <3>3. t.over => t.state = "CLOSE_WAIT" /\ q = <<>> BY <2>2, <2>6 DEF waits
    <3> QED BY <2>2, <2>7, <3>1, <3>2, <3>3, Zenon DEF Holds
  <2>9. Settled(t, k)
    <3>1. Gap(t, k) BY <1>2, <2>2, <2>5 DEF Settled, Gap
    <3> QED BY <2>2, <3>1 DEF Settled
  <2>10. Good(t, g) BY <1>3, <2>2, <2>3, <2>8, <2>9 DEF Good
  <2>11. Good(s, g) /\ Edge(s) = Edge(t) BY <2>1, <2>10, GoodAck
  <2> QED BY <1>3, <2>5, <2>11
<1> QED BY <1>4, <1>5

(* A segment arrives.                                                       *)
LEMMA ProcessKeeps ==
  ASSUME Rcv!ReceiveAssumption, NEW r \in SocketRecords, NEW m, NEW k, NEW g,
         IsSegment(m), Within(r, m), r.given = <<>>, Holds(r, k, g), Settled(r, k)
  PROVE  LET s == Rcv!Process(r, m) IN Good(s, g) /\ Edge(s) >= Edge(r)
<1> DEFINE s == Rcv!Process(r, m)
<1>1. Good(r, g) BY GoodStays
<1>2. Edge(r) \in Nat BY SocketFacts DEF Edge
<1>3. CASE ~ Rcv!Acceptable(r, m)
  <2>1. s = Rcv!SendAckIf(TRUE, r) BY <1>3 DEF Rcv!Process, Rcv!SendAckIf
  <2>2. Good(Rcv!SendAckIf(TRUE, r), g) /\ Edge(Rcv!SendAckIf(TRUE, r)) = Edge(r) BY <1>1, GoodAck
  <2> HIDE DEF s
  <2>3. Good(s, g) /\ Edge(s) = Edge(r) BY <2>1, <2>2, Zenon
  <2>4. Edge(s) >= Edge(r) BY <1>2, <2>3
  <2> QED BY <2>3, <2>4 DEF s
<1>4. CASE Rcv!Acceptable(r, m) /\ r.state = "ESTABLISHED"
  <2> DEFINE d == Rcv!DataCheck(r, m)
  <2>1. s = Rcv!Established(d) BY <1>4 DEF Rcv!Process
  <2>2. Good(d, g) /\ d.state = "ESTABLISHED" /\ Edge(d) >= Edge(r) BY <1>4, DataCheckKeeps
  <2> HIDE DEF d
  <2>3. Good(s, g) /\ Edge(s) >= Edge(d) BY <2>1, <2>2, EstablishedKeeps
  <2>4. d \in SocketRecords /\ s \in SocketRecords BY <2>2, <2>3 DEF Good
  <2>5. Edge(d) \in Nat /\ Edge(s) \in Nat
    <3> HIDE DEF s
    <3> QED BY SMTT(20), <2>4, SocketFacts DEF Edge
  <2> QED BY <1>2, <2>2, <2>3, <2>5
<1>5. CASE Rcv!Acceptable(r, m) /\ r.state # "ESTABLISHED"
  <2>1. s = r BY <1>5 DEF Rcv!Process
  <2> QED BY <1>1, <1>2, <2>1
<1> QED BY <1>3, <1>4, <1>5

-----------------------------------------------------------------------------
(* _nx_tcp_socket_receive, when a packet at the head is READY.              *)
LEMMA TakeKeeps ==
  ASSUME Rcv!ReceiveAssumption, NEW r \in SocketRecords, NEW k, NEW g,
         r.given = <<>>, Holds(r, k, g), Settled(r, k),
         r.receive_queue # <<>>, r.receive_queue[1].ready
  PROVE  LET s == Rcv!Take(r) IN Good(s, g) /\ Edge(s) >= Edge(r)
<1> DEFINE q == r.receive_queue
           last == Finish(r)
           front == SubSeq(q, 1, 1)
           rest == Tail(q)
           s == Rcv!Take(r)
           j == k - 1
<1>1. /\ q \in Seq(QueuePackets) /\ Len(q) \in Nat /\ Parts(q) /\ Apart(q) /\ k \in 0..Len(q)
      /\ last \in Nat /\ Split(q, k, last) /\ last <= Len(Stream)
      /\ r.rx_window_current + last - Start(q, k, last) = WindowDefault
      /\ r.rx_window_current \in Nat /\ WindowDefault \in Nat
  BY HoldsFacts, SocketFacts
<1>2. Len(q) > 0 /\ 1 \in 1..Len(q) /\ k > 0 /\ 1 \in 0..k
  <2>1. Len(q) # 0 BY <1>1, EmptySeq
  <2>2. 1 \in 1..Len(q) BY <1>1, <2>1
  <2>3. 1 <= k BY <2>2, <1>1 DEF Split
  <2> QED BY <1>1, <2>2, <2>3
<1>3. /\ rest = SubSeq(q, 2, Len(q)) /\ rest = SubSeq(q, 1 + 1, Len(q))
  BY <1>1, TailIsSubSeq
<1>4. Rcv!Bytes(front) = q[1].data /\ Rcv!Count(front) = Len(q[1].data) /\ q[1].data \in Seq(AllBytes)
  <2>1. q[1] \in QueuePackets /\ IsPart(q[1]) /\ Rcv!End(q[1]) <= Len(Stream)
    BY <1>1, <1>2, QueueFacts
  <2>2. /\ q[1].seq \in Nat /\ Rcv!End(q[1]) \in Nat /\ q[1].seq < Rcv!End(q[1])
        /\ q[1].data = SubSeq(Stream, q[1].seq + 1, Rcv!End(q[1])) /\ q[1].data \in Seq(AllBytes)
        /\ Len(q[1].data) = Rcv!End(q[1]) - q[1].seq
    BY <2>1, PartFacts
  <2>3. front \in Seq(QueuePackets) /\ Len(front) = 1 /\ front[1] = q[1]
    <3>1. 1 \in Int /\ \A i \in 1..1 : q[i] \in QueuePackets BY <2>1
    <3>2. /\ front \in Seq(QueuePackets) /\ Len(front) = IF 1 <= 1 THEN 1 - 1 + 1 ELSE 0
          /\ \A i \in 1..1 - 1 + 1 : front[i] = q[1 + i - 1]
      BY <3>1, SubSeqProperties
    <3>3. 1 \in 1..1 - 1 + 1 /\ 1 + 1 - 1 = 1 OBVIOUS
    <3> QED BY <3>2, <3>3
  <2> HIDE DEF front
  <2>4. Parts(front) BY <2>1, <2>3 DEF Parts
  <2>5. Apart(front) BY <2>3 DEF Apart
  <2>6. front # <<>>
    <3>1. Len(front) # 0 BY <2>3
    <3> QED BY <3>1
  <2>7. \A i \in 1..Len(front) - 1 : Rcv!End(front[i]) = front[i + 1].seq BY <2>3
  <2>8. /\ Rcv!Bytes(front) = SubSeq(Stream, front[1].seq + 1, Rcv!End(front[Len(front)]))
        /\ Rcv!Count(front) = Rcv!End(front[Len(front)]) - front[1].seq
    BY <2>3, <2>4, <2>5, <2>6, <2>7, BytesAre
  <2> QED BY <2>2, <2>3, <2>8
<1> HIDE DEF front
<1>5. (IF rest = <<>> THEN WindowDefault ELSE r.rx_window_current + Len(q[1].data))
        = r.rx_window_current + Rcv!Count(front)
  <2>1. CASE rest # <<>> BY <1>4, <2>1
  <2>2. CASE rest = <<>>
    <3>1. Len(rest) = Len(q) - 1 BY <1>1, HeadTailProperties
    <3>8. Len(rest) = 0
      <4> HIDE DEF rest
      <4> QED BY <2>2
    <3>2. Len(q) = 1 /\ k = 1
      <4> HIDE DEF rest, q
      <4>1. Len(q) \in Nat /\ Len(q) - 1 = 0 BY <1>1, <3>1, <3>8
      <4>2. Len(q) = 1 BY <4>1
      <4>3. k \in 0..1 /\ k > 0 BY <1>1, <1>2, <4>2
      <4> QED BY <4>2, <4>3
    <3>3. Rcv!End(q[1]) = last BY <1>1, <3>2 DEF Split
    <3>4. Start(q, k, last) = q[1].seq BY <3>2 DEF Start
    <3>5. q[1] \in QueuePackets /\ IsPart(q[1]) BY <1>1, <1>2, QueueFacts
    <3>6. Len(q[1].data) = last - q[1].seq /\ q[1].seq \in Nat BY <3>3, <3>5, PartFacts
    <3> HIDE DEF rest, last
    <3>7. r.rx_window_current + Rcv!Count(front) = WindowDefault BY <1>1, <1>4, <3>4, <3>6
    <3> QED BY <2>2, <3>7
  <2> QED BY <2>1, <2>2
<1>6. s = [r EXCEPT !.receive_queue = rest, !.given = q[1].data,
                    !.rx_window_current = IF rest = <<>> THEN WindowDefault
                                          ELSE @ + Len(q[1].data)]
  BY DEF Rcv!Take
<1> HIDE DEF s, rest, j
<1>7. /\ s.state = r.state /\ s.rx_sequence = r.rx_sequence
      /\ s.rx_window_current = r.rx_window_current + Rcv!Count(front)
      /\ s.rx_window_last_sent = r.rx_window_last_sent
      /\ s.receive_queue = rest
      /\ s.receive_suspension_list = r.receive_suspension_list
      /\ s.fin_received = r.fin_received /\ s.fin_sequence = r.fin_sequence /\ s.over = r.over
      /\ s.given = q[1].data
  <2>1. s.rx_window_current
          = IF rest = <<>> THEN WindowDefault ELSE r.rx_window_current + Len(q[1].data)
    BY <1>6 DEF SocketRecords
  <2>2. /\ s.state = r.state /\ s.rx_sequence = r.rx_sequence
        /\ s.rx_window_last_sent = r.rx_window_last_sent
        /\ s.receive_queue = rest
        /\ s.receive_suspension_list = r.receive_suspension_list
        /\ s.fin_received = r.fin_received /\ s.fin_sequence = r.fin_sequence /\ s.over = r.over
        /\ s.given = q[1].data
    BY <1>6 DEF SocketRecords
  <2> QED BY <1>5, <2>1, <2>2
<1>8. /\ s.receive_queue \in Seq(QueuePackets) /\ s.rx_window_current \in 0..WindowDefault
      /\ Holds(s, j, Join(g, q[1].data)) /\ Finish(s) = Finish(r) /\ Edge(s) >= Edge(r)
      /\ Gap(s, j)
  <2>1. Gap(r, k) BY DEF Settled
  <2> DEFINE n == 1
  <2>2. /\ s.rx_window_current = r.rx_window_current + Rcv!Count(SubSeq(r.receive_queue, 1, n))
        /\ s.receive_queue = SubSeq(r.receive_queue, n + 1, Len(r.receive_queue))
    BY <1>3, <1>7 DEF front
  <2>3. j = k - n /\ n \in 0..k BY <1>2 DEF j
  <2>4. Rcv!Bytes(SubSeq(r.receive_queue, 1, n)) = q[1].data BY <1>4 DEF front
  <2> HIDE DEF n
  <2>5. /\ s.receive_queue \in Seq(QueuePackets) /\ s.rx_window_current \in 0..WindowDefault
        /\ Holds(s, j, Join(g, Rcv!Bytes(SubSeq(r.receive_queue, 1, n))))
        /\ Finish(s) = Finish(r) /\ Edge(s) >= Edge(r) /\ Gap(s, j)
    BY <1>7, <2>1, <2>2, <2>3, ReleaseKeeps
  <2> QED BY <2>4, <2>5
<1>9. s \in SocketRecords
  <2>1. r.rx_window_current + Rcv!Count(front) \in 0..WindowDefault BY <1>7, <1>8
  <2>2. s = [r EXCEPT !.receive_queue = rest, !.given = q[1].data,
                      !.rx_window_current = r.rx_window_current + Rcv!Count(front)]
    BY <1>5, <1>6
  <2>3. rest \in Seq(QueuePackets) BY <1>7, <1>8
  <2> QED BY <1>4, <2>1, <2>2, <2>3 DEF SocketRecords
<1>10. Settled(s, j)
  <2>1. r.receive_suspension_list = <<>> BY <1>2 DEF Settled
  <2> QED BY <1>7, <1>8, <2>1 DEF Settled
<1>11. Good(s, g)
  <2>1. j \in 0..Len(s.receive_queue) BY <1>8 DEF Holds
  <2> QED BY <1>7, <1>8, <1>9, <1>10, <2>1 DEF Good
<1> QED BY <1>8, <1>11 DEF s

(* A thread that waits goes: the others stay.                               *)
LEMMA FirstRemoved ==
  ASSUME NEW S, NEW w \in Seq(S), NEW t, Rcv!Contains(w, t)
  PROVE  Rcv!RemoveFirst(w, t) \in Seq(S) /\ w # <<>>
<1> DEFINE I == {i \in 1..Len(w) : w[i] = t}
           d == CHOOSE x \in I : \A y \in I : x <= y
<1>1. Len(w) \in Nat /\ I # {} /\ I \subseteq 1..Len(w)
  <2>1. \E i \in 1..Len(w) : w[i] = t BY DEF Rcv!Contains
  <2> QED BY <2>1
<1>2. d \in I
  <2>1. PICK m \in I : \A y \in I : ~ (<<y, m>> \in OpToRel(<, Nat))
    <3>1. I \subseteq Nat BY <1>1
    <3> HIDE DEF I
    <3>2. IsWellFoundedOn(OpToRel(<,Nat), Nat) BY NatLessThanWellFounded
    <3> QED BY <1>1, <3>1, <3>2, WFMin
  <2>2. \A y \in I : m <= y
    <3> SUFFICES ASSUME NEW y \in I PROVE m <= y
      OBVIOUS
    <3> HIDE DEF I
    <3>1. m \in Nat /\ y \in Nat BY <1>1
    <3>2. ~ (<<y, m>> \in OpToRel(<, Nat)) BY <2>1
    <3>3. ~ (y < m) BY <3>1, <3>2 DEF OpToRel
    <3> QED BY <3>1, <3>3
  <2> HIDE DEF I
  <2> QED BY <2>1, <2>2
<1>3. Rcv!RemoveFirst(w, t) = SubSeq(w, 1, d - 1) \o SubSeq(w, d + 1, Len(w))
  <2>1. \E i \in 1..Len(w) : w[i] = t BY DEF Rcv!Contains
  <2>2. Rcv!RemoveFirst(w, t) = Rcv!RemoveAt(w, Rcv!SelectInSeq(w, LAMBDA v : v = t))
    BY <2>1, Zenon DEF Rcv!RemoveFirst
  <2>3. Rcv!SelectInSeq(w, LAMBDA v : v = t) = IF I # {} THEN Rcv!Min(I) ELSE 0
    BY Zenon DEF Rcv!SelectInSeq
  <2>4. Rcv!Min(I) = d BY Zenon DEF Rcv!Min
  <2>5. Rcv!SelectInSeq(w, LAMBDA v : v = t) = d BY <1>1, <2>3, <2>4, Zenon
  <2> HIDE DEF d
  <2>6. Rcv!RemoveAt(w, d) = SubSeq(w, 1, d - 1) \o SubSeq(w, d + 1, Len(w)) BY DEF Rcv!RemoveAt
  <2> QED BY <2>2, <2>5, <2>6, Zenon
<1>4. d \in 1..Len(w) BY <1>1, <1>2
<1> HIDE DEF d, I
<1>5. /\ \A i \in 1..d - 1 : w[i] \in S
      /\ \A i \in d + 1..Len(w) : w[i] \in S
  <2>1. \A i \in 1..d - 1 : i \in 1..Len(w) BY <1>1, <1>4
  <2>2. \A i \in d + 1..Len(w) : i \in 1..Len(w) BY <1>1, <1>4
  <2> QED BY <2>1, <2>2, ElementOfSeq
<1>6. /\ SubSeq(w, 1, d - 1) \in Seq(S) /\ SubSeq(w, d + 1, Len(w)) \in Seq(S)
  <2>1. 1 \in Int /\ d - 1 \in Int /\ d + 1 \in Int /\ Len(w) \in Int BY <1>1, <1>4
  <2> QED BY <1>5, <2>1, SubSeqProperties
<1>7. w # <<>> BY <1>1, <1>4
<1> QED BY <1>3, <1>6, <1>7, ConcatProperties

(* The list of threads changes, and nothing else but the end, told to one.  *)
LEMMA ListKeeps ==
  ASSUME Rcv!ReceiveAssumption, NEW r \in SocketRecords, NEW k, NEW g, NEW w \in Seq(Readers),
         r.given = <<>>, Holds(r, k, g), Settled(r, k),
         w # <<>> => k = 0 /\ r.state = "ESTABLISHED"
  PROVE  LET s == [r EXCEPT !.receive_suspension_list = w]
         IN Good(s, g) /\ Edge(s) >= Edge(r)
<1> DEFINE s == [r EXCEPT !.receive_suspension_list = w]
<1>1. /\ s \in SocketRecords /\ s.state = r.state /\ s.rx_sequence = r.rx_sequence
      /\ s.rx_window_current = r.rx_window_current
      /\ s.rx_window_last_sent = r.rx_window_last_sent
      /\ s.receive_queue = r.receive_queue /\ s.receive_suspension_list = w
      /\ s.fin_received = r.fin_received /\ s.fin_sequence = r.fin_sequence
      /\ s.given = r.given /\ s.over = r.over
  BY DEF SocketRecords
<1> HIDE DEF s
<1>2. Finish(s) = Finish(r) /\ Edge(s) = Edge(r) /\ Rcv!More(s) = Rcv!More(r)
  BY <1>1 DEF Finish, Edge, Rcv!More
<1>3. Holds(s, k, g) BY <1>1, <1>2, Zenon DEF Holds
<1>4. Settled(s, k) BY <1>1, <1>2 DEF Settled, Gap
<1>5. Good(s, g) BY <1>1, <1>3, <1>4, GoodStays
<1>6. Edge(r) \in Nat BY SocketFacts DEF Edge
<1> QED BY <1>2, <1>5, <1>6 DEF s

(* A receive call on a connection closed and empty says that it is over.    *)
LEMMA OverKeeps ==
  ASSUME Rcv!ReceiveAssumption, NEW r \in SocketRecords, NEW k, NEW g,
         r.given = <<>>, Holds(r, k, g), Settled(r, k),
         r.receive_queue = <<>>, r.state = "CLOSE_WAIT"
  PROVE  LET s == [r EXCEPT !.over = TRUE]
         IN Good(s, g) /\ Edge(s) >= Edge(r)
<1> DEFINE s == [r EXCEPT !.over = TRUE]
<1>1. /\ s.state = r.state /\ s.rx_sequence = r.rx_sequence
      /\ s.rx_window_current = r.rx_window_current
      /\ s.rx_window_last_sent = r.rx_window_last_sent
      /\ s.receive_queue = r.receive_queue
      /\ s.receive_suspension_list = r.receive_suspension_list
      /\ s.fin_received = r.fin_received /\ s.fin_sequence = r.fin_sequence
      /\ s.given = r.given
  BY DEF SocketRecords
<1>2. s \in SocketRecords BY DEF SocketRecords
<1> HIDE DEF s
<1>3. Finish(s) = Finish(r) /\ Edge(s) = Edge(r) /\ Rcv!More(s) = Rcv!More(r)
  BY <1>1 DEF Finish, Edge, Rcv!More
<1>4. s.over => s.state = "CLOSE_WAIT" /\ s.receive_queue = <<>> BY <1>1
<1>5. Holds(s, k, g) BY <1>1, <1>3, <1>4, Zenon DEF Holds
<1>6. Settled(s, k) BY <1>1, <1>3 DEF Settled, Gap
<1>7. Good(s, g) BY <1>1, <1>2, <1>5, <1>6, GoodStays
<1>8. Edge(r) \in Nat BY SocketFacts DEF Edge
<1> QED BY <1>3, <1>7, <1>8 DEF s

-----------------------------------------------------------------------------
(* A result of a step becomes the socket: what it gave joins what was taken.*)
LEMMA BecomesKeeps ==
  ASSUME Rcv!ReceiveAssumption, rcv \in SocketRecords,
         NEW s, Good(s, receivedBytes), Edge(s) >= Edge(rcv), Rcv!Becomes(s)
  PROVE  ReceiveInv' /\ Edge(rcv)' >= Edge(rcv)
<1> DEFINE t == [s EXCEPT !.given = <<>>, !.sent = <<>>]
<1>1. s \in SocketRecords BY DEF Good
<1>2. PICK k \in 0..Len(s.receive_queue) : Holds(s, k, Join(receivedBytes, s.given)) /\ Settled(s, k)
  BY DEF Good
<1>3. rcv' = t /\ receivedBytes' = Join(receivedBytes, s.given) BY DEF Rcv!Becomes, Join
<1>4. /\ t.state = s.state /\ t.rx_sequence = s.rx_sequence
      /\ t.rx_window_current = s.rx_window_current
      /\ t.rx_window_last_sent = s.rx_window_last_sent
      /\ t.receive_queue = s.receive_queue
      /\ t.receive_suspension_list = s.receive_suspension_list
      /\ t.fin_received = s.fin_received /\ t.fin_sequence = s.fin_sequence
      /\ t.given = <<>> /\ t.sent = <<>> /\ t.over = s.over
  BY <1>1 DEF SocketRecords
<1>5. t \in SocketRecords
  <2>1. <<>> \in Seq(AllBytes) /\ <<>> \in Seq([ack : Nat, window : Nat]) BY EmptySeq
  <2> QED BY <1>1, <2>1 DEF SocketRecords
<1> HIDE DEF t
<1>6. Finish(t) = Finish(s) /\ Edge(t) = Edge(s) /\ Rcv!More(t) = Rcv!More(s)
  BY <1>4 DEF Finish, Edge, Rcv!More
<1>7. Holds(t, k, Join(receivedBytes, s.given)) BY <1>2, <1>4, <1>6, Zenon DEF Holds
<1>8. Settled(t, k) BY <1>2, <1>4, <1>6 DEF Settled, Gap
<1>9. k \in 0..Len(t.receive_queue) BY <1>4
<1>10. /\ t \in SocketRecords /\ t.given = <<>> /\ t.sent = <<>>
       /\ \E i \in 0..Len(t.receive_queue) : Holds(t, i, receivedBytes') /\ Settled(t, i)
  BY <1>3, <1>4, <1>5, <1>7, <1>8, <1>9, Zenon
<1>11. ReceiveInv' BY <1>3, <1>10, Zenon DEF ReceiveInv, Holds, Settled, Gap, Finish, Edge, Rcv!More
<1>12. Edge(rcv)' = Edge(t) BY <1>3, Zenon DEF Edge
<1>13. Edge(t) >= Edge(rcv) BY <1>6
<1> QED BY <1>11, <1>12, <1>13

(* The socket of nx_tcp_socket_create once it is established.               *)
LEMMA ReceiveInitTrue == Rcv!ReceiveAssumption /\ Rcv!Init => ReceiveInv
<1> SUFFICES ASSUME Rcv!ReceiveAssumption, Rcv!Init PROVE ReceiveInv
  OBVIOUS
<1>1. /\ WindowDefault \in Nat \ {0} /\ ULongSize \in Nat \ {0} /\ ULongSize > 4 * WindowDefault
      /\ Stream \in Seq(AllBytes) /\ Len(Stream) \in Nat
  BY DEF Rcv!ReceiveAssumption, AllBytes
<1>2. /\ rcv.state = "ESTABLISHED" /\ rcv.rx_sequence = 0
      /\ rcv.rx_window_current = WindowDefault /\ rcv.rx_window_last_sent = WindowDefault
      /\ rcv.receive_queue = <<>> /\ rcv.receive_suspension_list = <<>>
      /\ rcv.fin_received = FALSE /\ rcv.over = FALSE
      /\ rcv.given = <<>> /\ rcv.sent = <<>> /\ receivedBytes = <<>>
  BY DEF Rcv!Init
<1>3. rcv \in SocketRecords
  <2>1. /\ <<>> \in Seq(QueuePackets) /\ <<>> \in Seq(Readers) /\ <<>> \in Seq(AllBytes)
        /\ <<>> \in Seq([ack : Nat, window : Nat])
    BY EmptySeq
  <2>2. WindowDefault \in 0..WindowDefault /\ WindowDefault \in 0..ULongSize - 1 BY <1>1
  <2> QED BY <2>1, <2>2 DEF Rcv!Init, SocketRecords
<1>4. Finish(rcv) = 0 /\ Len(rcv.receive_queue) = 0 BY <1>2 DEF Finish
<1>5. Rcv!More(rcv) = 0 BY <1>1, <1>2, <1>3, MoreIs
<1>6. Start(rcv.receive_queue, 0, 0) = 0 BY DEF Start
<1>7. SubSeq(Stream, 1, 0) = <<>> BY SubSeqEmpty
<1>8. Split(rcv.receive_queue, 0, 0) BY <1>4 DEF Split
<1>9. Parts(rcv.receive_queue) /\ Apart(rcv.receive_queue) BY <1>4 DEF Parts, Apart
<1>10. Holds(rcv, 0, receivedBytes)
  <2>1. rcv.rx_window_current + 0 - 0 = WindowDefault /\ 0 <= rcv.rx_window_current + 1
    BY <1>1, <1>2
  <2> QED BY <1>1, <1>2, <1>4, <1>5, <1>6, <1>7, <1>8, <1>9, <2>1 DEF Holds
<1>11. Settled(rcv, 0) BY <1>2, <1>4 DEF Settled, Gap
<1> QED BY <1>2, <1>3, <1>4, <1>10, <1>11 DEF ReceiveInv

(* A receive call of a thread that does not wait.                           *)
LEMMA ReceivedKeeps ==
  ASSUME Rcv!ReceiveAssumption, ReceiveInv, NEW t \in Readers
  PROVE  Good(Rcv!Received(t), receivedBytes) /\ Edge(Rcv!Received(t)) >= Edge(rcv)
<1> DEFINE q == rcv.receive_queue
           w == rcv.receive_suspension_list
           s == Rcv!Received(t)
<1>1. rcv \in SocketRecords /\ rcv.given = <<>> BY DEF ReceiveInv
<1>2. PICK k \in 0..Len(q) : Holds(rcv, k, receivedBytes) /\ Settled(rcv, k) BY DEF ReceiveInv
<1>3. /\ q \in Seq(QueuePackets) /\ Len(q) \in Nat /\ Parts(q) /\ k \in 0..Len(q)
      /\ Split(q, k, Finish(rcv)) /\ Finish(rcv) \in Nat /\ Edge(rcv) \in Nat
  BY <1>1, <1>2, HoldsFacts
<1>4. CASE Rcv!HeadReady
  <2> DEFINE r == Rcv!Take(rcv)
             c == Rcv!Grown(r) /\ r.state = "ESTABLISHED"
  <2>1. s = Rcv!SendAckIf(c, r) BY <1>4 DEF Rcv!Received
  <2>2. Good(r, receivedBytes) /\ Edge(r) >= Edge(rcv) BY <1>1, <1>2, <1>4, TakeKeeps DEF Rcv!HeadReady
  <2> HIDE DEF r, c, s
  <2>3. Good(Rcv!SendAckIf(c, r), receivedBytes) /\ Edge(Rcv!SendAckIf(c, r)) = Edge(r) BY <2>2, GoodAck
  <2>4. Good(s, receivedBytes) /\ Edge(s) = Edge(r) BY <2>1, <2>3
  <2> QED BY <2>2, <2>4 DEF s
<1>5. CASE ~ Rcv!HeadReady /\ (q # <<>> \/ rcv.state = "ESTABLISHED")
  <2>1. s = [rcv EXCEPT !.receive_suspension_list = Append(w, t)] BY <1>5 DEF Rcv!Received
  <2>2. Append(w, t) \in Seq(Readers) BY <1>1, SocketFacts, AppendProperties
  <2>3. k = 0
    <3> SUFFICES ASSUME k # 0 PROVE FALSE
      OBVIOUS
    <3>1. 1 \in 1..Len(q) /\ 1 <= k BY <1>3
    <3>2. q[1].ready BY <1>3, <3>1 DEF Split
    <3>3. q # <<>> BY <3>1
    <3> QED BY <1>5, <3>2, <3>3 DEF Rcv!HeadReady
  <2>4. rcv.state = "ESTABLISHED"
    <3> SUFFICES ASSUME rcv.state # "ESTABLISHED" PROVE FALSE
      OBVIOUS
    <3>1. rcv.state = "CLOSE_WAIT" BY <1>1, SocketFacts
    <3>2. Finish(rcv) = Len(Stream) BY <1>2, <3>1 DEF Holds
    <3>3. q # <<>> BY <1>5
    <3>4. 1 \in 1..Len(q) /\ 1 \in k + 1..Len(q) BY <1>3, <2>3, <3>3, EmptySeq
    <3>5. Finish(rcv) < q[1].seq BY <1>2, <3>4 DEF Settled, Gap
    <3>6. q[1].seq < Rcv!End(q[1]) /\ Rcv!End(q[1]) <= Len(Stream) /\ q[1].seq \in Nat /\ Rcv!End(q[1]) \in Nat
      BY <1>3, <3>4, QueueFacts
    <3> QED BY <1>3, <3>2, <3>5, <3>6
  <2> HIDE DEF s
  <2>5. Good(s, receivedBytes) /\ Edge(s) >= Edge(rcv)
    BY <1>1, <1>2, <2>1, <2>2, <2>3, <2>4, ListKeeps
  <2> QED BY <2>5 DEF s
<1>6. CASE ~ Rcv!HeadReady /\ ~ (q # <<>> \/ rcv.state = "ESTABLISHED")
  <2>1. s = [rcv EXCEPT !.over = TRUE] BY <1>6 DEF Rcv!Received
  <2>2. q = <<>> /\ rcv.state = "CLOSE_WAIT" BY <1>1, <1>6, SocketFacts
  <2> HIDE DEF s
  <2>3. Good(s, receivedBytes) /\ Edge(s) >= Edge(rcv) BY <1>1, <1>2, <2>1, <2>2, OverKeeps
  <2> QED BY <2>3 DEF s
<1> QED BY <1>4, <1>5, <1>6

(* The socket record that a step makes before what it gave leaves it: a     *)
(* connection that is over stays over.                                      *)
LEMMA StepMakes ==
  ASSUME Rcv!ReceiveAssumption, ReceiveInv, Rcv!Next
  PROVE  \E s : /\ Good(s, receivedBytes) /\ Edge(s) >= Edge(rcv) /\ Rcv!Becomes(s)
                /\ rcv.over => s.over
<1> DEFINE Made(s) == /\ Good(s, receivedBytes) /\ Edge(s) >= Edge(rcv) /\ Rcv!Becomes(s)
                      /\ rcv.over => s.over
<1>1. rcv \in SocketRecords /\ rcv.given = <<>> /\ rcv.sent = <<>> BY DEF ReceiveInv
<1>2. PICK k \in 0..Len(rcv.receive_queue) : Holds(rcv, k, receivedBytes) /\ Settled(rcv, k)
  BY DEF ReceiveInv
<1>3. Edge(rcv) \in Nat BY <1>1, SocketFacts DEF Edge
<1>4. Good(rcv, receivedBytes) BY <1>1, <1>2, GoodStays
<1>5. rcv.over => rcv.state = "CLOSE_WAIT" /\ rcv.receive_queue = <<>> BY <1>2 DEF Holds
<1>6. CASE Rcv!DelayedAck
  <2> DEFINE s == Rcv!SendAckIf(TRUE, rcv)
  <2>1. s = Rcv!SendAck(rcv) BY DEF Rcv!SendAckIf
  <2>2. Good(s, receivedBytes) /\ Edge(s) = Edge(rcv) BY <1>4, GoodAck
  <2>3. Rcv!Becomes(Rcv!SendAck(rcv)) BY <1>6 DEF Rcv!DelayedAck
  <2>4. s.over = rcv.over BY <1>1, AckKeeps
  <2> HIDE DEF s
  <2>5. Rcv!Becomes(s) BY <2>1, <2>3, Zenon
  <2>6. Edge(s) >= Edge(rcv) BY <1>3, <2>2
  <2> QED BY <2>2, <2>4, <2>5, <2>6
<1>7. ASSUME NEW t \in Readers, Rcv!Receive(t) PROVE \E s : Made(s)
  <2> DEFINE s == Rcv!Received(t)
  <2>1. Good(s, receivedBytes) /\ Edge(s) >= Edge(rcv) BY ReceivedKeeps
  <2>2. Rcv!Becomes(s) BY <1>7 DEF Rcv!Receive
  <2>3. rcv.over => s.over
    <3> SUFFICES ASSUME rcv.over PROVE s.over
      OBVIOUS
    <3>1. ~ Rcv!HeadReady /\ ~ (rcv.receive_queue # <<>> \/ rcv.state = "ESTABLISHED")
      BY <1>5 DEF Rcv!HeadReady
    <3>2. s = [rcv EXCEPT !.over = TRUE] BY <3>1, Zenon DEF Rcv!Received
    <3> HIDE DEF s
    <3> QED BY <1>1, <3>2 DEF SocketRecords
  <2> HIDE DEF s
  <2> QED BY <2>1, <2>2, <2>3
<1>8. ASSUME NEW t \in Readers, Rcv!WaitExpires(t) PROVE \E s : Made(s)
  <2> DEFINE s == Rcv!Expired(t)
             w == Rcv!RemoveFirst(rcv.receive_suspension_list, t)
  <2>1. w \in Seq(Readers) /\ rcv.receive_suspension_list # <<>>
    <3>1. Rcv!Contains(rcv.receive_suspension_list, t) BY <1>8 DEF Rcv!WaitExpires, Rcv!Waits
    <3>2. rcv.receive_suspension_list \in Seq(Readers) BY <1>1, SocketFacts
    <3> QED BY <3>1, <3>2, FirstRemoved
  <2>2. k = 0 /\ rcv.state = "ESTABLISHED" BY <1>2, <2>1 DEF Settled
  <2>3. s = [rcv EXCEPT !.receive_suspension_list = w] BY DEF Rcv!Expired
  <2>4. Rcv!Becomes(s) BY <1>8 DEF Rcv!WaitExpires
  <2> HIDE DEF s, w
  <2>5. Good(s, receivedBytes) /\ Edge(s) >= Edge(rcv) BY <1>1, <1>2, <2>1, <2>2, <2>3, ListKeeps
  <2>6. ~ rcv.over BY <1>5, <2>2
  <2> QED BY <2>4, <2>5, <2>6
<1>9. ASSUME NEW m \in Rcv!Segments, Rcv!FromPeer(m) PROVE \E s : Made(s)
  <2> DEFINE s == Rcv!Process(rcv, m)
  <2>1. IsSegment(m) /\ Within(rcv, m) BY <1>1, <1>9, SegmentFacts
  <2>2. Good(s, receivedBytes) /\ Edge(s) >= Edge(rcv) BY <1>1, <1>2, <2>1, ProcessKeeps
  <2>3. Rcv!Becomes(s) BY <1>9 DEF Rcv!FromPeer
  <2>4. rcv.over => s.over
    <3> SUFFICES ASSUME rcv.over PROVE s.over
      OBVIOUS
    <3>1. Rcv!SendAckIf(TRUE, rcv).over = rcv.over BY <1>1, AckKeeps
    <3>2. Rcv!SendAck(rcv).over = rcv.over BY <3>1 DEF Rcv!SendAckIf
    <3>3. rcv.state # "ESTABLISHED" BY <1>5
    <3>4. s = Rcv!SendAck(rcv) \/ s = rcv BY <3>3, Zenon DEF Rcv!Process
    <3> HIDE DEF s
    <3> QED BY <3>2, <3>4
  <2> HIDE DEF s
  <2> QED BY <2>2, <2>3, <2>4
<1> QED BY <1>6, <1>7, <1>8, <1>9 DEF Rcv!Next, Rcv!Call

(* Every step keeps the invariant, and never takes back what the window     *)
(* promised.                                                                *)
LEMMA StepKeeps ==
  Rcv!ReceiveAssumption /\ ReceiveInv /\ [Rcv!Next]_(Rcv!vars) => ReceiveInv' /\ Edge(rcv)' >= Edge(rcv)
<1> SUFFICES ASSUME Rcv!ReceiveAssumption, ReceiveInv, [Rcv!Next]_(Rcv!vars)
    PROVE ReceiveInv' /\ Edge(rcv)' >= Edge(rcv)
  OBVIOUS
<1>1. rcv \in SocketRecords BY DEF ReceiveInv
<1>2. CASE Rcv!Next
  <2>1. PICK s : Good(s, receivedBytes) /\ Edge(s) >= Edge(rcv) /\ Rcv!Becomes(s) BY <1>2, StepMakes
  <2> QED BY <1>1, <2>1, BecomesKeeps
<1>3. CASE UNCHANGED Rcv!vars
  <2>1. rcv' = rcv /\ receivedBytes' = receivedBytes BY <1>3 DEF Rcv!vars
  <2>2. ReceiveInv' BY <2>1, Zenon DEF ReceiveInv, Holds, Settled, Gap, Finish, Edge, Rcv!More
  <2>3. Edge(rcv)' = Edge(rcv) BY <2>1, Zenon DEF Edge
  <2>4. Edge(rcv) \in Nat BY <1>1, SocketFacts DEF Edge
  <2> QED BY <2>2, <2>3, <2>4
<1> QED BY <1>2, <1>3

-----------------------------------------------------------------------------
(* The invariant of this module holds in every state: there is a number of  *)
(* READY packets with which the socket holds what it says.                  *)
THEOREM ReceiveInvariant == Rcv!ReceiveAssumption => (Rcv!Spec => []ReceiveInv)
<1> SUFFICES ASSUME Rcv!ReceiveAssumption PROVE Rcv!Spec => []ReceiveInv
  OBVIOUS
<1>1. Rcv!Init => ReceiveInv BY ReceiveInitTrue
<1>2. ReceiveInv /\ [Rcv!Next]_(Rcv!vars) => ReceiveInv' BY StepKeeps
<1> QED BY <1>1, <1>2, PTL DEF Rcv!Spec

(* Every field has its type.                                                *)
THEOREM ReceiveTyped == Rcv!ReceiveAssumption => (Rcv!Spec => []Rcv!TypeOK)
<1> SUFFICES ASSUME Rcv!ReceiveAssumption PROVE Rcv!Spec => []Rcv!TypeOK
  OBVIOUS
<1>1. ReceiveInv => Rcv!TypeOK
  <2> SUFFICES ASSUME ReceiveInv PROVE Rcv!TypeOK
    OBVIOUS
  <2> DEFINE w == rcv.receive_suspension_list
  <2>1. rcv \in SocketRecords BY DEF ReceiveInv
  <2>2. \A t \in Rcv!ToSet(w) : t \in Readers
    <3>1. w \in Seq(Readers) BY <2>1, SocketFacts
    <3>2. DOMAIN w = 1..Len(w) BY <3>1
    <3> HIDE DEF w
    <3> SUFFICES ASSUME NEW t \in Rcv!ToSet(w) PROVE t \in Readers
      OBVIOUS
    <3>3. PICK i \in DOMAIN w : t = w[i] BY DEF Rcv!ToSet
    <3> QED BY <3>1, <3>2, <3>3, ElementOfSeq
  <2>3. /\ rcv.state \in {"ESTABLISHED", "CLOSE_WAIT"}
        /\ rcv.rx_sequence \in Nat /\ rcv.rx_sequence_acked \in Nat
        /\ rcv.rx_window_current \in 0..WindowDefault
        /\ rcv.rx_window_last_sent \in 0..(ULongSize - 1)
    BY <2>1 DEF SocketRecords
  <2> QED BY <2>2, <2>3 DEF Rcv!TypeOK
<1> QED BY <1>1, ReceiveInvariant, PTL

(* Both names of where the READY bytes end say the same.                    *)
LEMMA UnfinishedIs == Rcv!Unfinished = Finish(rcv)
BY DEF Rcv!Unfinished, Finish

(* The receive queue is in order and nothing is in it twice, whatever the   *)
(* peer sends again or out of order: cuts and joins included.               *)
THEOREM QueueStaysInOrder == Rcv!ReceiveAssumption => (Rcv!Spec => []Rcv!QueueInOrder)
<1> SUFFICES ASSUME Rcv!ReceiveAssumption PROVE Rcv!Spec => []Rcv!QueueInOrder
  OBVIOUS
<1>1. ReceiveInv => Rcv!QueueInOrder
  <2> SUFFICES ASSUME ReceiveInv PROVE Rcv!QueueInOrder
    OBVIOUS
  <2> DEFINE q == rcv.receive_queue
             n == Len(q)
             last == Finish(rcv)
  <2>1. rcv \in SocketRecords BY DEF ReceiveInv
  <2>2. PICK k \in 0..n : Holds(rcv, k, receivedBytes) /\ Settled(rcv, k) BY DEF ReceiveInv
  <2>3. /\ q \in Seq(QueuePackets) /\ n \in Nat /\ Parts(q) /\ Apart(q) /\ k \in 0..n
        /\ last \in Nat /\ Split(q, k, last) /\ DOMAIN q = 1..n
    BY <2>1, <2>2, HoldsFacts
  <2>4. \A i \in 1..n : /\ IsPart(q[i]) /\ q[i].seq \in Nat /\ Rcv!End(q[i]) \in Nat
                        /\ q[i].seq < Rcv!End(q[i]) /\ q[i].ready \in BOOLEAN
    BY <2>3, QueueFacts
  <2>5. \A i \in 1..k : Rcv!End(q[i]) <= last
    <3> HIDE DEF q, last
    <3> QED BY <2>3, ReadyEnds DEF n
  <2>6. \A i \in k + 1..n : last < q[i].seq BY <2>2 DEF Settled, Gap
  <2>7. /\ \A i \in 1..n : q[i].ready <=> i <= k
        /\ \A i \in 1..k - 1 : Rcv!End(q[i]) = q[i + 1].seq
        /\ k > 0 => Rcv!End(q[k]) = last
    BY <2>3 DEF Split
  <2>8. \A i, j \in 1..n : i < j => Rcv!End(q[i]) <= q[j].seq BY <2>3 DEF Apart
  <2>9. Rcv!Unfinished = last BY UnfinishedIs
  <2> HIDE DEF q, n, last
  <2>10. ASSUME NEW i \in 1..n
         PROVE  /\ q[i].data # <<>>
                /\ i > 1 => Rcv!End(q[i - 1]) <= q[i].seq
                /\ q[i].ready <=> Rcv!End(q[i]) <= last
                /\ ~ q[i].ready => q[i].seq > last
                /\ q[i].ready => IF i < n /\ q[i + 1].ready THEN Rcv!End(q[i]) = q[i + 1].seq
                                 ELSE Rcv!End(q[i]) = last
    <3>1. q[i].data # <<>> BY <2>4 DEF IsPart
    <3>2. i > 1 => Rcv!End(q[i - 1]) <= q[i].seq
      <4> SUFFICES ASSUME i > 1 PROVE Rcv!End(q[i - 1]) <= q[i].seq
        OBVIOUS
      <4>1. i - 1 \in 1..n /\ i - 1 < i BY <2>3
      <4> QED BY <2>8, <4>1
    <3>3. CASE i <= k
      <4>1. i \in 1..k /\ q[i].ready BY <2>3, <2>7, <3>3
      <4>2. Rcv!End(q[i]) <= last BY <2>5, <4>1
      <4>3. CASE i < n /\ q[i + 1].ready
        <5>1. i + 1 \in 1..n BY <2>3, <4>3
        <5>2. i + 1 <= k BY <2>7, <4>3, <5>1
        <5>3. i \in 1..k - 1 BY <2>3, <5>2
        <5> QED BY <2>7, <3>1, <3>2, <4>1, <4>2, <4>3, <5>3
      <4>4. CASE ~ (i < n /\ q[i + 1].ready)
        <5>1. i = k
          <6> SUFFICES ASSUME i # k PROVE FALSE
            OBVIOUS
          <6>1. i + 1 <= k /\ i + 1 \in 1..n /\ i < n BY <2>3, <3>3
          <6> QED BY <2>7, <4>4, <6>1
        <5>2. Rcv!End(q[i]) = last BY <2>3, <2>7, <4>1, <5>1
        <5> QED BY <3>1, <3>2, <4>1, <4>2, <4>4, <5>2
      <4> QED BY <4>3, <4>4
    <3>4. CASE ~ (i <= k)
      <4>1. i \in k + 1..n /\ ~ q[i].ready BY <2>3, <2>7, <3>4
      <4>2. last < q[i].seq BY <2>6, <4>1
      <4>3. ~ (Rcv!End(q[i]) <= last) BY <2>3, <2>4, <4>2
      <4> QED BY <3>1, <3>2, <4>1, <4>2, <4>3
    <3> QED BY <3>3, <3>4
  <2> QED BY <2>3, <2>9, <2>10 DEF Rcv!QueueInOrder, q, n
<1> QED BY <1>1, ReceiveInvariant, PTL

(* The READY bytes are the stream from what was taken to where they end,    *)
(* and their room is what the window lacks.                                 *)
LEMMA ReadyBytes ==
  ASSUME Rcv!ReceiveAssumption, ReceiveInv
  PROVE  LET q == rcv.receive_queue
             last == Finish(rcv)
         IN \E start \in 0..last :
              /\ last <= Len(Stream) /\ receivedBytes = SubSeq(Stream, 1, start)
              /\ Rcv!Bytes(Rcv!Ready(q)) = SubSeq(Stream, start + 1, last)
              /\ Rcv!Count(Rcv!Ready(q)) = last - start
              /\ rcv.rx_window_current + last - start = WindowDefault
<1> DEFINE q == rcv.receive_queue
           last == Finish(rcv)
<1>1. rcv \in SocketRecords BY DEF ReceiveInv
<1>2. PICK k \in 0..Len(q) : Holds(rcv, k, receivedBytes) /\ Settled(rcv, k) BY DEF ReceiveInv
<1> DEFINE start == Start(q, k, last)
<1>3. /\ q \in Seq(QueuePackets) /\ Len(q) \in Nat /\ Parts(q) /\ Apart(q) /\ k \in 0..Len(q)
      /\ last \in Nat /\ last <= Len(Stream) /\ Split(q, k, last)
      /\ start \in Nat /\ start <= last
      /\ rcv.rx_window_current + last - start = WindowDefault
  BY <1>1, <1>2, HoldsFacts
<1>4. receivedBytes = SubSeq(Stream, 1, start) BY <1>2 DEF Holds
<1> HIDE DEF q, last
<1>5. Rcv!Ready(q) = SubSeq(q, 1, k) BY <1>3, ReadyAre
<1> DEFINE rest == SubSeq(q, k + 1, Len(q))
           to == Start(rest, k - k, last)
<1>6. Rcv!Bytes(SubSeq(q, 1, k)) = SubSeq(Stream, start + 1, to) /\ Rcv!Count(SubSeq(q, 1, k)) = to - start
  <2>1. k \in 0..k BY <1>3
  <2> QED BY <1>3, <2>1, FrontIs
<1>7. to = last
  <2>1. k - k = 0 BY <1>3
  <2> QED BY <2>1 DEF Start
<1> HIDE DEF start, to
<1>8. start \in 0..last BY <1>3
<1> QED BY <1>3, <1>4, <1>5, <1>6, <1>7, <1>8 DEF q, last

(* What receive calls have given, with what is READY for them, is the       *)
(* stream as far as rx_sequence says: nothing is missing, twice or moved.   *)
THEOREM NoByteLost == Rcv!ReceiveAssumption => (Rcv!Spec => []Rcv!StreamKept)
<1> SUFFICES ASSUME Rcv!ReceiveAssumption PROVE Rcv!Spec => []Rcv!StreamKept
  OBVIOUS
<1>1. ReceiveInv => Rcv!StreamKept
  <2> SUFFICES ASSUME ReceiveInv PROVE Rcv!StreamKept
    OBVIOUS
  <2> DEFINE q == rcv.receive_queue
             last == Finish(rcv)
  <2>1. PICK start \in 0..last :
          /\ last <= Len(Stream) /\ receivedBytes = SubSeq(Stream, 1, start)
          /\ Rcv!Bytes(Rcv!Ready(q)) = SubSeq(Stream, start + 1, last)
    BY ReadyBytes
  <2>2. last \in Nat /\ Len(Stream) \in Nat
    <3>1. rcv \in SocketRecords /\ \E k \in 0..Len(q) : Holds(rcv, k, receivedBytes) BY DEF ReceiveInv
    <3> QED BY <3>1, HoldsFacts, SocketFacts
  <2> HIDE DEF q, last
  <2>3. SubSeq(Stream, 0 + 1, start) \o SubSeq(Stream, start + 1, last) = SubSeq(Stream, 0 + 1, last)
    <3>1. 0 \in Nat /\ start \in Nat /\ 0 <= start /\ start <= Len(Stream)
          /\ last \in start..Len(Stream)
      BY <2>1, <2>2
    <3> QED BY <3>1, StreamSub
  <2>4. 0 + 1 = 1 OBVIOUS
  <2>5. SubSeq(Stream, 1, start) \o SubSeq(Stream, start + 1, last) = SubSeq(Stream, 1, last)
    BY <2>3, <2>4, Zenon
  <2>6. receivedBytes \o Rcv!Bytes(Rcv!Ready(q)) = SubSeq(Stream, 1, last) BY <2>1, <2>5, Zenon
  <2> QED BY <2>6, UnfinishedIs, Zenon DEF Rcv!StreamKept, q, last
<1> QED BY <1>1, ReceiveInvariant, PTL

(* The window and what is READY make the whole, and the peer is never told  *)
(* of more room than there is, a probe taken beyond it included.            *)
THEOREM WindowIsTheRoom == Rcv!ReceiveAssumption => (Rcv!Spec => []Rcv!WindowIsRoom)
<1> SUFFICES ASSUME Rcv!ReceiveAssumption PROVE Rcv!Spec => []Rcv!WindowIsRoom
  OBVIOUS
<1>1. ReceiveInv => Rcv!WindowIsRoom
  <2> SUFFICES ASSUME ReceiveInv PROVE Rcv!WindowIsRoom
    OBVIOUS
  <2> DEFINE q == rcv.receive_queue
             last == Finish(rcv)
             c == Rcv!Count(Rcv!Ready(q))
             w == rcv.rx_window_current
  <2>1. PICK start \in 0..last : c = last - start /\ w + last - start = WindowDefault
    BY ReadyBytes
  <2>2. rcv \in SocketRecords BY DEF ReceiveInv
  <2>3. last \in Nat /\ w \in Nat /\ Rcv!More(rcv) <= WindowDefault + 1
    <3>1. \E k \in 0..Len(q) : Holds(rcv, k, receivedBytes) BY DEF ReceiveInv
    <3> QED BY <2>2, <3>1, HoldsFacts, SocketFacts
  <2> HIDE DEF q, last, c, w
  <2>4. w + c = WindowDefault BY <2>1, <2>3
  <2> QED BY <2>3, <2>4 DEF Rcv!WindowIsRoom, c, w, q
<1> QED BY <1>1, ReceiveInvariant, PTL

(* No thread waits beside READY data, or on a connection that is closed.    *)
THEOREM NobodyWaitsBesideReady == Rcv!ReceiveAssumption => (Rcv!Spec => []Rcv!NoWaitBesideReady)
<1> SUFFICES ASSUME Rcv!ReceiveAssumption PROVE Rcv!Spec => []Rcv!NoWaitBesideReady
  OBVIOUS
<1>1. ReceiveInv => Rcv!NoWaitBesideReady
  <2> SUFFICES ASSUME ReceiveInv, rcv.receive_suspension_list # <<>>
      PROVE ~ Rcv!HeadReady /\ rcv.state = "ESTABLISHED"
    BY DEF Rcv!NoWaitBesideReady
  <2> DEFINE q == rcv.receive_queue
  <2>1. rcv \in SocketRecords BY DEF ReceiveInv
  <2>2. PICK k \in 0..Len(q) : Holds(rcv, k, receivedBytes) /\ Settled(rcv, k) BY DEF ReceiveInv
  <2>3. k = 0 /\ rcv.state = "ESTABLISHED" BY <2>2 DEF Settled
  <2>4. ASSUME Rcv!HeadReady PROVE FALSE
    <3>1. q \in Seq(QueuePackets) /\ Len(q) \in Nat /\ Split(q, k, Finish(rcv))
      BY <2>1, <2>2, HoldsFacts
    <3>2. q # <<>> /\ q[1].ready BY <2>4 DEF Rcv!HeadReady
    <3>3. 1 \in 1..Len(q) BY <3>1, <3>2, EmptySeq
    <3>4. 1 <= k BY <3>1, <3>2, <3>3 DEF Split
    <3> QED BY <2>3, <3>4
  <2> QED BY <2>3, <2>4
<1> QED BY <1>1, ReceiveInvariant, PTL

(* What the window once promised stays promised: its right edge, up to      *)
(* which the peer may send, never goes back.                                *)
THEOREM EdgeNeverGoesBack == Rcv!ReceiveAssumption => (Rcv!Spec => [][Edge(rcv)' >= Edge(rcv)]_(Rcv!vars))
<1> SUFFICES ASSUME Rcv!ReceiveAssumption PROVE Rcv!Spec => [][Edge(rcv)' >= Edge(rcv)]_(Rcv!vars)
  OBVIOUS
<1>1. ReceiveInv /\ [Rcv!Next]_(Rcv!vars) => Edge(rcv)' >= Edge(rcv) BY StepKeeps
<1> QED BY <1>1, ReceiveInvariant, PTL DEF Rcv!Spec

-----------------------------------------------------------------------------
(* The socket as a stream of bytes: the peer has written all of Stream, and *)
(* receive calls give it.                                                   *)
ByteStream == INSTANCE NetxByteStream WITH written <- Stream, given <- receivedBytes, over <- rcv.over

(* A sequence begins a longer one that begins with it.                      *)
LEMMA PrefixOfJoin ==
  ASSUME NEW S, NEW s \in Seq(S), NEW t \in Seq(S)
  PROVE  Rcv!IsPrefix(s, s \o t)
<1>1. Len(s) \in Nat /\ Len(t) \in Nat /\ s \o t \in Seq(S) BY ConcatProperties
<1>2. Len(s \o t) = Len(s) + Len(t) BY ConcatProperties
<1>3. SubSeq(s \o t, 1, Len(s)) = SubSeq(s, 1, Len(s))
  <2>1. CASE Len(s) = 0
    <3>1. SubSeq(s \o t, 1, 0) = <<>> /\ SubSeq(s, 1, 0) = <<>> BY <1>1, SubSeqEmpty
    <3> QED BY <2>1, <3>1
  <2>2. CASE Len(s) # 0
    <3>1. 1 \in 1..Len(s) + 1 /\ Len(s) \in 0..Len(s) BY <1>1, <2>2
    <3> QED BY <1>1, <3>1, SubSeqOfConcat1
  <2> QED BY <2>1, <2>2
<1> QED BY <1>1, <1>2, <1>3 DEF Rcv!IsPrefix

(* What was given is a beginning of the stream, and all of it when a        *)
(* receive call has said that the connection is over.                       *)
LEMMA GivenIs ==
  ASSUME Rcv!ReceiveAssumption, ReceiveInv
  PROVE  /\ receivedBytes \in Seq(AllBytes) /\ Rcv!IsPrefix(receivedBytes, Stream)
         /\ rcv.over => receivedBytes = Stream
<1> DEFINE last == Finish(rcv)
<1>1. PICK start \in 0..last : last <= Len(Stream) /\ receivedBytes = SubSeq(Stream, 1, start)
  BY ReadyBytes
<1>2. /\ last \in Nat /\ Len(Stream) \in Nat /\ Stream \in Seq(AllBytes)
  <2>1. rcv \in SocketRecords /\ \E k \in 0..Len(rcv.receive_queue) : Holds(rcv, k, receivedBytes)
    BY DEF ReceiveInv
  <2> QED BY <2>1, HoldsFacts, SocketFacts DEF Rcv!ReceiveAssumption, AllBytes
<1>3. rcv.over => receivedBytes = Stream
  <2> SUFFICES ASSUME rcv.over PROVE receivedBytes = Stream
    OBVIOUS
  <2>1. PICK k \in 0..Len(rcv.receive_queue) : Holds(rcv, k, receivedBytes) BY DEF ReceiveInv
  <2>2. rcv.state = "CLOSE_WAIT" /\ rcv.receive_queue = <<>> /\ last = Len(Stream)
    BY <2>1 DEF Holds
  <2>3. k = 0
    <3>1. Len(rcv.receive_queue) = 0 BY <2>2
    <3> QED BY <2>1, <3>1
  <2>4. receivedBytes = SubSeq(Stream, 1, last) BY <2>1, <2>3 DEF Holds, Start
  <2> HIDE DEF last
  <2>5. SubSeq(Stream, 1, Len(Stream)) = Stream BY <1>2, SubSeqFull
  <2> QED BY <2>2, <2>4, <2>5
<1> HIDE DEF last
<1>4. start \in Nat /\ start <= Len(Stream) BY <1>1, <1>2
<1> DEFINE rest == SubSeq(Stream, start + 1, Len(Stream))
<1>5. /\ SubSeq(Stream, 0 + 1, start) \in Seq(AllBytes)
      /\ SubSeq(Stream, 0 + 1, start) \o rest = SubSeq(Stream, 0 + 1, Len(Stream))
  <2>1. 0 \in Nat /\ 0 <= start /\ Len(Stream) \in start..Len(Stream) BY <1>2, <1>4
  <2> QED BY <1>4, <2>1, StreamSub
<1>6. rest \in Seq(AllBytes)
  <2>1. Len(Stream) <= Len(Stream) /\ start <= Len(Stream) BY <1>2, <1>4
  <2> QED BY <1>2, <1>4, <2>1, StreamSub
<1> HIDE DEF rest
<1>7. 0 + 1 = 1 OBVIOUS
<1>8. receivedBytes \in Seq(AllBytes) BY <1>1, <1>5, <1>7, Zenon
<1>9. SubSeq(Stream, 1, Len(Stream)) = Stream BY <1>2, SubSeqFull
<1>10. receivedBytes \o rest = Stream BY <1>1, <1>5, <1>7, <1>9, Zenon
<1>11. Rcv!IsPrefix(receivedBytes, receivedBytes \o rest) BY <1>6, <1>8, PrefixOfJoin
<1>12. Rcv!IsPrefix(receivedBytes, Stream) BY <1>10, <1>11, Zenon
<1> QED BY <1>3, <1>8, <1>12

(* Receive calls give the peer's bytes in their order, each once, and none  *)
(* says that the connection is over before all were given: every step of    *)
(* the socket is a step of the byte stream, or changes nothing of it.       *)
THEOREM ReceiveGivesStream == Rcv!ReceiveAssumption => (Rcv!Spec => ByteStream!Spec)
<1> SUFFICES ASSUME Rcv!ReceiveAssumption PROVE Rcv!Spec => ByteStream!Spec
  OBVIOUS
<1>1. Rcv!Init => ByteStream!Init
  <2> SUFFICES ASSUME Rcv!Init PROVE receivedBytes = <<>> /\ ~ rcv.over
    BY DEF ByteStream!Init
  <2> QED BY DEF Rcv!Init
<1> DEFINE Given == Rcv!IsPrefix(receivedBytes, Stream) /\ (rcv.over => receivedBytes = Stream)
<1>2. ReceiveInv => Given BY GivenIs
<1>3. ReceiveInv /\ Given' /\ [Rcv!Next]_(Rcv!vars) => [ByteStream!Move]_<<Stream, receivedBytes, rcv.over>>
  <2> SUFFICES ASSUME ReceiveInv, Given', [Rcv!Next]_(Rcv!vars)
      PROVE [ByteStream!Move]_<<Stream, receivedBytes, rcv.over>>
    OBVIOUS
  <2>1. CASE Rcv!Next
    <3>1. PICK s : Good(s, receivedBytes) /\ Rcv!Becomes(s) /\ (rcv.over => s.over) BY <2>1, StepMakes
    <3>2. s \in SocketRecords BY <3>1 DEF Good
    <3>3. s.given \in Seq(AllBytes) BY <3>2, SocketFacts
    <3>4. receivedBytes' = receivedBytes \o s.given /\ rcv'.over = s.over
      BY <3>1, <3>2 DEF Rcv!Becomes, SocketRecords
    <3>5. Rcv!IsPrefix(receivedBytes, receivedBytes')
      <4>1. receivedBytes \in Seq(AllBytes) BY GivenIs
      <4>2. Rcv!IsPrefix(receivedBytes, receivedBytes \o s.given) BY <3>3, <4>1, PrefixOfJoin
      <4> QED BY <3>4, <4>2, Zenon
    <3>6. Rcv!IsPrefix(receivedBytes', Stream) /\ (rcv'.over => receivedBytes' = Stream) OBVIOUS
    <3>7. Rcv!IsPrefix(Stream, Stream)
      <4>1. Stream \in Seq(AllBytes) BY DEF Rcv!ReceiveAssumption, AllBytes
      <4>2. Len(Stream) \in Nat BY <4>1
      <4> QED BY <4>2 DEF Rcv!IsPrefix
    <3>8. rcv.over => rcv'.over BY <3>1, <3>4
    <3> HIDE DEF Given
    <3>9. \A t, u : ByteStream!IsPrefix(t, u) <=> Rcv!IsPrefix(t, u)
      BY DEF ByteStream!IsPrefix, Rcv!IsPrefix
    <3>10. Stream' = Stream OBVIOUS
    <3>11. ByteStream!Move
      BY <3>5, <3>6, <3>7, <3>8, <3>9, <3>10, Zenon DEF ByteStream!Move
    <3> QED BY <3>11
  <2>2. CASE UNCHANGED Rcv!vars BY <2>2 DEF Rcv!vars
  <2> QED BY <2>1, <2>2
<1> QED BY <1>1, <1>2, <1>3, ReceiveInvariant, PTL DEF Rcv!Spec, ByteStream!Spec
=============================================================================
