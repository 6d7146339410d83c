--------------------------- MODULE MCNetxTransfer ---------------------------
(***************************************************************************)
(* Data over a TCP connection, on small instances; the part that runs is   *)
(* chosen at the start.  In "receive" the receiver meets any peer within   *)
(* its window; in the others it meets a NetX sender: one writer over a     *)
(* network that loses a segment but keeps the order ("lossy"), over one    *)
(* that delivers anything at any time, again ("any order"), and two        *)
(* writers whose calls are refused, time out, and drop their packets, over *)
(* a network that loses as much as ends the connection ("refused").  The   *)
(* last three are about datagrams that cross the network in fragments:     *)
(* several at once, one that routers cut again while fragmentation is      *)
(* disabled and enabled, and one with times to live.                       *)
(***************************************************************************)
EXTENDS Integers, FiniteSets, Sequences, TLC

CONSTANTS
  None, Header,
  One, Two, \* threads, and the names of datagrams
  Three     \* packets and names of datagrams

VARIABLES
  part, snd, call, written, rcv, taken, toReceiver, toSender, faults,
  enabled, event, received, working, chains, tail, frag, time, free, leaving, delivered,
  net, sent, arrivals

Receive == INSTANCE NetxTcpReceive WITH
  Stream <- <<1, 2, 3, 4, 5, 6>>, Readers <- Two, WindowDefault <- 4, Longest <- 4,
  ULongSize <- 64
Lossy == INSTANCE NetxTcpTransfer WITH
  Writers <- One, Readers <- One, Calls <- 2, Length <- 3, WindowDefault <- 2,
  ULongSize <- 64, Mss <- 2, QueueMaximum <- 2, MaxRetries <- 2, Congestion <- {2, 4},
  NoWait <- FALSE, Ordered <- TRUE, Faults <- 1
AnyOrder == INSTANCE NetxTcpTransfer WITH
  Writers <- One, Readers <- One, Calls <- 2, Length <- 2, WindowDefault <- 3,
  ULongSize <- 64, Mss <- 2, QueueMaximum <- 2, MaxRetries <- 2, Congestion <- {2, 4},
  NoWait <- FALSE, Ordered <- FALSE, Faults <- 0
Refused == INSTANCE NetxTcpTransfer WITH
  Writers <- Two, Readers <- One, Calls <- 1, Length <- 1, WindowDefault <- 1,
  ULongSize <- 64, Mss <- 1, QueueMaximum <- 1, MaxRetries <- 1, Congestion <- {1},
  NoWait <- TRUE, Ordered <- TRUE, Faults <- 1

Fragments == INSTANCE NetxIpFragment WITH
  Packets <- Three, Ids <- Three, Length <- 2, Sizes <- {1}, Ttls <- {1},
  ReassemblyTime <- 1, Routers <- FALSE, MayDisable <- FALSE, MaxArrivals <- 4
Recut == INSTANCE NetxIpFragment WITH
  Packets <- Three, Ids <- One, Length <- 3, Sizes <- {1, 2}, Ttls <- {1},
  ReassemblyTime <- 1, Routers <- TRUE, MayDisable <- TRUE, MaxArrivals <- 4
Lifetimes == INSTANCE NetxIpFragment WITH
  Packets <- Three, Ids <- One, Length <- 2, Sizes <- {1}, Ttls <- {0, 1, 2},
  ReassemblyTime <- 1, Routers <- FALSE, MayDisable <- FALSE, MaxArrivals <- 4

ASSUME TransferAssumption ==
  /\ Receive!ReceiveAssumption
  /\ Lossy!TransferAssumption /\ AnyOrder!TransferAssumption /\ Refused!TransferAssumption
  /\ Fragments!FragmentAssumption /\ Recut!FragmentAssumption /\ Lifetimes!FragmentAssumption

sending == <<snd, call, written, toReceiver, toSender, faults>>
stream == <<rcv, taken, sending>>
datagrams == <<enabled, event, received, working, chains, tail, frag, time, free, leaving,
               delivered, net, sent, arrivals>>
vars == <<part, stream, datagrams>>
InFragments == part \in {"fragments", "recut", "lifetimes"}

NoSending ==
  /\ snd = None /\ call = None /\ written = None
  /\ toReceiver = None /\ toSender = None /\ faults = None
NoDatagrams ==
  /\ enabled = None /\ event = None /\ received = None /\ working = None /\ chains = None
  /\ tail = None /\ frag = None /\ time = None /\ free = None /\ leaving = None
  /\ delivered = None /\ net = None /\ sent = None /\ arrivals = None

Init ==
  \/ /\ \/ part = "receive" /\ Receive!Init /\ NoSending
        \/ part = "lossy" /\ Lossy!Init
        \/ part = "any order" /\ AnyOrder!Init
        \/ part = "refused" /\ Refused!Init
     /\ NoDatagrams
  \/ /\ \/ part = "fragments" /\ Fragments!Init
        \/ part = "recut" /\ Recut!Init
        \/ part = "lifetimes" /\ Lifetimes!Init
     /\ rcv = None /\ taken = None /\ NoSending

Next ==
  /\ UNCHANGED part
  /\ \/ /\ \/ part = "receive" /\ Receive!Next /\ UNCHANGED sending
           \/ part = "lossy" /\ Lossy!Next
           \/ part = "any order" /\ AnyOrder!Next
           \/ part = "refused" /\ Refused!Next
        /\ UNCHANGED datagrams
     \/ /\ \/ part = "fragments" /\ Fragments!Next
           \/ part = "recut" /\ Recut!Next
           \/ part = "lifetimes" /\ Lifetimes!Next
        /\ UNCHANGED stream

(* NetxTcpTransfer!FairSpec and NetxIpFragment!FairSpec, in their parts.     *)
lossy == part = "lossy"
Waits(able) == ~ (lossy /\ able)
FairSpec ==
  /\ Init /\ [][Next]_vars
  /\ []<>Waits(Lossy!CanWrite) \/ []<><<\E w \in One : Lossy!Write(w)>>_vars
  /\ []<>Waits(Lossy!CanRead) \/ []<><<\E t \in One : Lossy!Read(t)>>_vars
  /\ []<>Waits(Lossy!CanDisconnect) \/ []<><<Lossy!Disconnect>>_vars
  /\ []<>Waits(Lossy!CanExpire) \/ []<><<Lossy!Expire>>_vars
  /\ []<>Waits(Lossy!R!AckDue) \/ []<><<Lossy!DelayedAck>>_vars
  /\ []<>Waits(toReceiver # <<>>) \/ []<><<Lossy!AtReceiver>>_vars
  /\ []<>Waits(toSender # <<>>) \/ []<><<Lossy!AtSender \/ Lossy!AtClosed>>_vars
  /\ []<>(~ (InFragments /\ Fragments!CanGoOn)) \/ []<><<Fragments!GoesOn>>_vars
-----------------------------------------------------------------------------
(* The receive queue holds the next bytes of the stream, in order, without  *)
(* a gap up to rx_sequence and without an overlap, whoever the peer is, and *)
(* no thread waits beside them; the transmit queue holds what was not       *)
(* acknowledged, in order and counted, and with one writer within the       *)
(* window and the queue's limit.  Every variable has its type.              *)
QueuesHoldStream ==
  /\ ~ InFragments => Receive!QueueInOrder /\ Receive!NoWaitBesideReady
  /\ part = "receive" => Receive!TypeOK /\ Receive!StreamKept
  /\ part = "lossy" => Lossy!TypeOK /\ Lossy!QueueIsUnacked /\ Lossy!WithinWindow
  /\ part = "any order" =>
       AnyOrder!TypeOK /\ AnyOrder!QueueIsUnacked /\ AnyOrder!WithinWindow
  /\ part = "refused" => Refused!TypeOK /\ Refused!QueueIsUnacked

(* The window is the room that is left, and its edge never goes back: what  *)
(* a peer was told it may send will be taken.                               *)
Edge == rcv.rx_sequence + rcv.rx_window_current
WindowKept ==
  /\ [](/\ part = "receive" => Receive!WindowIsRoom
        /\ part = "lossy" => Lossy!R!WindowIsRoom
        /\ part = "any order" => AnyOrder!R!WindowIsRoom
        /\ part = "refused" => Refused!R!WindowIsRoom)
  /\ [][~ InFragments => Edge' >= Edge]_vars

(* The connection is the stream of NetxByteStream.                          *)
Unread == part = "refused" \/ InFragments
ByteStream == INSTANCE NetxByteStream WITH
  written <- IF part = "receive" THEN <<1, 2, 3, 4, 5, 6>>
             ELSE IF Unread THEN <<>> ELSE Lossy!InConnection,
  given <- IF Unread THEN <<>> ELSE taken,
  over <- IF Unread THEN FALSE ELSE rcv.over
ImplementsStream == ByteStream!Spec

(* With fewer losses than retries, all that the writer gives to send is     *)
(* given to the reader, who is told of the end.                             *)
AllArrives == lossy ~> (lossy /\ Len(taken) = 6 /\ rcv.over)

(* Every packet of the pool is free, in one of the queues, or with disable, *)
(* and once; a chain is of one datagram, a datagram in one chain, ordered   *)
(* and without copies; a datagram that is whole is dispatched at once, with *)
(* its whole length; the tail is where the next one begins.                 *)
FragmentsAccounted ==
  /\ part = "fragments" => Fragments!Accounted
  /\ part = "recut" => Recut!Accounted
  /\ part = "lifetimes" => Lifetimes!Accounted

(* A fragment does not stay: its datagram becomes whole, or it is replaced  *)
(* by a copy, or it expires, or fragmentation is disabled; its packet is    *)
(* free in the end.                                                         *)
HeldFragment(k) == InFragments /\ k \notin free
FragmentsEnd == \A k \in Three : HeldFragment(k) ~> ~ HeldFragment(k)
=============================================================================
