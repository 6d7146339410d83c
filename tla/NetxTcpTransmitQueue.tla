------------------------ MODULE NetxTcpTransmitQueue ------------------------
(***************************************************************************)
(* The packets of a TCP socket's transmit queue, shared with the driver.   *)
(* A segment stays on the queue until it is acknowledged, and is with the  *)
(* driver (or an ARP queue) until that has sent it; two words of the       *)
(* packet say who is still using it.  The IP thread acknowledges,          *)
(* retransmits and flushes under the IP mutex; the driver's completion     *)
(* takes no mutex and may run between any two of its steps.  A send gives  *)
(* the mutex up between its look at the queue and the queueing.            *)
(* (nx_tcp_socket_send_internal.c, nx_tcp_socket_state_ack_check.c,        *)
(* nx_tcp_socket_retransmit.c, nx_tcp_socket_transmit_queue_flush.c,       *)
(* nx_packet_transmit_release.c)                                           *)
(***************************************************************************)
EXTENDS Integers, Sequences, FiniteSets

CONSTANTS
  Packets,        \* the packets of the pool the application sends from
  QueueMaximum,   \* nx_tcp_socket_transmit_queue_maximum
  Writers         \* threads in nx_tcp_socket_send at once, at most

ASSUME QueueAssumption ==
  IsFiniteSet(Packets) /\ QueueMaximum \in Nat \ {0} /\ Writers \in Nat \ {0}

VARIABLES
  mark,       \* nx_packet_tcp_queue_next: FREE, ALLOCATED, or QUEUED (a link)
  txDone,     \* nx_packet_queue_next = NX_DRIVER_TX_DONE
  free,       \* the pool's available list
  app,        \* packets the application owns
  sending,    \* how far a send has come with one of them: no, prepared,
              \* numbered, or numbered with what is no longer the next number
  driver,     \* packets the driver or an ARP queue holds
  queue,      \* nx_tcp_socket_transmit_sent_head .. _tail
  sentCount,  \* nx_tcp_socket_transmit_sent_count
  open,       \* the socket's state lets it send (ESTABLISHED or CLOSE_WAIT)
  pc,         \* where the holder of the IP mutex is in a walk of the queue
  walk        \* the packets of that walk still to visit

packetVars == <<mark, txDone, free, driver>>
socketVars == <<queue, sentCount, open>>
ipVars == <<pc, walk>>
appVars == <<app, sending>>
vars == <<packetVars, appVars, socketVars, ipVars>>

Init ==
  /\ mark = [p \in Packets |-> "FREE"] /\ txDone = [p \in Packets |-> FALSE]
  /\ free = Packets /\ app = {} /\ driver = {}
  /\ sending = [p \in Packets |-> "no"]
  /\ queue = <<>> /\ sentCount = 0 /\ open = TRUE
  /\ pc = "idle" /\ walk = <<>>

(* _nx_packet_release of one packet: refused unless it is marked ALLOCATED; *)
(* the free list's link overwrites a NX_DRIVER_TX_DONE.                     *)
PacketRelease(p, m) ==
  IF m[p] # "ALLOCATED" THEN mark' = m /\ UNCHANGED <<txDone, free>>
  ELSE /\ mark' = [m EXCEPT ![p] = "FREE"]
       /\ txDone' = [txDone EXCEPT ![p] = FALSE]
       /\ free' = free \cup {p}

-----------------------------------------------------------------------------
(* The application: _nx_packet_allocate, then _nx_tcp_socket_send_internal  *)
(* with the packet or a copy of it.                                         *)
AppAllocate(p) ==
  /\ p \in free
  /\ free' = free \ {p} /\ app' = app \cup {p}
  /\ mark' = [mark EXCEPT ![p] = "ALLOCATED"]
  /\ txDone' = [txDone EXCEPT ![p] = FALSE]
  /\ UNCHANGED <<driver, sending, socketVars, ipVars>>

Sending == {p \in Packets : sending[p] # "no"}

(* Mistake: the queue depth is not asked before a packet is prepared.       *)
PrepareAnyway(p) ==
  /\ pc = "idle" /\ p \in app /\ sending[p] = "no"
  /\ Cardinality(Sending) < Writers
  /\ sending' = [sending EXCEPT ![p] = "prepared"]
  /\ UNCHANGED <<packetVars, app, socketVars, ipVars>>

(* Under the mutex: with room in the queue the packet gets its header.  The *)
(* socket's state is asked before the loop and after the mutex was given up.*)
Prepare(p) ==
  /\ pc = "idle" /\ p \in app /\ sending[p] = "no"
  /\ Cardinality(Sending) < Writers
  /\ sentCount < QueueMaximum
  /\ sending' = [sending EXCEPT ![p] = "prepared"]
  /\ UNCHANGED <<packetVars, app, socketVars, ipVars>>

(* Without the mutex: the sequence number is read, the checksum computed.   *)
Number(p) ==
  /\ sending[p] = "prepared"
  /\ sending' = [sending EXCEPT ![p] = "numbered"]
  /\ UNCHANGED <<packetVars, app, socketVars, ipVars>>

(* The numbers that were read are no longer the next one.                   *)
Outdated(f) == [p \in Packets |-> IF f[p] = "numbered" THEN "outdated" ELSE f[p]]

(* Under the mutex again: the packet is queued if no other thread has sent  *)
(* since the number was read and the socket still lets it send.             *)
Send(p) ==
  /\ pc = "idle" /\ open /\ sending[p] = "numbered"
  /\ app' = app \ {p}
  /\ sending' = Outdated([sending EXCEPT ![p] = "no"])
  /\ mark' = [mark EXCEPT ![p] = "QUEUED"]
  /\ queue' = Append(queue, p) /\ sentCount' = sentCount + 1
  /\ driver' = driver \cup {p}
  /\ UNCHANGED <<txDone, free, open, ipVars>>

(* Otherwise a copy is released, and the packet itself goes round the loop  *)
(* again or stays with the caller.                                          *)
SendFails(p) ==
  /\ pc = "idle"
  /\ sending[p] = "outdated" \/ (sending[p] = "numbered" /\ ~ open)
  /\ sending' = [sending EXCEPT ![p] = "no"]
  /\ \/ UNCHANGED <<mark, txDone, free, app>>
     \/ PacketRelease(p, mark) /\ app' = app \ {p}
  /\ UNCHANGED <<driver, socketVars, ipVars>>

(* _nx_packet_transmit_release by the driver: a packet on a TCP queue is    *)
(* only marked as sent, any other is released.                              *)
DriverDone(p) ==
  /\ p \in driver
  /\ driver' = driver \ {p}
  /\ IF mark[p] \notin {"ALLOCATED", "FREE"}
       THEN txDone' = [txDone EXCEPT ![p] = TRUE] /\ UNCHANGED <<mark, free>>
       ELSE PacketRelease(p, mark)
  /\ UNCHANGED <<appVars, socketVars, ipVars>>

-----------------------------------------------------------------------------
(* Mistake: the count is decremented once for an ACK of several packets.    *)
AckStartCountsOne ==
  /\ pc = "idle"
  /\ \E n \in 1..Len(queue) :
       /\ walk' = SubSeq(queue, 1, n)
       /\ queue' = SubSeq(queue, n + 1, Len(queue))
  /\ sentCount' = sentCount - 1
  /\ pc' = "ackMark"
  /\ UNCHANGED <<packetVars, appVars, open>>

(* _nx_tcp_socket_state_ack_check: an ACK covers the first n packets; they  *)
(* leave the queue, and are then visited one by one.                        *)
AckStart ==
  /\ pc = "idle"
  /\ \E n \in 1..Len(queue) :
       /\ walk' = SubSeq(queue, 1, n)
       /\ queue' = SubSeq(queue, n + 1, Len(queue))
       /\ sentCount' = sentCount - n
  /\ pc' = "ackMark"
  /\ UNCHANGED <<packetVars, appVars, open>>

AckMark ==
  /\ pc = "ackMark" /\ walk # <<>>
  /\ mark' = [mark EXCEPT ![Head(walk)] = "ALLOCATED"]
  /\ pc' = "ackTest"
  /\ UNCHANGED <<txDone, free, driver, appVars, socketVars, walk>>

(* Mistake: an acknowledged packet is released though the driver has it.    *)
AckReleases ==
  /\ pc = "ackTest"
  /\ pc' = "ackMark" /\ walk' = Tail(walk) /\ PacketRelease(Head(walk), mark)
  /\ UNCHANGED <<driver, appVars, socketVars>>

AckTest ==
  /\ pc = "ackTest"
  /\ IF txDone[Head(walk)]
       THEN pc' = "ackMark" /\ walk' = Tail(walk) /\ PacketRelease(Head(walk), mark)
       ELSE pc' = "ackLeave" /\ UNCHANGED <<mark, txDone, free, walk>>
  /\ UNCHANGED <<driver, appVars, socketVars>>

(* "Let driver release the packet": the mark is stored a second time.       *)
AckLeave ==
  /\ pc = "ackLeave"
  /\ mark' = [mark EXCEPT ![Head(walk)] = "ALLOCATED"]
  /\ pc' = "ackMark" /\ walk' = Tail(walk)
  /\ UNCHANGED <<txDone, free, driver, appVars, socketVars>>

-----------------------------------------------------------------------------
(* _nx_tcp_socket_retransmit: from the head, each packet the driver is done *)
(* with is sent again, until one is still with the driver, the window is    *)
(* used up, or fast recovery ends the walk after one.                       *)
RetransmitStart ==
  /\ pc = "idle" /\ queue # <<>>
  /\ pc' = "retransmit" /\ walk' = queue
  /\ UNCHANGED <<packetVars, appVars, socketVars>>

(* Mistake: NX_DRIVER_TX_DONE is left in a packet that is sent again.       *)
RetransmitKeepsDone ==
  /\ pc = "retransmit" /\ walk # <<>>
  /\ txDone[Head(walk)]
  /\ driver' = driver \cup {Head(walk)}
  /\ walk' = Tail(walk)
  /\ UNCHANGED <<mark, txDone, free, appVars, socketVars, pc>>

RetransmitOne ==
  /\ pc = "retransmit" /\ walk # <<>>
  /\ txDone[Head(walk)]
  /\ txDone' = [txDone EXCEPT ![Head(walk)] = FALSE]
  /\ driver' = driver \cup {Head(walk)}
  /\ walk' = Tail(walk)
  /\ UNCHANGED <<mark, free, appVars, socketVars, pc>>

RetransmitEnd ==
  /\ pc = "retransmit"
  /\ pc' = "idle" /\ walk' = <<>>
  /\ UNCHANGED <<packetVars, appVars, socketVars>>

(* _nx_tcp_socket_transmit_queue_flush, when the connection is reset or     *)
(* disconnected: here mark and test are one section.                        *)
FlushStart ==
  /\ pc = "idle" /\ queue # <<>>
  /\ open' = FALSE
  /\ walk' = queue /\ queue' = <<>>
  /\ pc' = "flush"
  /\ UNCHANGED <<packetVars, appVars, sentCount>>

(* Mistake: a packet the driver has is not marked, so neither frees it.     *)
FlushLeavesQueued ==
  /\ pc = "flush" /\ sentCount > 0
  /\ LET p == Head(walk)
     IN IF txDone[p] THEN PacketRelease(p, [mark EXCEPT ![p] = "ALLOCATED"])
                     ELSE UNCHANGED <<mark, txDone, free>>
  /\ walk' = Tail(walk) /\ sentCount' = sentCount - 1
  /\ UNCHANGED <<driver, appVars, queue, open, pc>>

FlushOne ==
  /\ pc = "flush" /\ sentCount > 0
  /\ LET p == Head(walk)
         m == [mark EXCEPT ![p] = "ALLOCATED"]
     IN IF txDone[p] THEN PacketRelease(p, m)
                     ELSE mark' = m /\ UNCHANGED <<txDone, free>>
  /\ walk' = Tail(walk) /\ sentCount' = sentCount - 1
  /\ UNCHANGED <<driver, appVars, queue, open, pc>>

WalkEnd ==
  /\ \/ pc = "ackMark" /\ walk = <<>>
     \/ pc = "flush" /\ sentCount = 0
  /\ pc' = "idle"
  /\ UNCHANGED <<packetVars, appVars, socketVars, walk>>

(* The socket leaves ESTABLISHED with segments still on its queue, and is   *)
(* connected again, with a new sequence number, once they are gone.         *)
Close ==
  /\ pc = "idle" /\ open
  /\ open' = FALSE
  /\ UNCHANGED <<packetVars, appVars, queue, sentCount, ipVars>>

Reopen ==
  /\ pc = "idle" /\ ~ open /\ queue = <<>>
  /\ open' = TRUE /\ sending' = Outdated(sending)
  /\ UNCHANGED <<packetVars, app, queue, sentCount, ipVars>>

IpThread ==
  \/ AckStart \/ AckMark \/ AckTest \/ AckLeave
  \/ RetransmitStart \/ RetransmitOne \/ RetransmitEnd
  \/ FlushStart \/ FlushOne \/ WalkEnd

Next ==
  \/ \E p \in Packets :
       \/ AppAllocate(p) \/ Prepare(p) \/ Number(p) \/ Send(p) \/ SendFails(p)
       \/ DriverDone(p)
  \/ IpThread
  \/ Close \/ Reopen

Spec == Init /\ [][Next]_vars

(* The driver finishes what it holds, and the IP thread finishes a walk: it *)
(* holds the mutex and blocks on nothing.                                   *)
Fairness ==
  /\ \A p \in Packets : WF_vars(DriverDone(p))
  /\ WF_vars(AckMark \/ AckTest \/ AckLeave \/ RetransmitEnd \/ FlushOne \/ WalkEnd)

FairSpec == Spec /\ Fairness
-----------------------------------------------------------------------------
In(p, s) == \E i \in 1..Len(s) : s[i] = p

(* On the queue, or taken off it and not yet visited by the walk.           *)
Queued(p) ==
  \/ In(p, queue)
  \/ pc \in {"ackMark", "flush"} /\ In(p, walk)
  \/ pc \in {"ackTest", "ackLeave"} /\ In(p, Tail(walk))

(* The socket has still to release it.                                      *)
SocketUses(p) == Queued(p) \/ (pc = "ackTest" /\ p = Head(walk) /\ txDone[p])

Users == [p \in Packets |->
            (IF p \in app THEN {"app"} ELSE {})
              \cup (IF SocketUses(p) THEN {"socket"} ELSE {})
              \cup (IF p \in driver THEN {"driver"} ELSE {})]

Shared == INSTANCE NetxSharedPacket WITH users <- Users

(* Every variable has its type.  The queue may hold more than its maximum,  *)
(* as every writer that found room in it queues, but never more than one    *)
(* packet more for each writer but the first.                               *)
TypeOK ==
  /\ mark \in [Packets -> {"FREE", "ALLOCATED", "QUEUED"}]
  /\ txDone \in [Packets -> BOOLEAN]
  /\ free \subseteq Packets /\ app \subseteq Packets /\ driver \subseteq Packets
  /\ sending \in [Packets -> {"no", "prepared", "numbered", "outdated"}]
  /\ queue \in Seq(Packets) /\ walk \in Seq(Packets)
  /\ sentCount \in 0..(QueueMaximum + Writers - 1) /\ open \in BOOLEAN
  /\ pc \in {"idle", "ackMark", "ackTest", "ackLeave", "retransmit", "flush"}

(* The two words of a queued packet tell the truth: it is marked as queued, *)
(* and NX_DRIVER_TX_DONE exactly when the driver no longer has it, so it is *)
(* never retransmitted from under the driver nor released beside it.        *)
HandshakeTrue ==
  \A p \in Packets : Queued(p) => mark[p] = "QUEUED" /\ (txDone[p] <=> p \notin driver)

(* nx_tcp_socket_transmit_sent_count counts the queue and, in a flush, what *)
(* is left of it: the flush is ended by the count and not by the list.      *)
CountTrue ==
  sentCount = Len(queue) + IF pc = "flush" THEN Len(walk) ELSE 0

(* A packet goes back to the pool with its last user, be that the ACK, the  *)
(* flush or the driver's completion, and never while another still has it.  *)
LastUserFrees == Shared!Spec

(* A segment that an ACK or a flush took off the queue is released in the   *)
(* end, by the IP thread or by the driver, whichever is last.               *)
RemovedIsFreed ==
  \A p \in Packets : (pc \in {"ackMark", "flush"} /\ In(p, walk)) ~> p \in free

(* nx_tcp_socket_state_ack_check.c:713: when the walk leaves a packet to    *)
(* the driver, "the driver has not released the packet".                    *)
LeftPacketIsWithDriver == pc = "ackLeave" => Head(walk) \in driver
=============================================================================
