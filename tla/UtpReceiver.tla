----------------------------- MODULE UtpReceiver -----------------------------
(***************************************************************************)
(* The receiving half of utp_conn.ts: how a connection becomes CONNECTED,  *)
(* what it does with DATA and FIN packets in every state, and what of them *)
(* reaches the receive buffer.                                             *)
(*                                                                         *)
(* The peer's stream is packets 1 .. NumData of data and packet            *)
(* NumData + 1, its FIN; a packet is its index and is numbered on the wire *)
(* by PacketSeq.  The network reorders, duplicates, delays and loses:      *)
(* any packet of the stream may arrive at any moment, if it is not further *)
(* ahead of or behind the packets already consumed than PeerWindow and     *)
(* MaxAge.  The receive loop of the socket awaits every handler before it  *)
(* receives the next packet, so a handler is one step here.                *)
(***************************************************************************)
EXTENDS SeqNr, CircularQueue, Sequences

CONSTANTS
    Roles,          \* roles to consider: "initiator" (sent the SYN), "responder"
    FirstSeq,       \* sequence number of the peer's first data packet
    QueueCapacity,  \* 8192 for the initiator, 4096 for the responder
    NumData,        \* bound: data packets in the peer's stream
    PeerWindow,     \* how far ahead of the consumed packets one may arrive
    MaxAge          \* how far behind the consumed packets one may arrive

ASSUME ReceiverAssumption ==
    /\ Roles \subseteq {"initiator", "responder"}
    /\ FirstSeq \in SeqNrs
    /\ QueueCapacity \in Nat \ {0}
    /\ NumData \in Nat /\ PeerWindow \in Nat /\ MaxAge \in Nat

VARIABLES
    isInitiator,      \* isInitiator
    localState,       \* _localState
    localAckNr,       \* _localAckNr
    recvPacketQueue,  \* recvPacketQueue
    remoteFinPacket,  \* #remoteFinPacket: the FIN's index, or NoPacket
    localFinPacket,   \* whether #localFinPacket has been sent
    closedForWriting, \* recvBuffer after drain(): reads get EOF once it is empty
    consumed          \* history: packets taken from the queue in sequence; the
                      \* data packets among them were written to recvBuffer

recvVars == <<isInitiator, localState, localAckNr, recvPacketQueue, remoteFinPacket,
              localFinPacket, closedForWriting, consumed>>

Packets == 1 .. NumData + 1
FIN == NumData + 1
NoPacket == 0

PacketSeq(i) == SeqAdd(FirstSeq, i - 1)

RecvTypeOK ==
    /\ isInitiator \in BOOLEAN
    /\ localState \in {"SYN_SENT", "SYN_RECV", "CONNECTED", "CLOSE_WAIT", "CLOSED", "RESET"}
    /\ localAckNr \in SeqNrs
    /\ QKeys(recvPacketQueue) \subseteq SeqNrs
    /\ recvPacketQueue \in [items : [QKeys(recvPacketQueue) -> Packets], oldest : SeqNrs \cup {NoKey}]
    /\ remoteFinPacket \in {NoPacket, FIN}
    /\ localFinPacket \in BOOLEAN
    /\ closedForWriting \in BOOLEAN
    /\ consumed \in Seq(Packets)

\* The initiator starts in CS_SYN_SENT with ackNr 0; the responder in
\* CS_SYN_RECV with the SYN's number, one before the first data packet's.
RecvInit ==
    /\ isInitiator \in {role = "initiator" : role \in Roles}
    /\ localState = IF isInitiator THEN "SYN_SENT" ELSE "SYN_RECV"
    /\ localAckNr = IF isInitiator THEN 0 ELSE SeqAdd(FirstSeq, -1)
    /\ recvPacketQueue = EmptyQueue
    /\ remoteFinPacket = NoPacket
    /\ localFinPacket = FALSE
    /\ closedForWriting = FALSE
    /\ consumed = <<>>

-----------------------------------------------------------------------------
(* processReceivedPackets *)

\* The loop takes one packet (`if` for `while`).
RunLengthAtMostOne(ackNr, K) == IF SeqAdd(ackNr, 1) \in K THEN 1 ELSE 0

\* How many keys the loop over keys() takes: keys come in numerical order, so
\* it takes the run that starts after ackNr and ends at the first gap or at the
\* largest number; the run does not continue from 0.
RunLength(ackNr, K) ==
    LET first == SeqAdd(ackNr, 1)
    IN  CHOOSE n \in 0 .. SeqMod :
            /\ \A i \in 0 .. n - 1 : first + i \in K
            /\ first + n \notin K

\* The loop takes the smallest keys without comparing them with ackNr.
ProcessInKeyOrder(r) ==
    LET K == QKeys(r.queue)
    IN  IF K = {} THEN r
        ELSE [ackNr    |-> SmallestKey(K),
              queue    |-> Dequeue(r.queue, {SmallestKey(K)}),
              consumed |-> Append(r.consumed, r.queue.items[SmallestKey(K)])]

\* ackNr follows only the first packet of a run.
ProcessKeepingAckNr(r) ==
    LET first == SeqAdd(r.ackNr, 1)
        n     == RunLength(r.ackNr, QKeys(r.queue))
    IN  [ackNr    |-> IF n = 0 THEN r.ackNr ELSE first,
         queue    |-> Dequeue(r.queue, first .. first + n - 1),
         consumed |-> r.consumed \o [i \in 1 .. n |-> r.queue.items[first + i - 1]]]

\* r is the part of the connection the loop works on: its ackNr, its queue and
\* what it has consumed.
ProcessReceivedPackets(r) ==
    LET first == SeqAdd(r.ackNr, 1)
        n     == RunLength(r.ackNr, QKeys(r.queue))
    IN  [ackNr    |-> SeqAdd(r.ackNr, n),
         queue    |-> Dequeue(r.queue, first .. first + n - 1),
         consumed |-> r.consumed \o [i \in 1 .. n |-> r.queue.items[first + i - 1]]]

-----------------------------------------------------------------------------
(* handleIncomingPacket, by state *)

\* The SYN-ACK: an ST_STATE packet with the number of the peer's first data
\* packet, which it does not use up.
HandleAtSynSent ==
    /\ localState = "SYN_SENT"
    /\ localAckNr' = SeqAdd(FirstSeq, -1)
    /\ localState' = "CONNECTED"
    /\ UNCHANGED <<isInitiator, recvPacketQueue, remoteFinPacket, localFinPacket,
                   closedForWriting, consumed>>

\* The first data packet to arrive sets ackNr and is written to the buffer,
\* whatever its number.  (Its ackNr acknowledges the SYN-ACK, as the ackNr of
\* every packet does that the peer sends before it has received data.)
HandleAtSynReceived(i) ==
    /\ localState = "SYN_RECV"
    /\ i # FIN
    /\ localAckNr' = PacketSeq(i)
    /\ localState' = "CONNECTED"
    /\ consumed' = Append(consumed, i)
    /\ UNCHANGED <<isInitiator, recvPacketQueue, remoteFinPacket, localFinPacket, closedForWriting>>

\* Whether handleAtConnected drops the packet before it looks at the queue.
Dropped(i) ==
    \/ PacketSeq(i) = localAckNr
    \/ remoteFinPacket # NoPacket /\ SeqGt(PacketSeq(i), PacketSeq(remoteFinPacket))

\* A full queue is processed once more, the packet is queued, and the queue is
\* processed.
AfterQueueing(i) ==
    LET before == [ackNr |-> localAckNr, queue |-> recvPacketQueue, consumed |-> consumed]
        room   == IF IsAtCapacity(recvPacketQueue, QueueCapacity)
                  THEN ProcessReceivedPackets(before) ELSE before
    IN  ProcessReceivedPackets(
            [room EXCEPT !.queue = Enqueue(@, QueueCapacity, PacketSeq(i), i)])

HandleData(i) ==
    /\ localState = "CONNECTED"
    /\ i # FIN
    /\ ~Dropped(i)
    /\ LET after == AfterQueueing(i)
       IN  /\ localAckNr' = after.ackNr
           /\ recvPacketQueue' = after.queue
           /\ consumed' = after.consumed
    /\ UNCHANGED <<isInitiator, localState, remoteFinPacket, localFinPacket, closedForWriting>>

\* The FIN branch: it answers with the local FIN, lets reads end, and releases
\* the connection at once if nothing unacknowledged is in its send window.
HandleFin(sendWindowEmpty) ==
    /\ localState = "CONNECTED"
    /\ ~Dropped(FIN)
    /\ LET after == AfterQueueing(FIN)
       IN  /\ localAckNr' = after.ackNr
           /\ recvPacketQueue' = after.queue
           /\ consumed' = after.consumed
    /\ remoteFinPacket' = FIN
    /\ localFinPacket' = TRUE
    /\ closedForWriting' = TRUE
    /\ localState' = IF sendWindowEmpty THEN "CLOSED" ELSE "CLOSE_WAIT"
    /\ UNCHANGED isInitiator

\* The packets that change nothing: duplicates of the newest packet, what is
\* not DATA before the first DATA, and everything after CONNECTED or before the
\* SYN-ACK.
Ignored(i) ==
    \/ localState \in {"SYN_SENT", "CLOSE_WAIT", "CLOSED", "RESET"}
    \/ localState = "SYN_RECV" /\ i = FIN
    \/ localState = "CONNECTED" /\ Dropped(i)

\* A RST packet reaches every connection of the table: reset().
HandleReset ==
    /\ localState \notin {"CLOSED", "RESET"}
    /\ localState' = "RESET"
    /\ recvPacketQueue' = EmptyQueue
    /\ remoteFinPacket' = NoPacket
    /\ UNCHANGED <<isInitiator, localAckNr, localFinPacket, closedForWriting, consumed>>

\* The application closes its side: from here on DATA and FIN are ignored.
LocalClose ==
    /\ localState = "CONNECTED"
    /\ localState' = "CLOSE_WAIT"
    /\ localFinPacket' = TRUE
    /\ UNCHANGED <<isInitiator, localAckNr, recvPacketQueue, remoteFinPacket,
                   closedForWriting, consumed>>

MayArrive(i) == i - Len(consumed) \in -MaxAge .. PeerWindow

RecvNext ==
    \/ HandleAtSynSent
    \/ \E i \in Packets : MayArrive(i) /\ HandleAtSynReceived(i)
    \/ \E i \in Packets : MayArrive(i) /\ HandleData(i)
    \/ \E empty \in BOOLEAN : MayArrive(FIN) /\ HandleFin(empty)
    \/ \E i \in Packets : MayArrive(i) /\ Ignored(i) /\ UNCHANGED recvVars
    \/ LocalClose
    \/ HandleReset

RecvSpec == RecvInit /\ [][RecvNext]_recvVars

-----------------------------------------------------------------------------
(* Properties *)

\* What is consumed is one gap-free, duplicate-free stretch of the peer's
\* stream in its order, whatever the network does with the packets; the
\* initiator, whom the SYN-ACK has told where the stream starts, gets it from
\* its first packet on.
ConsumedInOrder ==
    /\ \A i \in 2 .. Len(consumed) : consumed[i] = consumed[i - 1] + 1
    /\ isInitiator /\ consumed # <<>> => consumed[1] = 1

\* ackNr, which acknowledges everything before it to the peer, is the number of
\* the last packet consumed.
AckNrIsLastConsumed ==
    consumed # <<>> => localAckNr = PacketSeq(consumed[Len(consumed)])

\* The cached #oldestKey is the smallest key after any sequence of enqueue,
\* eviction and dequeue, and the queue never outgrows its capacity.
OldestKeyIsSmallest ==
    /\ recvPacketQueue.oldest = OldestOf(QKeys(recvPacketQueue))
    /\ Cardinality(QKeys(recvPacketQueue)) <= QueueCapacity

\* No packet that could be delivered is left in the queue once a handler is
\* done, but for the one with number 0: keys() puts it before the packets that
\* precede it in the stream.
NothingDeliverableWaits ==
    localState = "CONNECTED" => SeqAdd(localAckNr, 1) \notin QKeys(recvPacketQueue) \ {0}

\* Reads report the end of the stream only if all data before the FIN was
\* written to the buffer.
EofMeansAllData == closedForWriting => Len(consumed) >= NumData

\* A packet ahead of ackNr stays in the queue until it is consumed: the peer
\* has seen it selectively acknowledged and will not send it again.  Only where
\* the numbers wrap between old duplicates in a full queue and the packets
\* ahead, so that these have the smaller numbers, may one of them be evicted.
QueuedUntilConsumed ==
    [][\A k \in QKeys(recvPacketQueue) :
          k \notin QKeys(recvPacketQueue') =>
             \/ SeqLe(k, localAckNr) \/ localState' = "RESET"
             \/ \E j \in QKeys(recvPacketQueue) : SeqLt(j, localAckNr) /\ k < j
             \/ \E j \in Len(consumed) + 1 .. Len(consumed') :
                   consumed'[j] = recvPacketQueue.items[k]]_recvVars
=============================================================================
