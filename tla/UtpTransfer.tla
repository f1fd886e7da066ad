----------------------------- MODULE UtpTransfer -----------------------------
(***************************************************************************)
(* One direction of a connection, end to end: the send window of one side  *)
(* (UtpSendWindow), the receiving half of the other (UtpReceiver) and the  *)
(* UDP network between them, which reorders, delays, duplicates and loses  *)
(* packets of both kinds.                                                  *)
(***************************************************************************)
EXTENDS Integers, Sequences, FiniteSets

CONSTANTS
    SeqMod, FirstSeq, MinWindow, MaxWindow, ResendTimesLimit, RemoteWindows,
    MaxCongestionWindow, Roles, QueueCapacity, NumData,
    BitsPerByte, MinBytes, LengthMod,
    MaxLoss,         \* bound: packets the network loses
    MaxDup,          \* bound: packets the network delivers twice
    AccurateTimers,  \* TRUE: the timer that runs since a packet was sent runs
                     \* out only when no copy of the packet and no ACK is in
                     \* flight, and before the keep-alive timer of 29 s
    MayClose         \* the writer closes "never", "early" (at any time after
                     \* the last write) or "idle" (once its window is empty)

ASSUME TransferAssumption ==
    /\ SeqMod \in Nat /\ SeqMod > 3 /\ SeqMod % 2 = 0
    /\ FirstSeq \in 0 .. SeqMod - 1
    /\ MinWindow \in Nat \ {0} /\ MaxWindow \in Nat /\ MinWindow <= MaxWindow
    /\ MaxCongestionWindow \in Nat /\ MaxWindow <= MaxCongestionWindow
    /\ ResendTimesLimit \in Nat \ {0}
    /\ RemoteWindows \subseteq Nat
    /\ Roles \subseteq {"initiator", "responder"}
    /\ QueueCapacity \in Nat \ {0} /\ NumData \in Nat
    /\ BitsPerByte \in Nat \ {0} /\ MinBytes \in Nat \ {0} /\ LengthMod \in Nat \ {0}
    /\ MaxLoss \in Nat /\ MaxDup \in Nat
    /\ AccurateTimers \in BOOLEAN
    /\ MayClose \in {"never", "early", "idle"}

VARIABLES
    connState, localSeqNr, packetMap, latest, remoteWindow, ccWindow,
    totalAcked, written, acked, lost, discarded,
    isInitiator, localState, localAckNr, recvPacketQueue, remoteFinPacket,
    localFinPacket, closedForWriting, consumed,
    net,     \* copies in flight of each packet of the stream
    acks,    \* ACKs in flight: [ackNr, sack]
    losses,  \* packets lost so far
    dups     \* packets duplicated so far

W == INSTANCE UtpSendWindow WITH MaxPackets <- NumData
R == INSTANCE UtpReceiver WITH PeerWindow <- NumData + 1, MaxAge <- NumData + 1
Mask == INSTANCE Sack

sendVars == <<connState, localSeqNr, packetMap, latest, remoteWindow, ccWindow,
              totalAcked, written, acked, lost, discarded>>
recvVars == <<isInitiator, localState, localAckNr, recvPacketQueue, remoteFinPacket,
              localFinPacket, closedForWriting, consumed>>
netVars == <<net, acks, losses, dups>>
transferVars == <<sendVars, recvVars, netVars>>

Packets == R!Packets
FIN == R!FIN

TransferInit ==
    /\ W!Init
    /\ R!RecvInit
    /\ net = [i \in Packets |-> 0]
    /\ acks = {}
    /\ losses = 0
    /\ dups = 0

-----------------------------------------------------------------------------
(* The sending side *)

\* Puts one copy of each packet with a number in S on the wire.
Transmit(S) ==
    net' = [i \in Packets |-> IF i # FIN /\ R!PacketSeq(i) \in S THEN net[i] + 1 ELSE net[i]]

\* sendUtpPacket: whatever the window lets in is sent once waitForAck resolves.
TransmitAdmitted == Transmit(W!Keys(packetMap') \ W!Keys(packetMap))

\* The writer has its connection only after the reader's side has seen the
\* handshake through.
Write ==
    /\ localState # "SYN_SENT"
    /\ W!WaitForAck
    /\ TransmitAdmitted
    /\ UNCHANGED <<recvVars, acks, losses, dups>>

\* Whether the timer of packet s can have run out since it was sent.
TimerRunsOut(s) ==
    AccurateTimers =>
        /\ acks = {}
        /\ \A i \in Packets : R!PacketSeq(i) = s => net[i] = 0

\* The clock of a packet starts when its writer asks for room, so that the
\* first timer of one that had to wait may have run out as soon as it is sent.
FirstTimer(s) == s \in W!Keys(packetMap) /\ packetMap.map[s] = 0

Retransmit(s) ==
    /\ TimerRunsOut(s) \/ FirstTimer(s)
    /\ W!Resend(s)
    /\ Transmit({s})
    /\ UNCHANGED <<recvVars, acks, losses, dups>>

Abandon(s) ==
    /\ TimerRunsOut(s)
    /\ W!GiveUp(s)
    /\ TransmitAdmitted
    /\ UNCHANGED <<recvVars, acks, losses, dups>>

\* close() sends the FIN in CS_CLOSE_WAIT.
SendsFin == net' = [net EXCEPT ![FIN] = @ + 1]

\* close(): the state changes first, so that sendUtpPacket sends the FIN past
\* the window, once.
CloseWriter ==
    /\ MayClose # "never"
    /\ written = NumData
    /\ MayClose = "idle" => W!Keys(packetMap) = {} /\ packetMap.waiting = <<>>
    /\ W!Close
    /\ SendsFin
    /\ UNCHANGED <<recvVars, acks, losses, dups>>

\* The writer's connection leaves the table: its window is empty (trySafeRelease),
\* or close() has lasted too long (forceClose).
ReleaseWriter ==
    /\ W!Release
    /\ UNCHANGED <<recvVars, netVars>>

-----------------------------------------------------------------------------
(* The receiving side *)

\* What reaches the sender of the mask for the queued packets K: nothing is
\* set for an empty queue, and the length field may cut the mask.
SackOf(ackNr, K) ==
    IF K = {} THEN {} ELSE Mask!RemoteReceived(Mask!OnTheWire(Mask!CreateMask(ackNr, K)))

\* The highest packet received is acknowledged, not the last one in sequence.
ReceiverAcksHighest(ackNr, K) ==
    [ackNr |-> CHOOSE k \in K \cup {ackNr} : \A j \in K : W!SeqGe(k, j), sack |-> {}]

\* What the receiver acknowledges with.
ReceiverAcks(ackNr, K) == [ackNr |-> ackNr, sack |-> SackOf(ackNr, K)]

SendsAck == acks' = acks \cup {ReceiverAcks(localAckNr', R!QKeys(recvPacketQueue'))}

\* A copy arrives; the network may keep another one for later.
TakeFromNet(i) ==
    /\ net[i] > 0
    /\ \/ net' = [net EXCEPT ![i] = @ - 1] /\ dups' = dups
       \/ net' = net /\ dups < MaxDup /\ dups' = dups + 1
    /\ UNCHANGED losses

SynAck ==
    /\ R!HandleAtSynSent
    /\ UNCHANGED <<sendVars, netVars>>

ReceiveFirst(i) ==
    /\ TakeFromNet(i)
    /\ R!HandleAtSynReceived(i)
    /\ SendsAck
    /\ UNCHANGED sendVars

ReceiveData(i) ==
    /\ TakeFromNet(i)
    /\ R!HandleData(i)
    /\ SendsAck
    /\ UNCHANGED sendVars

\* The reader has nothing to send: its window is empty, it is closed at once and
\* does not acknowledge the FIN.
ReceiveFin ==
    /\ TakeFromNet(FIN)
    /\ R!HandleFin(TRUE)
    /\ UNCHANGED <<sendVars, acks>>

\* Dropped packets are not acknowledged either.
ReceiveIgnored(i) ==
    /\ TakeFromNet(i)
    /\ R!Ignored(i)
    /\ UNCHANGED <<sendVars, recvVars, acks>>

\* timeoutCheck after 29 s without a packet sent.
KeepAlive ==
    /\ localState \in {"SYN_RECV", "CONNECTED"}
    /\ acks = {}
    /\ AccurateTimers => W!Keys(packetMap) = {}
    /\ UNCHANGED <<sendVars, recvVars, net, losses, dups>>
    /\ SendsAck

-----------------------------------------------------------------------------
(* ACKs and losses *)

ReceiveAck(ack) ==
    /\ ack \in acks
    /\ \/ acks' = acks \ {ack} /\ dups' = dups
       \/ acks' = acks /\ dups < MaxDup /\ dups' = dups + 1
    /\ \E remote \in RemoteWindows : W!HandleAck(ack.ackNr, ack.sack, remote)
    /\ TransmitAdmitted
    /\ UNCHANGED <<recvVars, losses>>

\* The writer's connection is out of the table.
AckTooLate(ack) ==
    /\ ack \in acks
    /\ ~W!InTable
    /\ acks' = acks \ {ack}
    /\ UNCHANGED <<sendVars, recvVars, net, losses, dups>>

LosePacket(i) ==
    /\ net[i] > 0
    /\ losses < MaxLoss
    /\ net' = [net EXCEPT ![i] = @ - 1]
    /\ losses' = losses + 1
    /\ UNCHANGED <<sendVars, recvVars, acks, dups>>

LoseAck(ack) ==
    /\ ack \in acks
    /\ losses < MaxLoss
    /\ acks' = acks \ {ack}
    /\ losses' = losses + 1
    /\ UNCHANGED <<sendVars, recvVars, net, dups>>

TransferNext ==
    \/ Write
    \/ \E s \in W!SeqNrs : Retransmit(s)
    \/ \E s \in W!SeqNrs : Abandon(s)
    \/ CloseWriter
    \/ ReleaseWriter
    \/ SynAck
    \/ \E i \in Packets : ReceiveFirst(i)
    \/ \E i \in Packets : ReceiveData(i)
    \/ ReceiveFin
    \/ \E i \in Packets : ReceiveIgnored(i)
    \/ KeepAlive
    \/ \E ack \in acks : ReceiveAck(ack)
    \/ \E ack \in acks : AckTooLate(ack)
    \/ \E i \in Packets : LosePacket(i)
    \/ \E ack \in acks : LoseAck(ack)

TransferSpec == TransferInit /\ [][TransferNext]_transferVars

\* The network delivers the data that it does not lose, the timers run, and the
\* application writes what it has to write.  ACKs need not arrive, and nobody need
\* close.
TransferFairness ==
    /\ WF_transferVars(SynAck)
    /\ WF_transferVars(Write)
    /\ \A i \in Packets :
          WF_transferVars(ReceiveFirst(i) \/ ReceiveData(i) \/ ReceiveIgnored(i))
    /\ WF_transferVars(\E s \in W!Keys(packetMap) : Retransmit(s) \/ Abandon(s))

FairTransferSpec == TransferSpec /\ TransferFairness

-----------------------------------------------------------------------------
(* Properties *)

\* The writer does not close, or it closes when its window is empty and packets
\* are given up only after the network has delivered a copy: the timers are
\* accurate, and it loses no more copies than a packet is resent.
OrderlyClose ==
    \/ MayClose = "never"
    \/ MayClose = "idle" /\ AccurateTimers /\ MaxLoss <= ResendTimesLimit

\* The transfer keeps the promise of ByteStream: an initiator reads the stream
\* from its first packet on, a responder from the packet it got first, and with
\* an orderly close neither meets the end before the last packet.
Stream ==
    INSTANCE ByteStream WITH
        MayCutShort <- ~OrderlyClose,
        knowsStart <- isInitiator,
        writtenCount <- written,
        delivered <- [j \in {j \in 1 .. Len(consumed) : consumed[j] # FIN} |-> consumed[j]],
        ended <- connState # "CONNECTED",
        eof <- closedForWriting

ImplementsByteStream == Stream!StreamSpec

\* The packets before the one with which a responder has started.
Skipped(i) == ~isInitiator /\ consumed # <<>> /\ i < consumed[1]

\* What the sender has struck off because the receiver acknowledged it, the
\* receiver has consumed or still holds, unless it is a responder that started
\* behind it: neither a cumulative nor a selective acknowledgement loses any
\* other data, in whatever order and however late ACKs arrive.
AckedIsHeld ==
    \A i \in 1 .. NumData :
        R!PacketSeq(i) \in acked =>
            \/ \E j \in 1 .. Len(consumed) : consumed[j] = i
            \/ R!PacketSeq(i) \in R!QKeys(recvPacketQueue) /\ recvPacketQueue.items[R!PacketSeq(i)] = i
            \/ Skipped(i)

\* If the network loses no more copies than a packet is resent, and the writer
\* does not close, the reader gets everything in the end, from the packet it
\* started with, the first one for an initiator, up to the last, whatever the
\* timers do and although ACKs may all be lost.
AllDelivered ==
    [](connState = "CONNECTED") =>
    <>(\E first \in 1 .. NumData :
          /\ isInitiator => first = 1
          /\ \A i \in first .. NumData : \E j \in 1 .. Len(consumed) : consumed[j] = i)
=============================================================================
