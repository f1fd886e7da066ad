----------------------------- MODULE ReceiverSack -----------------------------
(***************************************************************************)
(* What a receiver's acknowledgements tell the sender: in every state of   *)
(* UtpReceiver, the mask that createFromConn makes of the receive queue,   *)
(* as it arrives.                                                          *)
(***************************************************************************)
EXTENDS UtpReceiver, Sack

Queued == QKeys(recvPacketQueue)

\* The next packet in sequence is queued and was passed over, which happens to
\* number 0 (see NothingDeliverableWaits).
PassedOver == SeqAdd(localAckNr, 1) \in Queued

\* createFromConn, for a queue that is not empty, and the way to the sender.
Announced == OnTheWire(CreateMask(localAckNr, Queued))

\* The sender takes a packet for received only if the receiver holds it, also
\* with old duplicates in the queue, wrapped numbers and a cut-off mask: it
\* forgets the packets it takes for received.
SackIsSound == Queued # {} => RemoteReceived(Announced) \subseteq Queued

\* Without old duplicates in the queue every packet beyond the gap is reported.
SackIsCompleteWithoutDuplicates ==
    Queued # {} /\ ~PassedOver /\ (\A k \in Queued : SeqGt(k, localAckNr))
        => RemoteReceived(Announced) = Queued

\* The two readers of a mask split the numbers it covers: each is either
\* received or not received, and what is queued is never called lost.
SackReadersAgree ==
    Queued # {} /\ ~PassedOver =>
        LET lost == RemoteNotReceived(Announced)
            got  == RemoteReceived(Announced)
        IN  /\ got \cap lost = {}
            /\ got \cup lost = {SeqAdd(localAckNr, d) : d \in 1 .. Announced.bytes * BitsPerByte + 1}
            /\ \A k \in Queued : SeqGt(k, localAckNr) => k \notin lost
=============================================================================
