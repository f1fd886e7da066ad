--------------------------------- MODULE Sack ---------------------------------
(***************************************************************************)
(* utp_ext_sack.ts and the part of utp_packet.ts that carries it: how the  *)
(* receiver turns its queue into a bit mask, what the one-byte length      *)
(* field of the extension leaves of the mask, and which packets the sender *)
(* reads from it.  A mask is [base, bits, bytes]: the acknowledged number, *)
(* the indices of the bits that are set, and its length in bytes.          *)
(* ReceiverSack applies it to the queues the receiver really has.          *)
(***************************************************************************)
EXTENDS SeqNr, FiniteSets

CONSTANTS
    BitsPerByte,    \* 8
    MinBytes,       \* MIN_BITMASK_LENGTH: the length is a multiple of it; 4
    LengthMod       \* the length field is a byte: 256

ASSUME SackAssumption ==
    BitsPerByte \in Nat \ {0} /\ MinBytes \in Nat \ {0} /\ LengthMod \in Nat \ {0}

CeilDiv(a, b) == (a + b - 1) \div b

\* A mask with room for all bits but the last one.
MaskBytesOneShort(last) ==
    LET words == CeilDiv(CeilDiv(last, BitsPerByte), MinBytes)
    IN  IF words = 0 THEN MinBytes ELSE words * MinBytes

\* The number of bytes for bits 0 .. last, as a multiple of MinBytes.
MaskBytes(last) ==
    LET words == CeilDiv(CeilDiv(last + 1, BitsPerByte), MinBytes)
    IN  IF words = 0 THEN MinBytes ELSE words * MinBytes

\* The bits create() sets: one for each key from firstSeq on.
BitsOf(firstSeq, K) == {SeqDiff(k, firstSeq) : k \in {k \in K : SeqGe(k, firstSeq)}}

\* create(): the last key in forward distance decides the length of the mask;
\* a key behind ackNr is almost a full circle ahead.
CreateMask(ack, K) ==
    LET firstSeq == SeqAdd(ack, 2)
        dists    == {SeqDiff(k, firstSeq) : k \in K}
        bytes    == MaskBytes(CHOOSE d \in dists : \A e \in dists : e <= d)
    IN  [base  |-> ack,
         bits  |-> {b \in BitsOf(firstSeq, K) : b < bytes * BitsPerByte},
         bytes |-> bytes]

\* toBytes() writes the length into one byte, fromBytes() takes that many bytes.
OnTheWire(m) ==
    LET bytes == m.bytes % LengthMod
    IN  [m EXCEPT !.bytes = bytes, !.bits = {b \in @ : b < bytes * BitsPerByte}]

\* The mask starts at ackNr + 1 for the reader and at ackNr + 2 for the writer.
ReceivedFromNext(m) == {SeqAdd(SeqAdd(m.base, 1), b) : b \in m.bits}

RemoteReceived(m) == {SeqAdd(SeqAdd(m.base, 2), b) : b \in m.bits}

\* The two readers do not start at the same number.
NotReceivedFromNext(m) ==
    {SeqAdd(SeqAdd(m.base, 1), b) : b \in (0 .. m.bytes * BitsPerByte - 1) \ m.bits}

\* getRemoteNotReceivedSeqNrs: the clear bits of the mask, and base + 1.
RemoteNotReceived(m) ==
    {SeqAdd(m.base, 1)} \cup
    {SeqAdd(SeqAdd(m.base, 2), b) : b \in (0 .. m.bytes * BitsPerByte - 1) \ m.bits}
=============================================================================
