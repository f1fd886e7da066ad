-------------------------- MODULE UtpTransferProofs --------------------------
(***************************************************************************)
(* What the two ends of a connection and the network between them achieve  *)
(* together, for either role of the reader, accurate and early timers, any *)
(* close, and every modulus, window, queue capacity and number of lost or  *)
(* duplicated packets: nothing acknowledged is lost, and the transfer      *)
(* implements ByteStream.  The one hypothesis is ShortTransfer: the stream *)
(* is shorter than half a round of the numbers and than the queue.  (When  *)
(* the numbers wrap, packet 0 may stay in the queue, which the code passes *)
(* over there: nothing is lost or misplaced, but the stream stops.)        *)
(*                                                                         *)
(* UtpTransfer takes its two ends from the instances W and R.  The facts   *)
(* proved about them are in WP and RP, instances of the modules of proofs  *)
(* with the same parameters.                                               *)
(***************************************************************************)
EXTENDS UtpTransfer, TLAPS

WP == INSTANCE UtpSendWindowProofs WITH MaxPackets <- NumData
RP == INSTANCE UtpReceiverProofs WITH
          PeerWindow <- NumData + 1, MaxAge <- NumData + 1

-----------------------------------------------------------------------------
(* The instances *)

\* The parameters are what the receiving half takes for granted.
LEMMA ReaderAssumes == RP!SeqModAssumption /\ RP!ReceiverAssumption /\ RP!SackAssumption
<1>1. RP!SeqModAssumption
  BY TransferAssumption DEF RP!SeqModAssumption
<1>2. RP!ReceiverAssumption
  BY TransferAssumption DEF RP!ReceiverAssumption, RP!SeqNrs
<1>3. RP!SackAssumption
  BY TransferAssumption DEF RP!SackAssumption
<1> QED
  BY <1>1, <1>2, <1>3

\* The parameters are what the send window takes for granted.
LEMMA WriterAssumes == WP!SeqModAssumption /\ WP!SendWindowAssumption
<1>1. WP!SeqModAssumption
  BY TransferAssumption DEF WP!SeqModAssumption
<1>2. WP!SendWindowAssumption
  BY TransferAssumption DEF WP!SendWindowAssumption, WP!SeqNrs
<1> QED
  BY <1>1, <1>2

\* RP is about the receiving half that R is.
LEMMA SameReader ==
    /\ R!Packets = RP!Packets /\ R!FIN = RP!FIN
    /\ \A i : R!PacketSeq(i) = RP!PacketSeq(i)
    /\ \A q : R!QKeys(q) = RP!QKeys(q)
    /\ R!RecvInit <=> RP!RecvInit
    /\ R!HandleAtSynSent <=> RP!HandleAtSynSent
    /\ \A i : R!HandleAtSynReceived(i) <=> RP!HandleAtSynReceived(i)
    /\ \A i : R!HandleData(i) <=> RP!HandleData(i)
    /\ R!HandleFin(TRUE) <=> RP!HandleFin(TRUE)
    /\ \A i : R!Ignored(i) <=> RP!Ignored(i)
<1>1. ASSUME NEW i PROVE R!PacketSeq(i) = RP!PacketSeq(i)
  BY DEF R!PacketSeq, RP!PacketSeq, R!SeqAdd, RP!SeqAdd
<1>2. ASSUME NEW i PROVE R!AfterQueueing(i) = RP!AfterQueueing(i)
  <2>1. ASSUME NEW q, NEW c PROVE R!IsAtCapacity(q, c) <=> RP!IsAtCapacity(q, c)
    BY DEF R!IsAtCapacity, RP!IsAtCapacity, R!QKeys, RP!QKeys, R!Cardinality, RP!Cardinality,
           R!IsFiniteSet, RP!IsFiniteSet
  <2>2. ASSUME NEW K PROVE R!OldestOf(K) = RP!OldestOf(K)
    BY DEF R!OldestOf, RP!OldestOf, R!SmallestKey, RP!SmallestKey, R!NoKey, RP!NoKey
  <2>3. ASSUME NEW q, NEW c, NEW k, NEW item PROVE R!Enqueue(q, c, k, item) = RP!Enqueue(q, c, k, item)
    BY <2>1, <2>2 DEF R!Enqueue, RP!Enqueue, R!QKeys, RP!QKeys
  <2>4. ASSUME NEW r PROVE R!ProcessReceivedPackets(r) = RP!ProcessReceivedPackets(r)
    <3>1. ASSUME NEW a, NEW K PROVE R!RunLength(a, K) = RP!RunLength(a, K)
      BY DEF R!RunLength, RP!RunLength, R!SeqAdd, RP!SeqAdd
    <3>2. ASSUME NEW q, NEW K PROVE R!Dequeue(q, K) = RP!Dequeue(q, K)
      BY <2>2 DEF R!Dequeue, RP!Dequeue, R!QKeys, RP!QKeys
    <3> QED
      BY <3>1, <3>2 DEF R!ProcessReceivedPackets, RP!ProcessReceivedPackets, R!QKeys, RP!QKeys,
                        R!SeqAdd, RP!SeqAdd
  <2> QED
    BY <1>1, <2>1, <2>3, <2>4 DEF R!AfterQueueing, RP!AfterQueueing
<1>3. R!FIN = RP!FIN /\ R!Packets = RP!Packets
  BY DEF R!FIN, RP!FIN, R!Packets, RP!Packets
<1>4. ASSUME NEW i PROVE R!Dropped(i) <=> RP!Dropped(i)
  BY <1>1 DEF R!Dropped, RP!Dropped, R!NoPacket, RP!NoPacket, R!SeqGt, RP!SeqGt, R!SeqLt, RP!SeqLt,
              R!SeqDiff, RP!SeqDiff, R!HalfSeq, RP!HalfSeq
<1>5. ASSUME NEW q PROVE R!QKeys(q) = RP!QKeys(q)
  BY DEF R!QKeys, RP!QKeys
<1>6. R!RecvInit <=> RP!RecvInit
  BY DEF R!RecvInit, RP!RecvInit, R!SeqAdd, RP!SeqAdd, R!EmptyQueue, RP!EmptyQueue, R!NoKey, RP!NoKey,
         R!NoPacket, RP!NoPacket
<1>7. R!HandleAtSynSent <=> RP!HandleAtSynSent
  BY DEF R!HandleAtSynSent, RP!HandleAtSynSent, R!SeqAdd, RP!SeqAdd
<1>8. ASSUME NEW i PROVE R!HandleAtSynReceived(i) <=> RP!HandleAtSynReceived(i)
  BY <1>1, <1>3 DEF R!HandleAtSynReceived, RP!HandleAtSynReceived
<1>9. ASSUME NEW i PROVE R!HandleData(i) <=> RP!HandleData(i)
  BY <1>2, <1>3, <1>4 DEF R!HandleData, RP!HandleData
<1>10. R!HandleFin(TRUE) <=> RP!HandleFin(TRUE)
  BY <1>2, <1>3, <1>4 DEF R!HandleFin, RP!HandleFin
<1>11. ASSUME NEW i PROVE R!Ignored(i) <=> RP!Ignored(i)
  BY <1>3, <1>4 DEF R!Ignored, RP!Ignored
<1> QED
  BY <1>1, <1>3, <1>5, <1>6, <1>7, <1>8, <1>9, <1>10, <1>11

\* WP is about the send window that W is.
LEMMA SameWriter ==
    /\ W!SeqNrs = WP!SeqNrs
    /\ \A a, n : W!SeqAdd(a, n) = WP!SeqAdd(a, n)
    /\ \A a, b : W!SeqGe(a, b) <=> WP!SeqGe(a, b)
    /\ \A bm : W!Keys(bm) = WP!Keys(bm)
    /\ W!InTable <=> WP!InTable
    /\ W!Init <=> WP!Init
    /\ W!WaitForAck <=> WP!WaitForAck
    /\ \A a, sack, r : W!HandleAck(a, sack, r) <=> WP!HandleAck(a, sack, r)
    /\ \A s : W!Resend(s) <=> WP!Resend(s)
    /\ \A s : W!GiveUp(s) <=> WP!GiveUp(s)
    /\ W!Close <=> WP!Close
    /\ W!Release <=> WP!Release
<1>1. /\ W!SeqNrs = WP!SeqNrs
      /\ \A a, n : W!SeqAdd(a, n) = WP!SeqAdd(a, n)
      /\ \A bm : W!Keys(bm) = WP!Keys(bm)
      /\ \A m, c, w : W!BM(m, c, w) = WP!BM(m, c, w)
      /\ \A a, b : W!MaxOf(a, b) = WP!MaxOf(a, b) /\ W!MinOf(a, b) = WP!MinOf(a, b)
      /\ W!Undefined = WP!Undefined /\ W!Fresh = WP!Fresh
      /\ W!InTable <=> WP!InTable
  BY DEF W!SeqNrs, WP!SeqNrs, W!SeqAdd, WP!SeqAdd, W!Keys, WP!Keys, W!BM, WP!BM, W!MaxOf, WP!MaxOf,
         W!MinOf, WP!MinOf, W!Undefined, WP!Undefined, W!Fresh, WP!Fresh, W!InTable, WP!InTable
<1>2. ASSUME NEW a, NEW b
      PROVE  (W!SeqGe(a, b) <=> WP!SeqGe(a, b)) /\ (W!SeqGt(a, b) <=> WP!SeqGt(a, b))
  BY DEF W!SeqGe, WP!SeqGe, W!SeqGt, WP!SeqGt, W!SeqLt, WP!SeqLt, W!SeqDiff, WP!SeqDiff,
         W!HalfSeq, WP!HalfSeq
<1>3. ASSUME NEW S PROVE W!Cardinality(S) = WP!Cardinality(S)
  BY DEF W!Cardinality, WP!Cardinality, W!IsFiniteSet, WP!IsFiniteSet
<1>4. ASSUME NEW bm PROVE W!ResolveNextSetter(bm) = WP!ResolveNextSetter(bm)
  <2>1. ASSUME NEW n PROVE W!KeysAfter(bm, n) = WP!KeysAfter(bm, n)
    BY <1>1 DEF W!KeysAfter, WP!KeysAfter
  <2>2. ASSUME NEW n PROVE W!HasRoomAfter(bm, n) <=> WP!HasRoomAfter(bm, n)
    BY <1>3, <2>1 DEF W!HasRoomAfter, WP!HasRoomAfter
  <2>3. ASSUME NEW n PROVE W!LetIn(bm, n) = WP!LetIn(bm, n)
    BY <1>1, <2>1 DEF W!LetIn, WP!LetIn
  <2>4. W!AdmitCount(bm) = WP!AdmitCount(bm)
    BY <2>2 DEF W!AdmitCount, WP!AdmitCount
  <2> QED
    BY <2>3, <2>4 DEF W!ResolveNextSetter, WP!ResolveNextSetter
<1>5. /\ \A bm, k : W!BMSet(bm, k) = WP!BMSet(bm, k)
      /\ \A bm, K : W!BMDelete(bm, K) = WP!BMDelete(bm, K)
      /\ \A bm, c : W!BMUpdateCapacity(bm, c) = WP!BMUpdateCapacity(bm, c)
  <2>1. ASSUME NEW bm, NEW k PROVE W!BMSet(bm, k) = WP!BMSet(bm, k)
    <3>1. W!Put(bm, k) = WP!Put(bm, k)
      BY <1>1 DEF W!Put, WP!Put
    <3> QED
      BY <1>1, <1>3, <1>4, <3>1 DEF W!BMSet, WP!BMSet, W!Size, WP!Size
  <2>2. ASSUME NEW bm, NEW K PROVE W!BMDelete(bm, K) = WP!BMDelete(bm, K)
    <3>1. W!Without(bm, K) = WP!Without(bm, K)
      BY <1>1 DEF W!Without, WP!Without
    <3> QED
      BY <1>1, <1>4, <3>1 DEF W!BMDelete, WP!BMDelete
  <2>3. ASSUME NEW bm, NEW c PROVE W!BMUpdateCapacity(bm, c) = WP!BMUpdateCapacity(bm, c)
    BY <1>1, <1>4 DEF W!BMUpdateCapacity, WP!BMUpdateCapacity
  <2> QED
    BY <2>1, <2>2, <2>3
<1>6. ASSUME NEW bm, NEW cc, NEW r PROVE W!ApplyWindowSize(bm, cc, r) = WP!ApplyWindowSize(bm, cc, r)
  <2>1. W!WindowSize(cc, r) = WP!WindowSize(cc, r)
    BY <1>1 DEF W!WindowSize, WP!WindowSize
  <2> QED
    BY <1>5, <2>1 DEF W!ApplyWindowSize, WP!ApplyWindowSize
<1>7. ASSUME NEW new, NEW K PROVE W!CumulativelyAcked(new, K) = WP!CumulativelyAcked(new, K)
  BY <1>1, <1>2 DEF W!CumulativelyAcked, WP!CumulativelyAcked
<1>8. ASSUME NEW a, NEW sack, NEW r PROVE W!HandleAck(a, sack, r) <=> WP!HandleAck(a, sack, r)
  <2>1. ASSUME NEW bm, NEW new PROVE W!AfterAck(bm, new, sack) = WP!AfterAck(bm, new, sack)
    BY <1>1, <1>5, <1>7 DEF W!AfterAck, WP!AfterAck
  <2>2. ASSUME NEW bm, NEW new PROVE W!NewlyAcked(bm, new, sack) = WP!NewlyAcked(bm, new, sack)
    BY <1>1, <1>3, <1>5, <1>7 DEF W!NewlyAcked, WP!NewlyAcked
  <2>3. W!LatestAfter(latest, a) = WP!LatestAfter(latest, a)
    BY <1>1, <1>2 DEF W!LatestAfter, WP!LatestAfter
  <2>4. ASSUME NEW cc PROVE W!AfterUpdateRtt(cc) = WP!AfterUpdateRtt(cc)
    BY DEF W!AfterUpdateRtt, WP!AfterUpdateRtt
  <2> QED
    BY <1>1, <1>6, <2>1, <2>2, <2>3, <2>4 DEF W!HandleAck, WP!HandleAck
<1>9. ASSUME NEW s PROVE (W!Resend(s) <=> WP!Resend(s)) /\ (W!GiveUp(s) <=> WP!GiveUp(s))
  <2>1. W!Resend(s) <=> WP!Resend(s)
    BY <1>1 DEF W!Resend, WP!Resend
  <2>2. ASSUME NEW cc PROVE W!AfterPacketLoss(cc) = WP!AfterPacketLoss(cc)
    BY <1>1 DEF W!AfterPacketLoss, WP!AfterPacketLoss
  <2>3. W!GiveUp(s) <=> WP!GiveUp(s)
    BY <1>1, <1>5, <1>6, <2>2 DEF W!GiveUp, WP!GiveUp
  <2> QED
    BY <2>1, <2>3
<1>10. (W!Close <=> WP!Close) /\ (W!Release <=> WP!Release)
  BY DEF W!Close, WP!Close, W!Release, WP!Release
<1>11. W!WaitForAck <=> WP!WaitForAck
  BY <1>1, <1>5 DEF W!WaitForAck, WP!WaitForAck
<1>12. W!Init <=> WP!Init
  <2>1. W!EmptyBlockingMap(MinWindow) = WP!EmptyBlockingMap(MinWindow)
    BY <1>1 DEF W!EmptyBlockingMap, WP!EmptyBlockingMap, W!EmptyMap, WP!EmptyMap
  <2> QED
    BY <1>1, <2>1 DEF W!Init, WP!Init
<1> QED
  BY <1>1, <1>2, <1>8, <1>9, <1>10, <1>11, <1>12

-----------------------------------------------------------------------------
(* Nothing acknowledged is lost *)

\* The stream is shorter than half a round of the numbers, and the queue larger
\* than the stream, so that it never evicts a packet.
ShortTransfer ==
    /\ NumData < RP!HalfSeq
    /\ NumData < QueueCapacity

\* r has consumed data packet d or holds it in its queue, or it has started
\* behind d.
Had(r, d) == RP!HeldIn(r, d) \/ (r.consumed # <<>> /\ d < r.consumed[1])

\* So it is with the reader.
Held(d) == Had(RP!Loop, d)

\* The reader has consumed packet n or a later one.
Reached(c, n) == n = 0 \/ \E j \in 1 .. Len(c) : n <= c[j]

\* An initiator knows where the stream starts, a responder starts with the first
\* packet it gets.
StartKnown ==
    /\ localState = "SYN_SENT" => isInitiator
    /\ localState = "CONNECTED" => isInitiator \/ consumed # <<>>
    /\ localState = "SYN_RECV" => localAckNr = RP!SeqAdd(FirstSeq, -1)

\* What is known of each end alone.
ReaderEnd == RP!RecvIInv /\ RP!RecvOrder /\ RP!BeforeFin /\ StartKnown
Ends == WP!IInv /\ WP!OrderInv /\ ReaderEnd /\ connState # "RESET"

\* What is on the wire or with the reader, the window has let through.
OnlySent ==
    /\ net \in [Packets -> Nat]
    /\ \A d \in 1 .. NumData : net[d] > 0 \/ Held(d) => d <= WP!SentCount

\* An ACK states that packets 1 .. n were consumed, or skipped at the start, and,
\* selectively, that some beyond the gap are held; what it states is true of r.
StatesTruth(ack, r) ==
    \E n \in 0 .. NumData :
        /\ Reached(r.consumed, n)
        /\ ack.ackNr = WP!SeqOf(n - 1)
        /\ \A s \in ack.sack : \E d \in n + 2 .. NumData : s = RP!PacketSeq(d) /\ Had(r, d)

AcksAreTrue == \A ack \in acks : StatesTruth(ack, RP!Loop)

LatestIsTrue ==
    \/ latest = WP!Undefined
    \/ \E n \in 0 .. NumData : Reached(consumed, n) /\ latest = WP!SeqOf(n - 1)

StruckOffIsHeld == \A d \in 1 .. NumData : RP!PacketSeq(d) \in acked => Held(d)

\* The inductive invariant.
TransferIInv == Ends /\ OnlySent /\ AcksAreTrue /\ LatestIsTrue /\ StruckOffIsHeld

\* Both ends number the packets alike and without repetition.
LEMMA OneNumbering ==
    ASSUME ShortTransfer
    PROVE  /\ RP!ShortStream /\ RP!HalfStream /\ WP!ShortStream
           /\ RP!HalfSeq = WP!HalfSeq /\ RP!HalfSeq \in Nat /\ RP!HalfSeq + RP!HalfSeq = SeqMod
           /\ \A d : RP!PacketSeq(d) = WP!SeqOf(d - 1)
           /\ \A a, b \in RP!Packets : RP!PacketSeq(a) = RP!PacketSeq(b) => a = b
           /\ NumData \in Nat /\ SeqMod \in Nat /\ FirstSeq \in 0 .. SeqMod - 1
           /\ RP!Packets = 1 .. NumData + 1 /\ RP!FIN = NumData + 1
           /\ Packets = RP!Packets /\ FIN = RP!FIN
<1>1. NumData \in Nat /\ SeqMod \in Nat /\ FirstSeq \in 0 .. SeqMod - 1
  BY TransferAssumption
<1>2. RP!HalfSeq = WP!HalfSeq
  BY DEF RP!HalfSeq, WP!HalfSeq
<1>3. RP!HalfSeq \in Nat /\ RP!HalfSeq + RP!HalfSeq = SeqMod /\ RP!HalfSeq > 1
  BY RP!HalfRound, ReaderAssumes
<1>4. RP!ShortStream /\ RP!HalfStream /\ WP!ShortStream
  BY <1>1, <1>2, <1>3 DEF ShortTransfer, RP!ShortStream, RP!HalfStream, WP!ShortStream
<1>5. \A d : RP!PacketSeq(d) = WP!SeqOf(d - 1)
  BY DEF RP!PacketSeq, WP!SeqOf, RP!SeqAdd, WP!SeqAdd
<1>6. \A a, b \in RP!Packets : RP!PacketSeq(a) = RP!PacketSeq(b) => a = b
  BY <1>4, RP!PacketSeqInjective, ReaderAssumes
<1>7. RP!Packets = 1 .. NumData + 1 /\ RP!FIN = NumData + 1
  BY DEF RP!Packets, RP!FIN
<1>8. Packets = RP!Packets /\ FIN = RP!FIN
  BY SameReader DEF Packets, FIN
<1> QED
  BY <1>1, <1>2, <1>3, <1>4, <1>5, <1>6, <1>7, <1>8

\* Beyond the gap after packet n are the packets from n + 2 on.
LEMMA BeyondTheGap ==
    ASSUME ShortTransfer, NEW n \in 0 .. NumData, NEW d \in 1 .. NumData,
           RP!SeqGe(RP!PacketSeq(d), RP!SeqAdd(RP!PacketSeq(n), 2))
    PROVE  d >= n + 2
<1> DEFINE a == RP!PacketSeq(n)
           b == RP!PacketSeq(d)
           c == RP!SeqAdd(a, 2)
           H == RP!HalfSeq
<1>1. /\ NumData \in Nat /\ SeqMod \in Nat /\ FirstSeq \in 0 .. SeqMod - 1
      /\ H \in Nat /\ H + H = SeqMod /\ NumData < H /\ RP!ShortStream
  BY OneNumbering DEF ShortTransfer
<1>2. a = IF FirstSeq + n < 1 THEN SeqMod - 1
          ELSE IF FirstSeq + (n - 1) < SeqMod THEN FirstSeq + (n - 1)
          ELSE FirstSeq + (n - 1) - SeqMod
  <2>1. n \in 0 .. NumData + 1
    BY <1>1
  <2> QED
    BY <1>1, <2>1, RP!PacketSeqOf, ReaderAssumes
<1>3. b = IF FirstSeq + (d - 1) < SeqMod THEN FirstSeq + (d - 1)
          ELSE FirstSeq + (d - 1) - SeqMod
  <2>1. d \in 0 .. NumData + 1 /\ ~(FirstSeq + d < 1)
    BY <1>1
  <2> QED
    BY <1>1, <2>1, RP!PacketSeqOf, ReaderAssumes
<1>4. a \in 0 .. SeqMod - 1 /\ b \in 0 .. SeqMod - 1 /\ SeqMod > 3
  <2>1. SeqMod > 3
    BY TransferAssumption
  <2> QED
    BY <1>1, <1>2, <1>3, <2>1
<1>5. c = IF a + 2 < SeqMod THEN a + 2 ELSE a + 2 - SeqMod
  <2>1. a \in RP!SeqNrs /\ 2 \in 0 .. SeqMod
    BY <1>1, <1>4 DEF RP!SeqNrs
  <2> HIDE DEF a
  <2> QED
    BY <2>1, RP!SeqAddWraps, ReaderAssumes
<1>6. c \in 0 .. SeqMod - 1
  BY <1>1, <1>4, <1>5
<1>7. b = c \/ (IF c <= b THEN b - c ELSE b - c + SeqMod) < H
  <2>1. b \in RP!SeqNrs /\ c \in RP!SeqNrs
    BY <1>4, <1>6 DEF RP!SeqNrs
  <2>2. b = c \/ RP!SeqDiff(b, c) < H
    BY DEF RP!SeqGe, RP!SeqGt, RP!SeqLt
  <2> HIDE DEF a, b, c, H
  <2> QED
    BY <2>1, <2>2, RP!SeqDiffWraps, ReaderAssumes
<1> HIDE DEF a, b, c, H
<1> QED
  BY <1>1, <1>2, <1>3, <1>4, <1>5, <1>7

\* What was reached was consumed, or skipped at the start.
LEMMA ReachedIsHad ==
    ASSUME ShortTransfer, NEW r, RP!LoopOK(r),
           \A j \in 2 .. Len(r.consumed) : r.consumed[j] = r.consumed[j - 1] + 1,
           NEW d \in 1 .. NumData, NEW n \in 0 .. NumData, d <= n, Reached(r.consumed, n)
    PROVE  Had(r, d)
<1> DEFINE c == r.consumed
<1>1. NumData \in Nat
  BY OneNumbering
<1>2. c \in Seq(RP!Packets) /\ \A j \in 2 .. Len(c) : c[j] = c[j - 1] + 1
  BY DEF RP!LoopOK
<1>3. PICK j \in 1 .. Len(c) : n <= c[j]
  BY <1>1 DEF Reached
<1> HIDE DEF c
<1>4. /\ Len(c) \in Nat /\ c # <<>>
      /\ \A k \in 1 .. Len(c) : c[k] = c[1] + (k - 1) /\ c[k] \in 1 .. NumData + 1
  BY <1>2, <1>3, RP!ConsumedStretch, ReaderAssumes
<1>5. 1 \in 1 .. Len(c) /\ c[1] \in 1 .. NumData + 1
  BY <1>3, <1>4
<1>6. CASE d < c[1]
  BY <1>4, <1>6 DEF Had, c
<1>7. CASE ~(d < c[1])
  <2> DEFINE k == d - c[1] + 1
  <2>1. c[j] = c[1] + (j - 1) /\ d <= c[j] /\ d \in Int /\ c[1] \in Int /\ j \in Int
    BY <1>1, <1>3, <1>4, <1>5
  <2>2. k \in 1 .. Len(c) /\ c[1] + (k - 1) = d
    <3>1. k \in Int /\ c[1] + (k - 1) = d /\ 1 <= k
      BY <1>7, <2>1
    <3>2. k <= j /\ j <= Len(c)
      BY <1>3, <1>4, <2>1
    <3> QED
      BY <1>4, <2>1, <3>1, <3>2
  <2>3. c[k] = d
    BY <1>4, <2>2
  <2> HIDE DEF k
  <2> QED
    BY <2>2, <2>3 DEF Had, RP!HeldIn, c
<1> QED
  BY <1>6, <1>7

\* The ackNr of a reader is the number of the last packet it has consumed, or of
\* the one before the first.
LEMMA AckNrIsReached ==
    ASSUME ShortTransfer, NEW r, RP!LoopOK(r), RP!InOrder(r),
           \A j \in 1 .. Len(r.consumed) : r.consumed[j] # RP!FIN
    PROVE  \E n \in 0 .. NumData : Reached(r.consumed, n) /\ r.ackNr = RP!PacketSeq(n)
<1> DEFINE c == r.consumed
<1>1. NumData \in Nat /\ RP!FIN = NumData + 1
  BY OneNumbering
<1>2. c \in Seq(RP!Packets) /\ (c # <<>> => r.ackNr = RP!PacketSeq(c[Len(c)]))
  BY DEF RP!LoopOK
<1>3. CASE c = <<>>
  <2>1. r.ackNr = RP!PacketSeq(0) /\ 0 \in 0 .. NumData
    BY <1>1, <1>3 DEF RP!InOrder, RP!PacketSeq
  <2> QED
    BY <2>1 DEF Reached
<1>4. CASE c # <<>>
  <2>1. \A j \in 2 .. Len(c) : c[j] = c[j - 1] + 1
    BY DEF RP!InOrder
  <2> HIDE DEF c
  <2>2. Len(c) \in Nat \ {0} /\ \A j \in 1 .. Len(c) : c[j] \in 1 .. NumData + 1
    BY <1>2, <1>4, <2>1, RP!ConsumedStretch, ReaderAssumes
  <2>3. Len(c) \in 1 .. Len(c) /\ c[Len(c)] \in 1 .. NumData + 1 /\ c[Len(c)] # NumData + 1
    BY <1>1, <2>2 DEF c
  <2>4. c[Len(c)] \in 0 .. NumData /\ c[Len(c)] <= c[Len(c)]
    BY <1>1, <2>3
  <2>5. Reached(c, c[Len(c)])
    BY <2>3, <2>4 DEF Reached
  <2> QED
    BY <1>2, <1>4, <2>4, <2>5 DEF c
<1> QED
  BY <1>3, <1>4

\* What reaches the sender of a mask is in the queue, beyond the gap.
LEMMA SackOfIs ==
    ASSUME NEW a \in RP!SeqNrs, NEW K \in SUBSET RP!SeqNrs
    PROVE  SackOf(a, K) \subseteq {k \in K : RP!SeqGe(k, RP!SeqAdd(a, 2))}
<1>1. CASE K = {}
  BY <1>1 DEF SackOf
<1>2. CASE K # {}
  <2>1. Mask!CreateMask(a, K) = RP!CreateMask(a, K)
    BY DEF Mask!CreateMask, RP!CreateMask, Mask!BitsOf, RP!BitsOf, Mask!MaskBytes, RP!MaskBytes,
           Mask!CeilDiv, RP!CeilDiv, Mask!SeqAdd, RP!SeqAdd, Mask!SeqDiff, RP!SeqDiff,
           Mask!SeqGe, RP!SeqGe, Mask!SeqGt, RP!SeqGt, Mask!SeqLt, RP!SeqLt,
           Mask!HalfSeq, RP!HalfSeq
  <2>2. \A m : Mask!OnTheWire(m) = RP!OnTheWire(m)
    BY DEF Mask!OnTheWire, RP!OnTheWire
  <2> DEFINE m == RP!OnTheWire(RP!CreateMask(a, K))
             first == RP!SeqAdd(a, 2)
  <2>3. SackOf(a, K) = Mask!RemoteReceived(m)
    BY <1>2, <2>1, <2>2 DEF SackOf
  <2>4. /\ m.base = a /\ first \in RP!SeqNrs
        /\ \A b \in m.bits : b \in RP!BitsOf(first, K)
    BY RP!WireMask, ReaderAssumes
  <2> HIDE DEF m, first
  <2>5. ASSUME NEW s \in SackOf(a, K) PROVE s \in K /\ RP!SeqGe(s, first)
    <3>1. PICK b \in m.bits : s = Mask!SeqAdd(Mask!SeqAdd(m.base, 2), b)
      BY <2>3 DEF Mask!RemoteReceived
    <3>2. s = RP!SeqAdd(first, b)
      BY <2>4, <3>1 DEF first, Mask!SeqAdd, RP!SeqAdd
    <3>3. PICK k \in K : b = RP!SeqDiff(k, first) /\ RP!SeqGe(k, first)
      BY <2>4 DEF RP!BitsOf
    <3>4. k \in RP!SeqNrs
      OBVIOUS
    <3>5. RP!SeqAdd(first, b) = k
      BY <2>4, <3>3, <3>4, RP!SeqAddSeqDiff, ReaderAssumes
    <3> QED
      BY <3>2, <3>3, <3>5
  <2> QED
    BY <2>5 DEF first
<1> QED
  BY <1>1, <1>2

\* Whatever a reader acknowledges, cumulatively or selectively, it has.
LEMMA ReaderStatesTruth ==
    ASSUME ShortTransfer, NEW r, RP!LoopOK(r), RP!InOrder(r),
           \A j \in 1 .. Len(r.consumed) : r.consumed[j] # RP!FIN,
           \A k \in RP!QKeys(r.queue) : r.queue.items[k] # RP!FIN
    PROVE  StatesTruth(ReceiverAcks(r.ackNr, RP!QKeys(r.queue)), r)
<1> DEFINE K == RP!QKeys(r.queue)
           ack == ReceiverAcks(r.ackNr, K)
<1>1. PICK n \in 0 .. NumData : Reached(r.consumed, n) /\ r.ackNr = RP!PacketSeq(n)
  BY AckNrIsReached
<1>2. ack.ackNr = r.ackNr /\ ack.sack = SackOf(r.ackNr, K)
  BY DEF ReceiverAcks
<1>3. r.ackNr \in RP!SeqNrs /\ K \in SUBSET RP!SeqNrs
  BY DEF RP!LoopOK, RP!QueueOK
<1> HIDE DEF ack
<1>4. ack.ackNr = WP!SeqOf(n - 1)
  BY <1>1, <1>2, OneNumbering
<1>5. ASSUME NEW s \in ack.sack
      PROVE  \E d \in n + 2 .. NumData : s = RP!PacketSeq(d) /\ Had(r, d)
  <2> DEFINE d == r.queue.items[s]
  <2>1. s \in K /\ RP!SeqGe(s, RP!SeqAdd(r.ackNr, 2))
    <3> HIDE DEF K
    <3> QED
      BY <1>2, <1>3, SackOfIs
  <2>2. d \in RP!Packets /\ RP!PacketSeq(d) = s /\ d # RP!FIN
    BY <2>1 DEF RP!LoopOK, RP!QueueOK
  <2>3. d \in 1 .. NumData
    BY <2>2, OneNumbering
  <2>4. Had(r, d)
    BY <2>1, <2>2 DEF Had, RP!HeldIn
  <2> HIDE DEF d, K
  <2>5. RP!SeqGe(RP!PacketSeq(d), RP!SeqAdd(RP!PacketSeq(n), 2))
    BY <1>1, <2>1, <2>2
  <2>6. d >= n + 2
    BY <2>3, <2>5, BeyondTheGap
  <2>7. d \in n + 2 .. NumData
    BY <2>3, <2>6, OneNumbering
  <2> QED
    BY <2>2, <2>4, <2>7
<1>6. StatesTruth(ack, r)
  BY <1>1, <1>4, <1>5 DEF StatesTruth
<1> QED
  BY <1>6 DEF ack

\* What it is to be held, before and after a step.
LEMMA HeldIs ==
    ASSUME NEW d
    PROVE  /\ Held(d) <=> \/ \E j \in 1 .. Len(consumed) : consumed[j] = d
                          \/ /\ RP!PacketSeq(d) \in RP!QKeys(recvPacketQueue)
                             /\ recvPacketQueue.items[RP!PacketSeq(d)] = d
                          \/ consumed # <<>> /\ d < consumed[1]
           /\ Held(d)' <=> \/ \E j \in 1 .. Len(consumed') : consumed'[j] = d
                           \/ /\ RP!PacketSeq(d) \in RP!QKeys(recvPacketQueue')
                              /\ recvPacketQueue'.items[RP!PacketSeq(d)] = d
                           \/ consumed' # <<>> /\ d < consumed'[1]
           /\ Held(d)' <=> Had(RP!Loop', d)
<1>1. Held(d) <=> \/ \E j \in 1 .. Len(consumed) : consumed[j] = d
                  \/ /\ RP!PacketSeq(d) \in RP!QKeys(recvPacketQueue)
                     /\ recvPacketQueue.items[RP!PacketSeq(d)] = d
                  \/ consumed # <<>> /\ d < consumed[1]
  BY DEF Held, Had, RP!HeldIn, RP!Loop
<1>2. Held(d)' <=> \/ \E j \in 1 .. Len(consumed') : consumed'[j] = d
                   \/ /\ RP!PacketSeq(d) \in RP!QKeys(recvPacketQueue')
                      /\ recvPacketQueue'.items[RP!PacketSeq(d)] = d
                   \/ consumed' # <<>> /\ d < consumed'[1]
  BY DEF Held, Had, RP!HeldIn, RP!Loop, RP!QKeys, RP!PacketSeq, RP!SeqAdd
<1>3. Had(RP!Loop', d) <=> \/ \E j \in 1 .. Len(consumed') : consumed'[j] = d
                           \/ /\ RP!PacketSeq(d) \in RP!QKeys(recvPacketQueue')
                              /\ recvPacketQueue'.items[RP!PacketSeq(d)] = d
                           \/ consumed' # <<>> /\ d < consumed'[1]
  BY DEF Had, RP!HeldIn, RP!Loop
<1> QED
  BY <1>1, <1>2, <1>3

\* Where the reader keeps what it had, what was stated stays true.
LEMMA TruthStays ==
    ASSUME \A d \in 1 .. NumData : Held(d) => Held(d)',
           \A n \in 0 .. NumData : Reached(consumed, n) => Reached(consumed', n),
           NumData \in Nat, NEW ack, StatesTruth(ack, RP!Loop)
    PROVE  StatesTruth(ack, RP!Loop')
<1>1. PICK n \in 0 .. NumData :
         /\ Reached(RP!Loop.consumed, n)
         /\ ack.ackNr = WP!SeqOf(n - 1)
         /\ \A s \in ack.sack :
               \E d \in n + 2 .. NumData : s = RP!PacketSeq(d) /\ Had(RP!Loop, d)
  BY DEF StatesTruth
<1>2. Reached(RP!Loop'.consumed, n)
  BY <1>1 DEF RP!Loop
<1>3. \A d \in n + 2 .. NumData : Had(RP!Loop, d) => Had(RP!Loop', d)
  <2>1. \A d \in n + 2 .. NumData : d \in 1 .. NumData
    OBVIOUS
  <2> QED
    BY <2>1, HeldIs DEF Held
<1> QED
  BY <1>1, <1>2, <1>3 DEF StatesTruth

\* What handling packet i does to what the reader has: i comes in and nothing
\* goes out.
LEMMA HandlingHolds ==
    ASSUME ShortTransfer, Ends, localState = "CONNECTED", NEW i \in RP!Packets,
           localAckNr' = RP!AfterQueueing(i).ackNr,
           recvPacketQueue' = RP!AfterQueueing(i).queue,
           consumed' = RP!AfterQueueing(i).consumed
    PROVE  /\ RP!Loop' = RP!AfterQueueing(i)
           /\ RP!LoopOK(RP!AfterQueueing(i)) /\ RP!InOrder(RP!AfterQueueing(i))
           /\ \A d \in RP!Packets : Held(d) => Held(d)'
           /\ \A d \in RP!Packets : Held(d)' => Held(d) \/ d = i
           /\ Held(i)'
           /\ \A n : Reached(consumed, n) => Reached(consumed', n)
           /\ Len(consumed) \in Nat /\ Len(consumed') \in Nat /\ Len(consumed) <= Len(consumed')
           /\ \A j \in 1 .. Len(consumed) : consumed'[j] = consumed[j]
           /\ consumed # <<>> => consumed' # <<>> /\ consumed'[1] = consumed[1]
<1> DEFINE after == RP!AfterQueueing(i)
<1>1. RP!ShortStream /\ NumData < QueueCapacity
  BY OneNumbering DEF ShortTransfer
<1>2. RP!LoopOK(RP!Loop) /\ RP!InOrder(RP!Loop)
  BY DEF Ends, ReaderEnd, RP!RecvIInv, RP!RecvOrder
<1>3. RP!LoopOK(after) /\ RP!InOrder(after)
  BY <1>1, <1>2, RP!AfterQueueingKeeps, ReaderAssumes
<1>4. RP!Loop' = after
  <2>1. after = [ackNr |-> after.ackNr, queue |-> after.queue, consumed |-> after.consumed]
    BY <1>3 DEF RP!LoopOK
  <2> HIDE DEF after
  <2>2. localAckNr' = after.ackNr /\ recvPacketQueue' = after.queue /\ consumed' = after.consumed
    BY DEF after
  <2> QED
    BY <2>1, <2>2 DEF RP!Loop
<1>5. /\ Len(consumed) \in Nat /\ Len(after.consumed) \in Nat
      /\ Len(consumed) <= Len(after.consumed)
      /\ \A j \in 1 .. Len(consumed) : after.consumed[j] = consumed[j]
      /\ \A j \in Len(consumed) + 1 .. Len(after.consumed) :
            \/ after.consumed[j] = i
            \/ \E k \in RP!QKeys(recvPacketQueue) : after.consumed[j] = recvPacketQueue.items[k]
      /\ \A k \in RP!QKeys(after.queue) :
            \/ k = RP!PacketSeq(i) /\ after.queue.items[k] = i
            \/ k \in RP!QKeys(recvPacketQueue) /\ after.queue.items[k] = recvPacketQueue.items[k]
  BY <1>1, <1>2, RP!QueueingAccounts, ReaderAssumes
<1>6. /\ Len(consumed) \in Nat /\ Len(consumed') \in Nat /\ Len(consumed) <= Len(consumed')
      /\ \A j \in 1 .. Len(consumed) : consumed'[j] = consumed[j]
  BY <1>5
<1>7. consumed # <<>> => consumed' # <<>> /\ consumed'[1] = consumed[1]
  <2>1. ASSUME consumed # <<>> PROVE consumed' # <<>> /\ consumed'[1] = consumed[1]
    <3>1. consumed \in Seq(RP!Packets) /\ consumed' \in Seq(RP!Packets)
      BY <1>2, <1>3, <1>4 DEF RP!LoopOK, RP!Loop
    <3>2. Len(consumed) # 0
      BY <2>1, <3>1
    <3>3. 1 \in 1 .. Len(consumed) /\ Len(consumed') # 0
      BY <1>6, <3>2
    <3> QED
      BY <1>6, <3>1, <3>3
  <2> QED
    BY <2>1
<1>8. ASSUME NEW n, Reached(consumed, n) PROVE Reached(consumed', n)
  <2>1. CASE n = 0
    BY <2>1 DEF Reached
  <2>2. CASE n # 0
    <3>1. PICK j \in 1 .. Len(consumed) : n <= consumed[j]
      BY <1>8, <2>2 DEF Reached
    <3>2. j \in 1 .. Len(consumed') /\ consumed'[j] = consumed[j]
      BY <1>6, <3>1
    <3> QED
      BY <3>1, <3>2 DEF Reached
  <2> QED
    BY <2>1, <2>2
<1>9. ASSUME NEW d \in RP!Packets, Held(d) \/ d = i
      PROVE  Held(d)'
  <2>1. CASE RP!HeldIn(RP!Loop, d) \/ d = i
    <3>1. RP!HeldIn(after, d)
      BY <1>1, <1>2, <2>1, RP!HeldStays, ReaderAssumes
    <3> QED
      BY <1>4, <3>1, HeldIs DEF Had
  <2>2. CASE consumed # <<>> /\ d < consumed[1]
    BY <1>7, <2>2, HeldIs
  <2> QED
    BY <1>9, <2>1, <2>2 DEF Held, Had, RP!Loop
<1>10. ASSUME NEW d \in RP!Packets, Held(d)'
      PROVE  Held(d) \/ d = i
  <2>2. \A k \in RP!QKeys(recvPacketQueue) : RP!PacketSeq(recvPacketQueue.items[k]) = k
    BY <1>2 DEF RP!LoopOK, RP!QueueOK, RP!Loop
  <2>3. CASE \E j \in 1 .. Len(consumed') : consumed'[j] = d
    <3>1. PICK j \in 1 .. Len(after.consumed) : after.consumed[j] = d
      BY <2>3
    <3> HIDE DEF after
    <3>2. CASE j \in 1 .. Len(consumed)
      BY <1>5, <3>1, <3>2, HeldIs
    <3>3. CASE j \in Len(consumed) + 1 .. Len(after.consumed)
      BY <1>5, <2>2, <3>1, <3>3, HeldIs
    <3> QED
      BY <1>5, <3>1, <3>2, <3>3
  <2>4. CASE /\ RP!PacketSeq(d) \in RP!QKeys(recvPacketQueue')
             /\ recvPacketQueue'.items[RP!PacketSeq(d)] = d
    <3>1. RP!PacketSeq(d) \in RP!QKeys(after.queue) /\ after.queue.items[RP!PacketSeq(d)] = d
      BY <2>4
    <3> HIDE DEF after
    <3> QED
      BY <1>5, <3>1, HeldIs
  <2>5. CASE consumed' # <<>> /\ d < consumed'[1]
    <3>1. CASE consumed # <<>>
      BY <1>7, <2>5, <3>1, HeldIs
    <3>2. CASE consumed = <<>>
      <4>1. consumed'[1] = 1
        BY <1>3, <1>4, <2>5, <3>2 DEF Ends, ReaderEnd, StartKnown, RP!InOrder, RP!Loop
      <4>2. ~(d < 1)
        BY OneNumbering
      <4> QED
        BY <2>5, <4>1, <4>2
    <3> QED
      BY <3>1, <3>2
  <2> QED
    BY <1>10, <2>3, <2>4, <2>5, HeldIs
<1> QED
  BY <1>3, <1>4, <1>6, <1>7, <1>8, <1>9, <1>10

\* What the reader has consumed, the FIN included, is not more than the stream;
\* so the bounds of UtpReceiver on what may arrive exclude nothing.
LEMMA AnyPacketMayArrive ==
    ASSUME ShortTransfer, Ends
    PROVE  \A i \in RP!Packets : RP!MayArrive(i)
<1>1. consumed \in Seq(RP!Packets)
  BY DEF Ends, ReaderEnd, RP!RecvIInv, RP!RecvTypeOK
<1>2. \A j \in 2 .. Len(consumed) : consumed[j] = consumed[j - 1] + 1
  BY DEF Ends, ReaderEnd, RP!RecvOrder, RP!ConsumedInOrder
<1>3. Len(consumed) \in Nat /\ Len(consumed) <= NumData + 1
  BY <1>1, <1>2, RP!ConsumedStretch, ReaderAssumes
<1>4. NumData \in Nat /\ RP!Packets = 1 .. NumData + 1
  BY OneNumbering
<1> QED
  BY <1>3, <1>4 DEF RP!MayArrive

\* A step of the reader within the transfer is one of UtpReceiver.
LEMMA ReaderKeepsItsEnd ==
    ASSUME ShortTransfer, Ends,
           \/ RP!HandleAtSynSent
           \/ \E i \in Packets : RP!HandleAtSynReceived(i)
           \/ \E i \in Packets : RP!HandleData(i)
           \/ RP!HandleFin(TRUE)
           \/ UNCHANGED recvVars
    PROVE  ReaderEnd'
<1>1. \A i \in RP!Packets : RP!MayArrive(i)
  BY AnyPacketMayArrive
<1>2. Packets = RP!Packets /\ RP!FIN \in RP!Packets /\ RP!ShortStream
  BY OneNumbering
<1>3. [RP!RecvNext]_RP!recvVars
  BY <1>1, <1>2 DEF RP!RecvNext, recvVars, RP!recvVars
<1>4. RP!RecvIInv' /\ RP!RecvOrder'
  BY <1>2, <1>3, RP!RecvNextPreserves, ReaderAssumes DEF Ends, ReaderEnd
<1>5. RP!BeforeFin'
  BY <1>2, <1>3, RP!NextStaysBeforeFin, ReaderAssumes DEF Ends, ReaderEnd
<1>6. StartKnown'
  <2>1. CASE RP!HandleAtSynSent
    BY <2>1 DEF RP!HandleAtSynSent, Ends, ReaderEnd, StartKnown
  <2>2. CASE \E i \in Packets : RP!HandleAtSynReceived(i)
    <3>1. PICK i \in Packets : RP!HandleAtSynReceived(i)
      BY <2>2
    <3>2. consumed' = Append(consumed, i) /\ consumed \in Seq(RP!Packets) /\ localState' = "CONNECTED"
      BY <3>1 DEF RP!HandleAtSynReceived, Ends, ReaderEnd, RP!RecvIInv, RP!RecvTypeOK
    <3>3. consumed' # <<>>
      BY <1>2, <3>2
    <3> QED
      BY <3>2, <3>3 DEF StartKnown
  <2>3. CASE \E i \in Packets : RP!HandleData(i)
    <3>1. PICK i \in Packets : RP!HandleData(i)
      BY <2>3
    <3>2. /\ localState = "CONNECTED" /\ localState' = "CONNECTED" /\ isInitiator' = isInitiator
          /\ localAckNr' = RP!AfterQueueing(i).ackNr
          /\ recvPacketQueue' = RP!AfterQueueing(i).queue
          /\ consumed' = RP!AfterQueueing(i).consumed
      BY <3>1 DEF RP!HandleData
    <3>3. consumed # <<>> => consumed' # <<>>
      BY <1>2, <3>2, HandlingHolds
    <3> QED
      BY <3>2, <3>3 DEF StartKnown, Ends, ReaderEnd
  <2>4. CASE RP!HandleFin(TRUE)
    BY <2>4 DEF RP!HandleFin, StartKnown
  <2>5. CASE UNCHANGED recvVars
    BY <2>5 DEF recvVars, StartKnown, Ends, ReaderEnd, RP!SeqAdd
  <2> QED
    BY <2>1, <2>2, <2>3, <2>4, <2>5
<1> QED
  BY <1>4, <1>5, <1>6 DEF ReaderEnd

\* What a reader acknowledges is true of what it has.
LEMMA SentAcksAreTrue ==
    ASSUME ShortTransfer, ReaderEnd', localState' \in {"SYN_RECV", "CONNECTED"},
           isInitiator' = isInitiator
    PROVE  StatesTruth(ReceiverAcks(localAckNr', RP!QKeys(recvPacketQueue')), RP!Loop')
<1> DEFINE r == RP!Loop'
<1>1. r = [ackNr |-> localAckNr', queue |-> recvPacketQueue', consumed |-> consumed']
  BY DEF RP!Loop
<1>2. RP!LoopOK(r)
  BY DEF ReaderEnd, RP!RecvIInv, RP!LoopOK, RP!QueueOK, RP!QKeys, RP!OldestOf, RP!SmallestKey, RP!NoKey,
         RP!PacketSeq, RP!SeqAdd, RP!SeqNrs, RP!Cardinality, RP!IsFiniteSet, RP!Packets
<1>3. localState' = "SYN_RECV" => /\ consumed' = <<>> /\ RP!QKeys(recvPacketQueue') = {}
                                 /\ localAckNr' = RP!SeqAdd(FirstSeq, -1)
  BY DEF ReaderEnd, RP!RecvIInv, RP!NothingYet, RP!QKeys, StartKnown, RP!SeqAdd
<1>4. RP!InOrder(r)
  <2>1. CASE localState' = "CONNECTED"
    BY <2>1 DEF ReaderEnd, RP!RecvOrder, RP!InOrder, RP!SeqAdd
  <2>2. CASE localState' = "SYN_RECV"
    BY <1>1, <1>3, <2>2 DEF RP!InOrder
  <2> QED
    BY <2>1, <2>2
<1>5. /\ \A j \in 1 .. Len(r.consumed) : r.consumed[j] # RP!FIN
      /\ \A k \in RP!QKeys(r.queue) : r.queue.items[k] # RP!FIN
  <2>1. CASE localState' = "CONNECTED"
    BY <1>1, <2>1 DEF ReaderEnd, RP!BeforeFin, RP!QKeys, RP!FIN
  <2>2. CASE localState' = "SYN_RECV"
    BY <1>1, <1>3, <2>2
  <2> QED
    BY <2>1, <2>2
<1> HIDE DEF r
<1>6. StatesTruth(ReceiverAcks(r.ackNr, RP!QKeys(r.queue)), r)
  BY <1>2, <1>4, <1>5, ReaderStatesTruth
<1> QED
  BY <1>1, <1>6 DEF r

\* What a side's SendsAck puts on the wire is true.
LEMMA SendsTruth ==
    ASSUME ShortTransfer, ReaderEnd', localState' \in {"SYN_RECV", "CONNECTED"},
           isInitiator' = isInitiator, SendsAck
    PROVE  \A ack \in acks' : ack \in acks \/ StatesTruth(ack, RP!Loop')
<1>1. R!QKeys(recvPacketQueue') = RP!QKeys(recvPacketQueue')
  BY SameReader
<1>2. acks' = acks \cup {ReceiverAcks(localAckNr', RP!QKeys(recvPacketQueue'))}
  BY <1>1 DEF SendsAck
<1> QED
  BY <1>2, SentAcksAreTrue

\* A map whose packets are in line has a packet of the stream among its keys only
\* if it has let that packet in.
LEMMA KeysAreSent ==
    ASSUME ShortTransfer, NEW bm, NEW w \in Nat, w <= NumData, Len(bm.waiting) \in Nat,
           WP!InLine(bm, w), NEW d \in 1 .. NumData, RP!PacketSeq(d) \in WP!Keys(bm)
    PROVE  d <= w - Len(bm.waiting)
<1> DEFINE m == w - Len(bm.waiting)
<1>0. m \in Int /\ m <= w /\ w <= NumData /\ NumData \in Nat /\ w \in Nat
  BY OneNumbering
<1>1. PICK k \in 0 .. m - 1 : RP!PacketSeq(d) = WP!SeqOf(k)
  BY DEF WP!InLine, WP!Nums
<1> HIDE DEF m
<1>2. k + 1 \in RP!Packets /\ d \in RP!Packets /\ WP!SeqOf(k) = RP!PacketSeq(k + 1)
  <2>1. (k + 1) - 1 = k /\ k + 1 \in 1 .. NumData + 1 /\ d \in 1 .. NumData + 1
    BY <1>0, <1>1
  <2> QED
    BY <2>1, OneNumbering
<1>3. d = k + 1
  BY <1>1, <1>2, OneNumbering
<1>4. d <= m
  BY <1>0, <1>1, <1>3
<1> QED
  BY <1>4 DEF m

\* A step of the writer within the transfer is one of UtpSendWindow, and what it
\* has sent it has sent.
LEMMA WriterKeepsItsEnd ==
    ASSUME ShortTransfer, Ends, [WP!Next]_WP!vars, connState' # "RESET"
    PROVE  /\ WP!IInv' /\ WP!OrderInv'
           /\ WP!SentCount \in Nat /\ WP!SentCount' \in Nat /\ WP!SentCount <= WP!SentCount'
           /\ WP!SentCount' <= written' /\ written' \in Nat /\ written' <= NumData
           /\ \A d \in 1 .. NumData :
                 RP!PacketSeq(d) \in WP!Keys(packetMap') => d <= WP!SentCount'
<1>1. WP!ShortStream /\ NumData \in Nat
  BY OneNumbering
<1>2. WP!IInv' /\ WP!OrderInv'
  <2>1. WP!IInv'
    BY WP!NextPreserves, WriterAssumes DEF Ends
  <2>2. WP!OrderInv'
    BY <1>1, WP!NextOrders, WriterAssumes DEF Ends
  <2> QED
    BY <2>1, <2>2
<1>3. /\ written \in Nat /\ written' \in Nat /\ written' <= NumData
      /\ Len(packetMap.waiting) \in Nat /\ Len(packetMap'.waiting) \in Nat
      /\ written - Len(packetMap.waiting) >= 0 /\ written' - Len(packetMap'.waiting) >= 0
  BY <1>2 DEF Ends, WP!IInv, WP!TypeOK, WP!IsPacketMap, WP!OrderInv, WP!InLine
<1>4. /\ WP!SentCount = written - Len(packetMap.waiting)
      /\ WP!SentCount' = written' - Len(packetMap'.waiting)
  BY DEF WP!SentCount
<1>5. WP!SentCount <= WP!SentCount'
  <2>1. CASE WP!WaitForAck
    <3>1. packetMap' = WP!BMSet(packetMap, localSeqNr) /\ written' = written + 1
      BY <2>1 DEF WP!WaitForAck
    <3>2. WP!Bounded(packetMap) /\ localSeqNr \in WP!SeqNrs
      BY DEF Ends, WP!IInv, WP!TypeOK, WP!MapOK
    <3>3. Len(packetMap'.waiting) <= Len(packetMap.waiting) + 1
      BY <3>1, <3>2, WP!BMSetFollows, WriterAssumes
    <3>4. \A a, b, c, e \in Nat : b = a + 1 /\ e <= c + 1 => a - c <= b - e
      OBVIOUS
    <3>5. written - Len(packetMap.waiting) <= written' - Len(packetMap'.waiting)
      BY <1>3, <3>1, <3>3, <3>4
    <3> QED
      BY <1>4, <3>5
  <2>2. CASE WP!IncomingAck
    <3>1. PICK n \in 0 .. WP!SentCount, remote \in RemoteWindows :
             \E sack \in SUBSET {WP!SeqOf(i) : i \in n + 1 .. WP!SentCount - 1} :
                WP!HandleAck(WP!SeqOf(n - 1), sack, remote)
      BY <2>2 DEF WP!IncomingAck
    <3>2. remote \in Nat
      BY TransferAssumption
    <3>3. WP!Follows(packetMap, packetMap')
      <4>1. PICK sack : WP!HandleAck(WP!SeqOf(n - 1), sack, remote)
        BY <3>1
      <4> QED
        BY <3>2, <4>1, WP!HandleAckFollows, WriterAssumes DEF Ends
    <3>4. written' = written
      BY <3>1 DEF WP!HandleAck
    <3> QED
      BY <1>3, <1>4, <3>3, <3>4 DEF WP!Follows
  <2>3. CASE \E s \in WP!SeqNrs : WP!Resend(s)
    <3>1. packetMap'.waiting = packetMap.waiting /\ written' = written
      BY <2>3 DEF WP!Resend, WP!BM
    <3> QED
      BY <1>3, <1>4, <3>1
  <2>4. CASE \E s \in WP!SeqNrs : WP!GiveUp(s)
    <3>1. PICK s \in WP!SeqNrs : WP!GiveUp(s)
      BY <2>4
    <3>2. WP!Follows(packetMap, packetMap')
      BY <3>1, WP!GiveUpFollows, WriterAssumes DEF Ends
    <3>3. written' = written
      BY <3>1 DEF WP!GiveUp
    <3> QED
      BY <1>3, <1>4, <3>2, <3>3 DEF WP!Follows
  <2>5. CASE WP!Close \/ WP!Release \/ WP!Gone \/ UNCHANGED WP!vars
    <3>1. packetMap' = packetMap /\ written' = written
      BY <2>5 DEF WP!Close, WP!Release, WP!Gone, WP!vars
    <3> QED
      BY <1>3, <1>4, <3>1
  <2>6. CASE WP!Reset
    BY <2>6 DEF WP!Reset
  <2> QED
    BY <2>1, <2>2, <2>3, <2>4, <2>5, <2>6 DEF WP!Next
<1>6. ASSUME NEW d \in 1 .. NumData, RP!PacketSeq(d) \in WP!Keys(packetMap')
      PROVE  d <= WP!SentCount'
  <2>1. WP!InLine(packetMap', written')
    BY <1>2 DEF WP!OrderInv, WP!InLine, WP!Nums, WP!SeqOf, WP!SeqAdd, WP!Keys
  <2> QED
    BY <1>3, <1>4, <1>6, <2>1, KeysAreSent
<1> QED
  BY <1>2, <1>3, <1>4, <1>5, <1>6

\* A step keeps the invariant if the reader keeps what it had, and if nothing
\* untrue enters the network or the window.
LEMMA NothingUntrueEnters ==
    ASSUME ShortTransfer, TransferIInv, Ends', OnlySent',
           \A d \in 1 .. NumData : Held(d) => Held(d)',
           \A n \in 0 .. NumData : Reached(consumed, n) => Reached(consumed', n),
           \A ack \in acks' : ack \in acks \/ StatesTruth(ack, RP!Loop'),
           \/ latest' = latest
           \/ \E n \in 0 .. NumData : Reached(consumed, n) /\ latest' = WP!SeqOf(n - 1),
           \A d \in 1 .. NumData : RP!PacketSeq(d) \in acked' => RP!PacketSeq(d) \in acked \/ Held(d)
    PROVE  TransferIInv'
<1>1. \A ack : StatesTruth(ack, RP!Loop) => StatesTruth(ack, RP!Loop')
  <2>1. NumData \in Nat
    BY OneNumbering
  <2> QED
    BY <2>1, TruthStays
<1>2. \A ack \in acks' : StatesTruth(ack, RP!Loop')
  BY <1>1 DEF TransferIInv, AcksAreTrue
<1>3. AcksAreTrue'
  BY <1>2 DEF AcksAreTrue, StatesTruth, Had, Reached, RP!HeldIn, RP!Loop, RP!QKeys, RP!PacketSeq, RP!SeqAdd,
              WP!SeqOf, WP!SeqAdd
<1>4. LatestIsTrue'
  BY DEF TransferIInv, LatestIsTrue, Reached, WP!SeqOf, WP!SeqAdd, WP!Undefined
<1>5. ASSUME NEW d \in 1 .. NumData, RP!PacketSeq(d) \in acked' PROVE Held(d)'
  BY <1>5 DEF TransferIInv, StruckOffIsHeld
<1>6. StruckOffIsHeld'
  BY <1>5 DEF StruckOffIsHeld, RP!PacketSeq, RP!SeqAdd
<1> QED
  BY <1>3, <1>4, <1>6 DEF TransferIInv

\* Where the reader does nothing it keeps what it has.
LEMMA IdleReader ==
    ASSUME ShortTransfer, Ends, UNCHANGED recvVars
    PROVE  /\ ReaderEnd'
           /\ \A d : Held(d)' <=> Held(d)
           /\ consumed' = consumed
           /\ RP!Loop' = RP!Loop
<1>1. consumed' = consumed /\ recvPacketQueue' = recvPacketQueue /\ localAckNr' = localAckNr
  BY DEF recvVars
<1>2. \A d : Held(d)' <=> Held(d)
  BY <1>1, HeldIs
<1>3. ReaderEnd'
  BY ReaderKeepsItsEnd
<1> QED
  BY <1>1, <1>2, <1>3 DEF RP!Loop

\* Transmitting packets the window has let through.
LEMMA TransmitSends ==
    ASSUME ShortTransfer, OnlySent, \A d \in 1 .. NumData : Held(d)' => Held(d),
           WP!SentCount \in Nat, WP!SentCount' \in Nat, WP!SentCount <= WP!SentCount',
           NEW S, Transmit(S),
           \A d \in 1 .. NumData : RP!PacketSeq(d) \in S => d <= WP!SentCount'
    PROVE  OnlySent'
<1>1. Packets = 1 .. NumData + 1 /\ FIN = NumData + 1 /\ NumData \in Nat
  BY OneNumbering
<1>2. \A i : R!PacketSeq(i) = RP!PacketSeq(i)
  BY SameReader
<1>3. net' = [i \in Packets |-> IF i # FIN /\ RP!PacketSeq(i) \in S THEN net[i] + 1 ELSE net[i]]
  BY <1>2 DEF Transmit
<1>4. net' \in [Packets -> Nat]
  BY <1>3 DEF OnlySent
<1>5. ASSUME NEW d \in 1 .. NumData, net'[d] > 0 \/ Held(d)'
      PROVE  d <= WP!SentCount'
  <2>1. CASE RP!PacketSeq(d) \in S
    BY <2>1
  <2>2. CASE RP!PacketSeq(d) \notin S
    <3>1. d \in Packets /\ d # FIN
      BY <1>1
    <3>2. net'[d] = net[d]
      BY <1>3, <2>2, <3>1
    <3>3. d <= WP!SentCount
      BY <1>5, <3>2 DEF OnlySent
    <3> HIDE DEF WP!SentCount
    <3> QED
      BY <3>3
  <2> QED
    BY <2>1, <2>2
<1> QED
  BY <1>1, <1>4, <1>5 DEF OnlySent, Packets, R!Packets

\* Taking a packet off the wire, and having it.
LEMMA TakingSends ==
    ASSUME ShortTransfer, OnlySent, NEW i \in Packets,
           net' \in [Packets -> Nat], \A j \in Packets : net'[j] <= net[j], net[i] > 0,
           \A d \in 1 .. NumData : Held(d)' => Held(d) \/ d = i,
           UNCHANGED sendVars
    PROVE  OnlySent'
<1>1. Packets = 1 .. NumData + 1 /\ NumData \in Nat
  BY OneNumbering
<1>2. WP!SentCount' = WP!SentCount
  BY DEF sendVars, WP!SentCount
<1>3. ASSUME NEW d \in 1 .. NumData, net'[d] > 0 \/ Held(d)'
      PROVE  d <= WP!SentCount
  <2>1. d \in Packets
    BY <1>1
  <2>2. net[d] \in Nat /\ net'[d] \in Nat /\ net'[d] <= net[d]
    BY <2>1 DEF OnlySent
  <2>3. net[d] > 0 \/ Held(d)
    BY <1>3, <2>2
  <2> QED
    BY <2>3 DEF OnlySent
<1> QED
  BY <1>1, <1>2, <1>3 DEF OnlySent, Packets, R!Packets

\* A step of the writer that takes no ACK.
LEMMA SendingPreserves ==
    ASSUME ShortTransfer, TransferIInv, [WP!Next]_WP!vars, connState' # "RESET",
           UNCHANGED <<recvVars, acks, latest, acked>>,
           \/ \E S : Transmit(S) /\ \A d \in 1 .. NumData :
                                       RP!PacketSeq(d) \in S => RP!PacketSeq(d) \in WP!Keys(packetMap')
           \/ SendsFin
           \/ net' = net
    PROVE  TransferIInv'
<1>1. /\ WP!IInv' /\ WP!OrderInv'
      /\ WP!SentCount \in Nat /\ WP!SentCount' \in Nat /\ WP!SentCount <= WP!SentCount'
      /\ \A d \in 1 .. NumData : RP!PacketSeq(d) \in WP!Keys(packetMap') => d <= WP!SentCount'
  BY WriterKeepsItsEnd DEF TransferIInv
<1>2. /\ ReaderEnd'
      /\ \A d : Held(d)' <=> Held(d)
      /\ consumed' = consumed
      /\ RP!Loop' = RP!Loop
  BY IdleReader DEF TransferIInv
<1>3. Ends'
  BY <1>1, <1>2 DEF Ends
<1>4. OnlySent /\ net \in [Packets -> Nat]
  BY DEF TransferIInv, OnlySent
<1>5. OnlySent'
  <2>1. CASE \E S : Transmit(S) /\ \A d \in 1 .. NumData :
                                      RP!PacketSeq(d) \in S => RP!PacketSeq(d) \in WP!Keys(packetMap')
    <3>1. PICK S : Transmit(S) /\ \A d \in 1 .. NumData :
                                     RP!PacketSeq(d) \in S => RP!PacketSeq(d) \in WP!Keys(packetMap')
      BY <2>1
    <3> QED
      BY <1>1, <1>2, <1>4, <3>1, TransmitSends
  <2>2. CASE SendsFin \/ net' = net
    <3>1. Packets = 1 .. NumData + 1 /\ FIN = NumData + 1 /\ NumData \in Nat
      BY OneNumbering
    <3>2. net' \in [Packets -> Nat] /\ \A d \in 1 .. NumData : net'[d] = net[d]
      BY <1>4, <2>2, <3>1 DEF SendsFin
    <3>3. ASSUME NEW d \in 1 .. NumData, net'[d] > 0 \/ Held(d)'
          PROVE  d <= WP!SentCount'
      <4>1. d <= WP!SentCount
        BY <1>2, <1>4, <3>2, <3>3 DEF OnlySent
      <4> HIDE DEF WP!SentCount
      <4> QED
        BY <1>1, <4>1
    <3> QED
      BY <3>1, <3>2, <3>3 DEF OnlySent, Packets, R!Packets
  <2> QED
    BY <2>1, <2>2
<1> QED
  BY <1>2, <1>3, <1>5, NothingUntrueEnters

LEMMA WritePreserves ==
    ASSUME ShortTransfer, TransferIInv, Write
    PROVE  TransferIInv'
<1>1. WP!WaitForAck
  BY SameWriter DEF Write
<1>2. [WP!Next]_WP!vars /\ connState' # "RESET" /\ UNCHANGED <<recvVars, acks, latest, acked>>
  BY <1>1 DEF WP!Next, WP!WaitForAck, Write
<1>3. Transmit(WP!Keys(packetMap') \ WP!Keys(packetMap))
  BY SameWriter DEF Write, TransmitAdmitted
<1> QED
  BY <1>2, <1>3, SendingPreserves

LEMMA RetransmitPreserves ==
    ASSUME ShortTransfer, TransferIInv, NEW s \in W!SeqNrs, Retransmit(s)
    PROVE  TransferIInv'
<1>1. WP!Resend(s) /\ s \in WP!SeqNrs
  BY SameWriter DEF Retransmit
<1>2. [WP!Next]_WP!vars /\ connState' # "RESET" /\ UNCHANGED <<recvVars, acks, latest, acked>>
  BY <1>1 DEF WP!Next, WP!Resend, WP!InTable, Retransmit
<1>3. s \in WP!Keys(packetMap')
  BY <1>1 DEF WP!Resend, WP!BM, WP!Keys
<1>4. Transmit({s}) /\ \A d \in 1 .. NumData :
         RP!PacketSeq(d) \in {s} => RP!PacketSeq(d) \in WP!Keys(packetMap')
  BY <1>3 DEF Retransmit
<1> QED
  BY <1>2, <1>4, SendingPreserves

LEMMA AbandonPreserves ==
    ASSUME ShortTransfer, TransferIInv, NEW s \in W!SeqNrs, Abandon(s)
    PROVE  TransferIInv'
<1>1. WP!GiveUp(s) /\ s \in WP!SeqNrs
  BY SameWriter DEF Abandon
<1>2. [WP!Next]_WP!vars /\ connState' # "RESET" /\ UNCHANGED <<recvVars, acks, latest, acked>>
  BY <1>1 DEF WP!Next, WP!GiveUp, WP!InTable, Abandon
<1>3. Transmit(WP!Keys(packetMap') \ WP!Keys(packetMap))
  BY SameWriter DEF Abandon, TransmitAdmitted
<1> QED
  BY <1>2, <1>3, SendingPreserves

LEMMA CloseOrReleasePreserves ==
    ASSUME ShortTransfer, TransferIInv, CloseWriter \/ ReleaseWriter
    PROVE  TransferIInv'
<1>1. CASE CloseWriter
  <2>1. WP!Close
    BY <1>1, SameWriter DEF CloseWriter
  <2>2. [WP!Next]_WP!vars /\ connState' # "RESET" /\ UNCHANGED <<recvVars, acks, latest, acked>>
    BY <1>1, <2>1 DEF WP!Next, WP!Close, CloseWriter
  <2> QED
    BY <1>1, <2>2, SendingPreserves DEF CloseWriter
<1>2. CASE ReleaseWriter
  <2>1. WP!Release
    BY <1>2, SameWriter DEF ReleaseWriter
  <2>2. /\ [WP!Next]_WP!vars /\ connState' # "RESET" /\ UNCHANGED <<recvVars, acks, latest, acked>>
        /\ net' = net
    BY <1>2, <2>1 DEF WP!Next, WP!Release, ReleaseWriter, netVars
  <2> QED
    BY <2>2, SendingPreserves
<1> QED
  BY <1>1, <1>2

\* Where the writer does nothing its end stays as it is.
LEMMA IdleWriter ==
    ASSUME ShortTransfer, Ends, UNCHANGED sendVars
    PROVE  WP!IInv' /\ WP!OrderInv' /\ connState' # "RESET" /\ latest' = latest /\ acked' = acked
<1>1. [WP!Next]_WP!vars /\ connState' # "RESET" /\ latest' = latest /\ acked' = acked
  BY DEF sendVars, WP!vars, Ends
<1> QED
  BY <1>1, WriterKeepsItsEnd

\* The network takes copies away, and the reader may acknowledge once more.
LEMMA NetworkPreserves ==
    ASSUME ShortTransfer, TransferIInv, UNCHANGED <<sendVars, recvVars>>,
           net' \in [Packets -> Nat], \A j \in Packets : net'[j] <= net[j],
           acks' \subseteq acks \/ (localState \in {"SYN_RECV", "CONNECTED"} /\ SendsAck)
    PROVE  TransferIInv'
<1>1. /\ ReaderEnd'
      /\ \A d : Held(d)' <=> Held(d)
      /\ consumed' = consumed
      /\ RP!Loop' = RP!Loop
  BY IdleReader DEF TransferIInv
<1>2. WP!IInv' /\ WP!OrderInv' /\ connState' # "RESET" /\ latest' = latest /\ acked' = acked
  BY IdleWriter DEF TransferIInv
<1>3. Ends'
  BY <1>1, <1>2 DEF Ends
<1>4. OnlySent'
  <2>1. WP!SentCount' = WP!SentCount
    BY DEF sendVars, WP!SentCount
  <2>2. ASSUME NEW d \in 1 .. NumData, net'[d] > 0 \/ Held(d)'
        PROVE  d <= WP!SentCount
    <3>1. d \in Packets
      BY OneNumbering
    <3>2. net[d] \in Nat /\ net'[d] \in Nat /\ net'[d] <= net[d]
      BY <3>1 DEF TransferIInv, OnlySent
    <3>3. net[d] > 0 \/ Held(d)
      BY <1>1, <2>2, <3>2
    <3> QED
      BY <3>3 DEF TransferIInv, OnlySent
  <2> QED
    BY <2>1, <2>2 DEF OnlySent, Packets, R!Packets
<1>5. \A ack \in acks' : ack \in acks \/ StatesTruth(ack, RP!Loop')
  <2>1. CASE localState \in {"SYN_RECV", "CONNECTED"} /\ SendsAck
    <3>1. localState' \in {"SYN_RECV", "CONNECTED"} /\ isInitiator' = isInitiator
      BY <2>1 DEF recvVars
    <3> QED
      BY <1>1, <2>1, <3>1, SendsTruth
  <2> QED
    BY <2>1
<1>6. /\ \A d \in 1 .. NumData : Held(d) => Held(d)'
      /\ \A n \in 0 .. NumData : Reached(consumed, n) => Reached(consumed', n)
  BY <1>1
<1> QED
  BY <1>2, <1>3, <1>4, <1>5, <1>6, NothingUntrueEnters

\* What it is to take a copy from the network.
LEMMA TakingIs ==
    ASSUME ShortTransfer, OnlySent, NEW i \in Packets, TakeFromNet(i)
    PROVE  /\ net' \in [Packets -> Nat] /\ \A j \in Packets : net'[j] <= net[j]
           /\ net[i] > 0
           /\ \A j \in Packets : j # i => net'[j] = net[j]
           /\ losses' = losses
<1>1. net \in [Packets -> Nat] /\ net[i] \in Nat /\ net[i] > 0
  BY DEF OnlySent, TakeFromNet
<1>2. net' = [net EXCEPT ![i] = net[i] - 1] \/ net' = net
  BY DEF TakeFromNet
<1> QED
  BY <1>1, <1>2 DEF TakeFromNet

\* A packet is taken and dropped, a copy or an ACK gets lost or comes too late,
\* the keep-alive timer runs out.
LEMMA QuietPreserves ==
    ASSUME ShortTransfer, TransferIInv,
           \/ \E i \in Packets : ReceiveIgnored(i)
           \/ KeepAlive
           \/ \E ack \in acks : AckTooLate(ack)
           \/ \E i \in Packets : LosePacket(i)
           \/ \E ack \in acks : LoseAck(ack)
           \/ UNCHANGED transferVars
    PROVE  TransferIInv'
<1>1. OnlySent /\ net \in [Packets -> Nat]
  BY DEF TransferIInv, OnlySent
<1>2. CASE \E i \in Packets : ReceiveIgnored(i)
  <2>1. PICK i \in Packets : ReceiveIgnored(i)
    BY <1>2
  <2>2. net' \in [Packets -> Nat] /\ \A j \in Packets : net'[j] <= net[j]
    BY <1>1, <2>1, TakingIs DEF ReceiveIgnored
  <2>3. UNCHANGED <<sendVars, recvVars>> /\ acks' \subseteq acks
    BY <2>1 DEF ReceiveIgnored
  <2> QED
    BY <2>2, <2>3, NetworkPreserves
<1>3. CASE KeepAlive
  <2>1. /\ UNCHANGED <<sendVars, recvVars>> /\ net' = net
        /\ localState \in {"SYN_RECV", "CONNECTED"} /\ SendsAck
    BY <1>3 DEF KeepAlive
  <2>2. net' \in [Packets -> Nat] /\ \A j \in Packets : net'[j] <= net[j]
    BY <1>1, <2>1
  <2> QED
    BY <2>1, <2>2, NetworkPreserves
<1>4. CASE \E i \in Packets : LosePacket(i)
  <2>1. PICK i \in Packets : LosePacket(i)
    BY <1>4
  <2>2. net' = [net EXCEPT ![i] = net[i] - 1] /\ net[i] > 0
    BY <2>1 DEF LosePacket
  <2>3. net' \in [Packets -> Nat] /\ \A j \in Packets : net'[j] <= net[j]
    BY <1>1, <2>2
  <2>4. UNCHANGED <<sendVars, recvVars>> /\ acks' \subseteq acks
    BY <2>1 DEF LosePacket
  <2> QED
    BY <2>3, <2>4, NetworkPreserves
<1>5. CASE \/ \E ack \in acks : AckTooLate(ack) \/ LoseAck(ack)
           \/ UNCHANGED transferVars
  <2>1. UNCHANGED <<sendVars, recvVars>> /\ acks' \subseteq acks /\ net' = net
    BY <1>5 DEF AckTooLate, LoseAck, transferVars, netVars
  <2>2. net' \in [Packets -> Nat] /\ \A j \in Packets : net'[j] <= net[j]
    BY <1>1, <2>1
  <2> QED
    BY <2>1, <2>2, NetworkPreserves
<1> QED
  BY <1>2, <1>3, <1>4, <1>5

LEMMA SynAckPreserves ==
    ASSUME ShortTransfer, TransferIInv, SynAck
    PROVE  TransferIInv'
<1>1. RP!HandleAtSynSent /\ UNCHANGED sendVars /\ UNCHANGED netVars
  BY SameReader DEF SynAck
<1>2. consumed' = consumed /\ recvPacketQueue' = recvPacketQueue
  BY <1>1 DEF RP!HandleAtSynSent
<1>3. ReaderEnd'
  BY <1>1, ReaderKeepsItsEnd DEF TransferIInv
<1>4. WP!IInv' /\ WP!OrderInv' /\ connState' # "RESET" /\ latest' = latest /\ acked' = acked
  BY <1>1, IdleWriter DEF TransferIInv
<1>5. Ends'
  BY <1>3, <1>4 DEF Ends
<1>6. \A d : Held(d)' <=> Held(d)
  BY <1>2, HeldIs
<1>7. OnlySent'
  <2>1. WP!SentCount' = WP!SentCount /\ net' = net
    BY <1>1 DEF sendVars, netVars, WP!SentCount
  <2> HIDE DEF WP!SentCount
  <2> QED
    BY <1>6, <2>1 DEF TransferIInv, OnlySent, Packets, R!Packets
<1>8. /\ \A n \in 0 .. NumData : Reached(consumed, n) => Reached(consumed', n)
      /\ \A d \in 1 .. NumData : Held(d) => Held(d)'
  BY <1>2, <1>6
<1>9. acks' = acks
  BY <1>1 DEF netVars
<1> QED
  BY <1>4, <1>5, <1>7, <1>8, <1>9, NothingUntrueEnters

\* A responder gets its first packet.
LEMMA FirstPreserves ==
    ASSUME ShortTransfer, TransferIInv, NEW i \in Packets, TakeFromNet(i),
           RP!HandleAtSynReceived(i), SendsAck, UNCHANGED sendVars
    PROVE  TransferIInv'
<1>1. /\ Packets = RP!Packets /\ RP!Packets = 1 .. NumData + 1 /\ NumData \in Nat
      /\ FIN = RP!FIN /\ RP!FIN = NumData + 1
  BY OneNumbering
<1>2. /\ localState = "SYN_RECV" /\ localState' = "CONNECTED" /\ i # RP!FIN
      /\ isInitiator' = isInitiator
      /\ consumed' = Append(consumed, i) /\ recvPacketQueue' = recvPacketQueue
  BY DEF RP!HandleAtSynReceived
<1>3. consumed = <<>> /\ RP!QKeys(recvPacketQueue) = {}
  BY <1>2 DEF TransferIInv, Ends, ReaderEnd, RP!RecvIInv, RP!NothingYet
<1>4. consumed' = <<i>> /\ Len(consumed') = 1 /\ consumed'[1] = i /\ consumed' # <<>>
  BY <1>2, <1>3
<1>5. /\ \A d : ~Held(d)
      /\ \A d : Held(d)' <=> d = i \/ d < i
  BY <1>2, <1>3, <1>4, HeldIs
<1>6. ReaderEnd'
  BY ReaderKeepsItsEnd DEF TransferIInv
<1>7. WP!IInv' /\ WP!OrderInv' /\ connState' # "RESET" /\ latest' = latest /\ acked' = acked
  BY IdleWriter DEF TransferIInv
<1>8. Ends'
  BY <1>6, <1>7 DEF Ends
<1>9. OnlySent'
  <2>1. OnlySent /\ WP!SentCount' = WP!SentCount
    BY DEF TransferIInv, sendVars, WP!SentCount
  <2>2. /\ net' \in [Packets -> Nat] /\ \A j \in Packets : net'[j] <= net[j]
        /\ net[i] > 0 /\ net \in [Packets -> Nat]
    BY <2>1, TakingIs DEF OnlySent
  <2>3. WP!SentCount \in Nat /\ i \in 1 .. NumData /\ i <= WP!SentCount
    <3>1. WP!SentCount \in Nat
      BY WP!BlockedAreLast, WriterAssumes DEF TransferIInv, Ends
    <3>2. i \in 1 .. NumData
      BY <1>1, <1>2
    <3> QED
      BY <2>1, <2>2, <3>1, <3>2 DEF OnlySent
  <2> HIDE DEF WP!SentCount
  <2>4. ASSUME NEW d \in 1 .. NumData, net'[d] > 0 \/ Held(d)'
        PROVE  d <= WP!SentCount
    <3>1. CASE net'[d] > 0
      <4>1. d \in Packets
        BY <1>1
      <4>2. net[d] > 0
        BY <2>2, <3>1, <4>1
      <4> QED
        BY <2>1, <4>2 DEF OnlySent
    <3>2. CASE d = i \/ d < i
      BY <2>3, <3>2
    <3> QED
      BY <1>5, <2>4, <3>1, <3>2
  <2> QED
    BY <2>1, <2>2, <2>4 DEF OnlySent, Packets, R!Packets
<1>10. \A ack \in acks' : ack \in acks \/ StatesTruth(ack, RP!Loop')
  BY <1>2, <1>6, SendsTruth
<1>11. \A n \in 0 .. NumData : Reached(consumed, n) => Reached(consumed', n)
  BY <1>3 DEF Reached
<1> QED
  BY <1>5, <1>7, <1>8, <1>9, <1>10, <1>11, NothingUntrueEnters

\* A DATA packet or the FIN is taken from the network and handled.
LEMMA HandlingPreserves ==
    ASSUME ShortTransfer, TransferIInv, NEW i \in Packets, TakeFromNet(i),
           UNCHANGED sendVars,
           \/ RP!HandleData(i) /\ SendsAck
           \/ i = FIN /\ RP!HandleFin(TRUE) /\ acks' = acks
    PROVE  TransferIInv'
<1> DEFINE after == RP!AfterQueueing(i)
<1>1. Packets = RP!Packets /\ FIN = RP!FIN /\ RP!Packets = 1 .. NumData + 1 /\ NumData \in Nat
  BY OneNumbering
<1>2. /\ localState = "CONNECTED"
      /\ localAckNr' = after.ackNr /\ recvPacketQueue' = after.queue /\ consumed' = after.consumed
  BY <1>1 DEF RP!HandleData, RP!HandleFin
<1>3. /\ RP!Loop' = after
      /\ \A d \in RP!Packets : Held(d) => Held(d)'
      /\ \A d \in RP!Packets : Held(d)' => Held(d) \/ d = i
      /\ \A n : Reached(consumed, n) => Reached(consumed', n)
  BY <1>1, <1>2, HandlingHolds DEF TransferIInv
<1> HIDE DEF after
<1>4. ReaderEnd'
  BY ReaderKeepsItsEnd DEF TransferIInv
<1>5. WP!IInv' /\ WP!OrderInv' /\ connState' # "RESET" /\ latest' = latest /\ acked' = acked
  BY IdleWriter DEF TransferIInv
<1>6. Ends'
  BY <1>4, <1>5 DEF Ends
<1>7. \A d \in 1 .. NumData : d \in RP!Packets
  BY <1>1
<1>8. OnlySent'
  <2>1. OnlySent
    BY DEF TransferIInv
  <2>2. /\ net' \in [Packets -> Nat] /\ \A j \in Packets : net'[j] <= net[j]
        /\ net[i] > 0
    BY <2>1, TakingIs
  <2> QED
    BY <1>3, <1>7, <2>1, <2>2, TakingSends
<1>9. \A ack \in acks' : ack \in acks \/ StatesTruth(ack, RP!Loop')
  <2>1. CASE RP!HandleData(i) /\ SendsAck
    <3>1. localState' = "CONNECTED" /\ isInitiator' = isInitiator
      BY <2>1 DEF RP!HandleData
    <3> QED
      BY <1>4, <2>1, <3>1, SendsTruth
  <2> QED
    BY <2>1
<1> QED
  BY <1>3, <1>5, <1>6, <1>7, <1>8, <1>9, NothingUntrueEnters

\* The reader acts.
LEMMA ReadingPreserves ==
    ASSUME ShortTransfer, TransferIInv,
           \/ SynAck
           \/ \E i \in Packets : ReceiveFirst(i)
           \/ \E i \in Packets : ReceiveData(i)
           \/ ReceiveFin
    PROVE  TransferIInv'
<1>1. CASE \E i \in Packets : ReceiveFirst(i)
  <2>1. PICK i \in Packets : ReceiveFirst(i)
    BY <1>1
  <2>2. TakeFromNet(i) /\ RP!HandleAtSynReceived(i) /\ SendsAck /\ UNCHANGED sendVars
    BY <2>1, SameReader DEF ReceiveFirst
  <2> QED
    BY <2>2, FirstPreserves
<1>2. CASE \E i \in Packets : ReceiveData(i)
  <2>1. PICK i \in Packets : ReceiveData(i)
    BY <1>2
  <2>2. TakeFromNet(i) /\ RP!HandleData(i) /\ SendsAck /\ UNCHANGED sendVars
    BY <2>1, SameReader DEF ReceiveData
  <2> QED
    BY <2>2, HandlingPreserves
<1>3. CASE ReceiveFin
  <2>1. TakeFromNet(FIN) /\ RP!HandleFin(TRUE) /\ UNCHANGED sendVars /\ acks' = acks
    BY <1>3, SameReader DEF ReceiveFin
  <2>2. FIN \in Packets
    BY OneNumbering
  <2> QED
    BY <2>1, <2>2, HandlingPreserves
<1> QED
  BY <1>1, <1>2, <1>3, SynAckPreserves

\* An ACK arrives, however late: what it makes the writer strike off is held.
LEMMA ReceiveAckPreserves ==
    ASSUME ShortTransfer, TransferIInv, NEW ack \in acks, ReceiveAck(ack)
    PROVE  TransferIInv'
<1>1. PICK remote \in RemoteWindows : WP!HandleAck(ack.ackNr, ack.sack, remote)
  BY SameWriter DEF ReceiveAck
<1>2. /\ UNCHANGED recvVars /\ acks' \subseteq acks
      /\ Transmit(WP!Keys(packetMap') \ WP!Keys(packetMap))
  BY SameWriter DEF ReceiveAck, TransmitAdmitted
<1>3. PICK n \in 0 .. NumData :
         /\ Reached(consumed, n)
         /\ ack.ackNr = WP!SeqOf(n - 1)
         /\ \A s \in ack.sack : \E d \in n + 2 .. NumData : s = RP!PacketSeq(d) /\ Held(d)
  BY DEF TransferIInv, AcksAreTrue, StatesTruth, Held, RP!Loop
<1>4. /\ NumData \in Nat /\ remote \in Nat /\ WP!ShortStream
      /\ \A d : RP!PacketSeq(d) = WP!SeqOf(d - 1)
      /\ RP!Packets = 1 .. NumData + 1
      /\ \A a, b \in RP!Packets : RP!PacketSeq(a) = RP!PacketSeq(b) => a = b
  BY TransferAssumption, OneNumbering
<1>5. ASSUME NEW d \in 1 .. NumData, NEW m \in 0 .. NumData, d <= m, Reached(consumed, m)
      PROVE  Held(d)
  <2>1. RP!LoopOK(RP!Loop) /\ RP!Loop.consumed = consumed
    BY DEF TransferIInv, Ends, ReaderEnd, RP!RecvIInv, RP!Loop
  <2>2. \A j \in 2 .. Len(consumed) : consumed[j] = consumed[j - 1] + 1
    BY DEF TransferIInv, Ends, ReaderEnd, RP!RecvOrder, RP!ConsumedInOrder
  <2> QED
    BY <1>5, <2>1, <2>2, ReachedIsHad DEF Held
<1>6. WP!SentCount \in Nat /\ \A d \in 1 .. NumData : Held(d) => d <= WP!SentCount
  <2>1. WP!SentCount \in Nat
    BY WP!BlockedAreLast, WriterAssumes DEF TransferIInv, Ends
  <2> QED
    BY <2>1 DEF TransferIInv, OnlySent
<1>7. WP!IncomingAck
  <2>1. n \in 0 .. WP!SentCount
    <3>1. CASE n = 0
      <4> HIDE DEF WP!SentCount
      <4> QED
        BY <1>6, <3>1
    <3>2. CASE n # 0
      <4>1. n \in 1 .. NumData /\ n <= n
        BY <1>4, <3>2
      <4>2. n <= WP!SentCount
        BY <1>3, <1>5, <1>6, <4>1
      <4> HIDE DEF WP!SentCount
      <4> QED
        BY <1>4, <1>6, <4>2
    <3> QED
      BY <3>1, <3>2
  <2>2. ack.sack \in SUBSET {WP!SeqOf(i) : i \in n + 1 .. WP!SentCount - 1}
    <3>1. ASSUME NEW s \in ack.sack
          PROVE  \E i \in n + 1 .. WP!SentCount - 1 : s = WP!SeqOf(i)
      <4>1. PICK d \in n + 2 .. NumData : s = RP!PacketSeq(d) /\ Held(d)
        BY <1>3
      <4>2. d \in 1 .. NumData /\ d <= WP!SentCount
        BY <1>3, <1>4, <1>6, <4>1
      <4>3. d - 1 \in n + 1 .. WP!SentCount - 1
        BY <1>3, <1>4, <1>6, <4>1, <4>2
      <4> QED
        BY <1>4, <4>1, <4>3
    <3> QED
      BY <3>1
  <2> QED
    BY <1>1, <1>3, <2>1, <2>2 DEF WP!IncomingAck
<1>8. [WP!Next]_WP!vars /\ connState' # "RESET"
  BY <1>1, <1>7 DEF WP!Next, WP!HandleAck, WP!InTable
<1>9. /\ WP!IInv' /\ WP!OrderInv'
      /\ WP!SentCount \in Nat /\ WP!SentCount' \in Nat /\ WP!SentCount <= WP!SentCount'
      /\ \A d \in 1 .. NumData : RP!PacketSeq(d) \in WP!Keys(packetMap') => d <= WP!SentCount'
  BY <1>8, WriterKeepsItsEnd DEF TransferIInv
<1>10. /\ ReaderEnd'
       /\ \A d : Held(d)' <=> Held(d)
       /\ consumed' = consumed
  BY <1>2, IdleReader DEF TransferIInv
<1>11. Ends'
  BY <1>8, <1>9, <1>10 DEF Ends
<1>12. OnlySent'
  <2>1. OnlySent
    BY DEF TransferIInv
  <2> QED
    BY <1>2, <1>9, <1>10, <2>1, TransmitSends
<1>13. latest' = latest \/ latest' = ack.ackNr
  BY <1>1 DEF WP!HandleAck, WP!LatestAfter
<1>14. \/ latest' = latest
       \/ \E m \in 0 .. NumData : Reached(consumed, m) /\ latest' = WP!SeqOf(m - 1)
  BY <1>3, <1>13
<1>15. ASSUME NEW d \in 1 .. NumData, RP!PacketSeq(d) \in acked'
       PROVE  RP!PacketSeq(d) \in acked \/ Held(d)
  <2> DEFINE s == RP!PacketSeq(d)
  <2>1. \/ s \in acked \/ s \in ack.sack
        \/ latest' # WP!Undefined /\ WP!SeqGe(latest', s)
    BY <1>1, <1>4, <1>15, WP!HandleAckFollows, WriterAssumes DEF TransferIInv, Ends
  <2>2. CASE s \in ack.sack
    <3>1. PICK e \in n + 2 .. NumData : s = RP!PacketSeq(e) /\ Held(e)
      BY <1>3, <2>2
    <3>2. d \in RP!Packets /\ e \in RP!Packets
      BY <1>3, <1>4, <3>1
    <3> QED
      BY <1>4, <3>1, <3>2
  <2>3. CASE latest' # WP!Undefined /\ WP!SeqGe(latest', s)
    <3>1. PICK m \in 0 .. NumData : Reached(consumed, m) /\ latest' = WP!SeqOf(m - 1)
      BY <1>14, <2>3 DEF TransferIInv, LatestIsTrue
    <3>2. WP!SeqGe(WP!SeqOf(m - 1), WP!SeqOf(d - 1)) /\ d - 1 \in 0 .. NumData - 1
      BY <1>4, <2>3, <3>1
    <3>3. d - 1 < m
      BY <1>4, <3>2, WP!ShortStreamOrder, WriterAssumes
    <3>4. d <= m
      BY <3>3
    <3> QED
      BY <1>5, <3>1, <3>4
  <2> QED
    BY <2>1, <2>2, <2>3
<1>16. /\ \A d \in 1 .. NumData : Held(d) => Held(d)'
       /\ \A m \in 0 .. NumData : Reached(consumed, m) => Reached(consumed', m)
  BY <1>10
<1> QED
  BY <1>2, <1>10, <1>11, <1>12, <1>14, <1>15, <1>16, NothingUntrueEnters

\* Every step of the transfer.
LEMMA TransferNextPreserves ==
    ASSUME ShortTransfer, TransferIInv, [TransferNext]_transferVars
    PROVE  TransferIInv'
BY WritePreserves, RetransmitPreserves, AbandonPreserves, CloseOrReleasePreserves,
   ReadingPreserves, QuietPreserves, ReceiveAckPreserves DEF TransferNext

LEMMA TransferInitEstablishes ==
    ASSUME ShortTransfer, TransferInit
    PROVE  TransferIInv
<1>1. WP!Init /\ RP!RecvInit
  BY SameWriter, SameReader DEF TransferInit
<1>2. WP!IInv /\ WP!OrderInv
  BY <1>1, WP!InitEstablishes, WP!InitOrders, WriterAssumes
<1>3. RP!RecvIInv /\ RP!RecvOrder
  BY <1>1, RP!RecvInitEstablishes, ReaderAssumes
<1>4. /\ localState \in {"SYN_SENT", "SYN_RECV"} /\ (localState = "SYN_SENT" => isInitiator)
      /\ localState = "SYN_RECV" => localAckNr = RP!SeqAdd(FirstSeq, -1)
      /\ connState = "CONNECTED"
  BY <1>1 DEF RP!RecvInit, WP!Init
<1>5. Ends
  BY <1>2, <1>3, <1>4 DEF Ends, ReaderEnd, StartKnown, RP!BeforeFin
<1>6. \A d : ~Held(d)
  <2>1. consumed = <<>> /\ RP!QKeys(recvPacketQueue) = {}
    BY <1>1 DEF RP!RecvInit, RP!EmptyQueue, RP!QKeys
  <2> QED
    BY <2>1, HeldIs
<1>7. OnlySent
  <2>1. Packets = 1 .. NumData + 1 /\ NumData \in Nat
    BY OneNumbering
  <2>2. net = [i \in Packets |-> 0]
    BY DEF TransferInit
  <2>3. net \in [Packets -> Nat] /\ \A d \in 1 .. NumData : net[d] = 0
    BY <2>1, <2>2
  <2> QED
    BY <1>6, <2>3 DEF OnlySent
<1>8. AcksAreTrue /\ LatestIsTrue /\ StruckOffIsHeld
  BY <1>1 DEF TransferInit, WP!Init, AcksAreTrue, LatestIsTrue, StruckOffIsHeld
<1> QED
  BY <1>5, <1>7, <1>8 DEF TransferIInv

\* The invariant of the transfer, for every number of packets, lost and duplicated
\* copies, window and queue, whatever the timers do and whenever close() comes.
THEOREM TransferInvariance ==
    ASSUME ShortTransfer
    PROVE  TransferSpec => []TransferIInv
<1>1. TransferInit => TransferIInv
  BY TransferInitEstablishes
<1>2. TransferIInv /\ [TransferNext]_transferVars => TransferIInv'
  BY TransferNextPreserves
<1> QED
  BY <1>1, <1>2, PTL DEF TransferSpec

\* handleAck never strikes off a packet that the reader has neither consumed nor
\* still holds, whichever ACKs get lost, are duplicated, overtaken or late: the
\* packet would never be sent again.
THEOREM NothingAckedIsLost ==
    ASSUME ShortTransfer
    PROVE  TransferSpec => []AckedIsHeld
<1>1. ASSUME TransferIInv PROVE AckedIsHeld
  <2>1. ASSUME NEW i \in 1 .. NumData, R!PacketSeq(i) \in acked
        PROVE  \/ \E j \in 1 .. Len(consumed) : consumed[j] = i
               \/ /\ R!PacketSeq(i) \in R!QKeys(recvPacketQueue)
                  /\ recvPacketQueue.items[R!PacketSeq(i)] = i
               \/ Skipped(i)
    <3>1. /\ R!PacketSeq(i) = RP!PacketSeq(i)
          /\ R!QKeys(recvPacketQueue) = RP!QKeys(recvPacketQueue)
      BY SameReader
    <3>2. Held(i)
      BY <1>1, <2>1, <3>1 DEF TransferIInv, StruckOffIsHeld
    <3>3. CASE consumed # <<>> /\ i < consumed[1]
      <4>1. isInitiator \in BOOLEAN /\ (isInitiator => consumed[1] = 1)
        BY <1>1, <3>3 DEF TransferIInv, Ends, ReaderEnd, RP!RecvIInv, RP!RecvTypeOK, RP!RecvOrder, RP!ConsumedInOrder
      <4>2. ~isInitiator
        BY <3>3, <4>1
      <4> QED
        BY <3>3, <4>2 DEF Skipped
    <3> QED
      BY <3>1, <3>2, <3>3, HeldIs
  <2> QED
    BY <2>1 DEF AckedIsHeld
<1> QED
  BY <1>1, TransferInvariance, PTL

-----------------------------------------------------------------------------
(* The transfer implements ByteStream *)

\* The states the reader passes through, and what it has been told in each; the
\* FIN is sent when the writer has closed.
Phases ==
    /\ localState \in {"SYN_SENT", "SYN_RECV", "CONNECTED", "CLOSED"}
    /\ closedForWriting <=> localState = "CLOSED"
    /\ localState = "SYN_SENT" => written = 0
    /\ localState # "CLOSED" => remoteFinPacket = RP!NoPacket
    /\ net[FIN] > 0 \/ localState = "CLOSED" => connState # "CONNECTED"

\* A packet that the reader lacks was sent once and resent map[...] times; each
\* copy is still on its way or was lost.
CopiesAccounted ==
    /\ losses \in Nat /\ losses <= MaxLoss
    /\ \A d \in 1 .. NumData :
          RP!PacketSeq(d) \in WP!Keys(packetMap) /\ ~Held(d) =>
              packetMap.map[RP!PacketSeq(d)] + 1 <= net[d] + losses

GivenUpIsHeld ==
    /\ discarded = {}
    /\ MayClose = "idle" => \A d \in 1 .. NumData : RP!PacketSeq(d) \in lost => Held(d)

\* The writer closes when the reader has everything.
AllBeforeFin ==
    connState # "CONNECTED" => written = NumData /\ \A d \in 1 .. NumData : Held(d)

\* To be added to the invariant when the close is an orderly one.
Orderly == CopiesAccounted /\ GivenUpIsHeld /\ AllBeforeFin

\* The types that the next proofs rest on.
LEMMA TransferTypes ==
    ASSUME ShortTransfer, TransferIInv
    PROVE  /\ net \in [Packets -> Nat] /\ FIN \in Packets /\ NumData \in Nat
           /\ FIN = NumData + 1 /\ \A d \in 1 .. NumData : d \in Packets /\ d # FIN
           /\ \A k \in WP!Keys(packetMap) : packetMap.map[k] \in Nat
           /\ written \in Nat /\ Packets = 1 .. NumData + 1
           /\ MaxLoss \in Nat /\ ResendTimesLimit \in Nat
<1>1. net \in [Packets -> Nat]
  BY DEF TransferIInv, OnlySent
<1>2. FIN \in Packets /\ NumData \in Nat /\ FIN = NumData + 1 /\ Packets = 1 .. NumData + 1
  BY OneNumbering
<1>3. \A d \in 1 .. NumData : d \in Packets /\ d # FIN
  BY <1>2
<1>4. packetMap.map \in [WP!Keys(packetMap) -> 0 .. ResendTimesLimit] /\ written \in Nat
  BY DEF TransferIInv, Ends, WP!IInv, WP!TypeOK, WP!IsPacketMap
<1>5. \A k \in WP!Keys(packetMap) : packetMap.map[k] \in Nat
  BY <1>4, TransferAssumption
<1> QED
  BY <1>1, <1>2, <1>3, <1>4, <1>5, TransferAssumption

\* The window lets packets in, or drops some, and those let in are sent.
LEMMA AdmittingOrderly ==
    ASSUME ShortTransfer, TransferIInv, TransferIInv', Orderly,
           UNCHANGED <<recvVars, losses, connState, discarded>>,
           Transmit(WP!Keys(packetMap') \ WP!Keys(packetMap)),
           \A k \in WP!Keys(packetMap') :
              \/ packetMap'.map[k] = 0
              \/ k \in WP!Keys(packetMap) /\ packetMap'.map[k] = packetMap.map[k],
           written' = written \/ connState = "CONNECTED",
           MayClose = "idle" => \A d \in 1 .. NumData :
              RP!PacketSeq(d) \in lost' => RP!PacketSeq(d) \in lost \/ Held(d)
    PROVE  Orderly'
<1>1. \A d : Held(d)' <=> Held(d)
  BY IdleReader DEF TransferIInv
<1>2. /\ net \in [Packets -> Nat] /\ FIN \in Packets /\ NumData \in Nat
      /\ \A d \in 1 .. NumData : d \in Packets /\ d # FIN
      /\ \A k \in WP!Keys(packetMap) : packetMap.map[k] \in Nat
  BY TransferTypes
<1>3. \A i \in Packets :
         net'[i] = IF i # FIN /\ RP!PacketSeq(i) \in WP!Keys(packetMap') \ WP!Keys(packetMap)
                   THEN net[i] + 1 ELSE net[i]
  BY SameReader DEF Transmit
<1>5. CopiesAccounted'
  <2>1. ASSUME NEW d \in 1 .. NumData,
               RP!PacketSeq(d) \in WP!Keys(packetMap'), ~Held(d)
        PROVE  packetMap'.map[RP!PacketSeq(d)] + 1 <= net'[d] + losses
    <3> DEFINE k == RP!PacketSeq(d)
    <3>1. net[d] \in Nat /\ losses \in Nat /\ d \in Packets /\ d # FIN
      BY <1>2 DEF Orderly, CopiesAccounted
    <3>2. CASE k \notin WP!Keys(packetMap)
      <4>1. net'[d] = net[d] + 1
        BY <1>3, <2>1, <3>1, <3>2
      <4>2. packetMap'.map[k] = 0
        BY <2>1, <3>2
      <4> HIDE DEF k
      <4>3. packetMap'.map[k] + 1 <= net'[d] + losses
        BY <3>1, <4>1, <4>2
      <4> QED
        BY <4>3 DEF k
    <3>3. CASE k \in WP!Keys(packetMap)
      <4>1. net'[d] = net[d]
        BY <1>3, <3>1, <3>3
      <4>2. packetMap.map[k] + 1 <= net[d] + losses /\ packetMap.map[k] \in Nat
        BY <1>2, <2>1, <3>3 DEF Orderly, CopiesAccounted
      <4>3. packetMap'.map[k] = 0 \/ packetMap'.map[k] = packetMap.map[k]
        BY <2>1
      <4> HIDE DEF k
      <4>4. packetMap'.map[k] + 1 <= net'[d] + losses
        BY <3>1, <4>1, <4>2, <4>3
      <4> QED
        BY <4>4 DEF k
    <3> QED
      BY <3>2, <3>3
  <2>2. losses' = losses /\ losses \in Nat /\ losses <= MaxLoss
    BY DEF Orderly, CopiesAccounted
  <2> QED
    BY <1>1, <2>1, <2>2 DEF CopiesAccounted, RP!PacketSeq, RP!SeqAdd, WP!Keys
<1>6. GivenUpIsHeld'
  BY <1>1 DEF Orderly, GivenUpIsHeld, RP!PacketSeq, RP!SeqAdd
<1>7. AllBeforeFin'
  BY <1>1 DEF Orderly, AllBeforeFin
<1> QED
  BY <1>5, <1>6, <1>7 DEF Orderly

LEMMA WriteOrderly ==
    ASSUME ShortTransfer, TransferIInv, TransferIInv', Orderly, Write
    PROVE  Orderly'
<1>1. WP!WaitForAck
  BY SameWriter DEF Write
<1>2. WP!Bounded(packetMap) /\ localSeqNr \in WP!SeqNrs
  BY DEF TransferIInv, Ends, WP!IInv, WP!TypeOK, WP!MapOK
<1>3. packetMap' = WP!BMSet(packetMap, localSeqNr)
  BY <1>1 DEF WP!WaitForAck
<1>4. \A k \in WP!Keys(packetMap') :
         \/ packetMap'.map[k] = 0
         \/ k \in WP!Keys(packetMap) /\ packetMap'.map[k] = packetMap.map[k]
  BY <1>2, <1>3, WP!BMSetFollows, WriterAssumes DEF WP!Fresh
<1>5. /\ UNCHANGED <<recvVars, losses, connState, discarded, lost>>
      /\ connState = "CONNECTED"
  BY <1>1 DEF Write, WP!WaitForAck
<1>6. Transmit(WP!Keys(packetMap') \ WP!Keys(packetMap))
  BY SameWriter DEF Write, TransmitAdmitted
<1> QED
  BY <1>4, <1>5, <1>6, AdmittingOrderly

LEMMA AckOrderly ==
    ASSUME ShortTransfer, TransferIInv, TransferIInv', Orderly, NEW ack \in acks, ReceiveAck(ack)
    PROVE  Orderly'
<1>1. PICK remote \in RemoteWindows : WP!HandleAck(ack.ackNr, ack.sack, remote)
  BY SameWriter DEF ReceiveAck
<1>2. remote \in Nat
  BY TransferAssumption
<1>3. WP!Follows(packetMap, packetMap')
  BY <1>1, <1>2, WP!HandleAckFollows, WriterAssumes DEF TransferIInv, Ends
<1>4. \A k \in WP!Keys(packetMap') :
         \/ packetMap'.map[k] = 0
         \/ k \in WP!Keys(packetMap) /\ packetMap'.map[k] = packetMap.map[k]
  BY <1>3 DEF WP!Follows, WP!Fresh
<1>5. UNCHANGED <<recvVars, losses, connState, discarded, lost, written>>
  BY <1>1 DEF ReceiveAck, WP!HandleAck
<1>6. Transmit(WP!Keys(packetMap') \ WP!Keys(packetMap))
  BY SameWriter DEF ReceiveAck, TransmitAdmitted
<1> QED
  BY <1>4, <1>5, <1>6, AdmittingOrderly

\* Who gives a packet up has resent it once more than copies were lost.
LEMMA AbandonOrderly ==
    ASSUME ShortTransfer, OrderlyClose, TransferIInv, TransferIInv', Orderly,
           NEW s \in W!SeqNrs, Abandon(s)
    PROVE  Orderly'
<1>1. WP!GiveUp(s) /\ s \in WP!SeqNrs
  BY SameWriter DEF Abandon
<1>2. WP!Follows(packetMap, packetMap')
  BY <1>1, WP!GiveUpFollows, WriterAssumes DEF TransferIInv, Ends
<1>3. \A k \in WP!Keys(packetMap') :
         \/ packetMap'.map[k] = 0
         \/ k \in WP!Keys(packetMap) /\ packetMap'.map[k] = packetMap.map[k]
  BY <1>2 DEF WP!Follows, WP!Fresh
<1>4. UNCHANGED <<recvVars, losses, connState, discarded, written>>
  BY <1>1 DEF Abandon, WP!GiveUp
<1>5. Transmit(WP!Keys(packetMap') \ WP!Keys(packetMap))
  BY SameWriter DEF Abandon, TransmitAdmitted
<1>6. ASSUME MayClose = "idle", NEW d \in 1 .. NumData, RP!PacketSeq(d) \in lost'
      PROVE  RP!PacketSeq(d) \in lost \/ Held(d)
  <2>1. CASE RP!PacketSeq(d) = s
    <3>1. AccurateTimers /\ MaxLoss <= ResendTimesLimit
      BY <1>6 DEF OrderlyClose
    <3>2. d \in Packets /\ MaxLoss \in Nat /\ ResendTimesLimit \in Nat
      BY TransferTypes
    <3>3. net[d] = 0
      BY <2>1, <3>1, <3>2, SameReader DEF Abandon, TimerRunsOut
    <3>4. s \in WP!Keys(packetMap) /\ packetMap.map[s] >= ResendTimesLimit
      BY <1>1 DEF WP!GiveUp
    <3>5. packetMap.map[s] \in Nat
      BY <3>4, TransferTypes
    <3>6. /\ losses \in Nat /\ losses <= MaxLoss
          /\ Held(d) \/ packetMap.map[s] + 1 <= net[d] + losses
      BY <2>1, <3>4 DEF Orderly, CopiesAccounted
    <3>7. ~(packetMap.map[s] + 1 <= 0 + losses)
      BY <3>1, <3>2, <3>4, <3>5, <3>6
    <3> QED
      BY <3>3, <3>6, <3>7
  <2>2. CASE RP!PacketSeq(d) # s
    BY <1>1, <1>6, <2>2 DEF WP!GiveUp
  <2> QED
    BY <2>1, <2>2
<1> QED
  BY <1>3, <1>4, <1>5, <1>6, AdmittingOrderly

LEMMA RetransmitOrderly ==
    ASSUME ShortTransfer, TransferIInv, TransferIInv', Orderly, NEW s \in W!SeqNrs, Retransmit(s)
    PROVE  Orderly'
<1>1. WP!Resend(s)
  BY SameWriter DEF Retransmit
<1>2. UNCHANGED <<recvVars, losses, connState, discarded, lost, written>>
  BY <1>1 DEF Retransmit, WP!Resend
<1>3. \A d : Held(d)' <=> Held(d)
  BY <1>2, IdleReader DEF TransferIInv
<1>4. /\ net \in [Packets -> Nat] /\ FIN \in Packets /\ NumData \in Nat
      /\ \A d \in 1 .. NumData : d \in Packets /\ d # FIN
      /\ \A k \in WP!Keys(packetMap) : packetMap.map[k] \in Nat
  BY TransferTypes
<1>5. \A i \in Packets :
         net'[i] = IF i # FIN /\ RP!PacketSeq(i) = s THEN net[i] + 1 ELSE net[i]
  BY SameReader DEF Retransmit, Transmit
<1>6. /\ WP!Keys(packetMap') = WP!Keys(packetMap)
      /\ \A k \in WP!Keys(packetMap) :
            packetMap'.map[k] = IF k = s THEN packetMap.map[k] + 1 ELSE packetMap.map[k]
  BY <1>1 DEF WP!Resend, WP!BM, WP!Keys
<1>8. CopiesAccounted'
  <2>1. ASSUME NEW d \in 1 .. NumData,
               RP!PacketSeq(d) \in WP!Keys(packetMap'), ~Held(d)
        PROVE  packetMap'.map[RP!PacketSeq(d)] + 1 <= net'[d] + losses
    <3> DEFINE k == RP!PacketSeq(d)
    <3>1. net[d] \in Nat /\ losses \in Nat /\ d \in Packets /\ d # FIN
      BY <1>4 DEF Orderly, CopiesAccounted
    <3>2. /\ packetMap.map[k] + 1 <= net[d] + losses /\ packetMap.map[k] \in Nat
          /\ packetMap'.map[k] = IF k = s THEN packetMap.map[k] + 1 ELSE packetMap.map[k]
      BY <1>4, <1>6, <2>1 DEF Orderly, CopiesAccounted
    <3>3. net'[d] = IF k = s THEN net[d] + 1 ELSE net[d]
      BY <1>5, <3>1
    <3> HIDE DEF k
    <3>4. packetMap'.map[k] + 1 <= net'[d] + losses
      BY <3>1, <3>2, <3>3
    <3> QED
      BY <3>4 DEF k
  <2>2. losses' = losses /\ losses \in Nat /\ losses <= MaxLoss
    BY <1>2 DEF Orderly, CopiesAccounted
  <2> QED
    BY <1>3, <2>1, <2>2 DEF CopiesAccounted, RP!PacketSeq, RP!SeqAdd, WP!Keys
<1>9. GivenUpIsHeld'
  BY <1>2, <1>3 DEF Orderly, GivenUpIsHeld, RP!PacketSeq, RP!SeqAdd
<1>10. AllBeforeFin'
  BY <1>2, <1>3 DEF Orderly, AllBeforeFin
<1> QED
  BY <1>8, <1>9, <1>10 DEF Orderly

\* The window does not change, and the number of copies of a packet that the
\* reader lacks, lost ones included, does not fall.
LEMMA SameWindowOrderly ==
    ASSUME ShortTransfer, TransferIInv, TransferIInv', Orderly, AllBeforeFin',
           UNCHANGED <<packetMap, lost, discarded>>,
           losses' \in Nat, losses' <= MaxLoss,
           \A d \in 1 .. NumData : Held(d) => Held(d)',
           \A d \in 1 .. NumData : RP!PacketSeq(d) \in WP!Keys(packetMap) =>
              Held(d)' \/ net[d] + losses <= net'[d] + losses'
    PROVE  Orderly'
<1>1. CopiesAccounted'
  <2>1. ASSUME NEW d \in 1 .. NumData,
               RP!PacketSeq(d) \in WP!Keys(packetMap), ~Held(d)'
        PROVE  packetMap.map[RP!PacketSeq(d)] + 1 <= net'[d] + losses'
    <3> DEFINE k == RP!PacketSeq(d)
    <3>1. d \in Packets /\ net \in [Packets -> Nat] /\ packetMap.map[k] \in Nat
      BY <2>1, TransferTypes
    <3>2. net'[d] \in Nat
      <4>1. (net \in [Packets -> Nat])' /\ Packets' = Packets
        BY DEF TransferIInv, OnlySent, Packets, R!Packets
      <4> QED
        BY <3>1, <4>1
    <3>3. packetMap.map[k] + 1 <= net[d] + losses /\ losses \in Nat
      BY <2>1 DEF Orderly, CopiesAccounted
    <3>4. net[d] + losses <= net'[d] + losses' /\ net[d] \in Nat
      BY <2>1, <3>1
    <3> HIDE DEF k
    <3>5. packetMap.map[k] + 1 <= net'[d] + losses'
      BY <3>1, <3>2, <3>3, <3>4
    <3> QED
      BY <3>5 DEF k
  <2> QED
    BY <2>1 DEF CopiesAccounted, RP!PacketSeq, RP!SeqAdd, WP!Keys
<1>2. GivenUpIsHeld'
  BY DEF Orderly, GivenUpIsHeld, RP!PacketSeq, RP!SeqAdd
<1> QED
  BY <1>1, <1>2 DEF Orderly

\* With nothing left in the window, everything written is held.
LEMMA IdleMeansHeld ==
    ASSUME ShortTransfer, TransferIInv, Orderly, MayClose = "idle", written = NumData,
           WP!Keys(packetMap) = {}, packetMap.waiting = <<>>, NEW d \in 1 .. NumData
    PROVE  Held(d)
<1>1. NumData \in Nat /\ RP!PacketSeq(d) = WP!SeqOf(d - 1)
  BY OneNumbering
<1>2. WP!SentCount = NumData
  BY <1>1 DEF WP!SentCount
<1>3. d - 1 \in 0 .. NumData - 1
  BY <1>1
<1>4. WP!SeqOf(d - 1) \in WP!Nums(0, NumData)
  BY <1>3 DEF WP!Nums
<1>5. acked \cup lost \cup discarded = WP!Nums(0, NumData)
  BY <1>2 DEF TransferIInv, Ends, WP!OrderInv, WP!Placed
<1>6. RP!PacketSeq(d) \in acked \cup lost
  BY <1>1, <1>4, <1>5 DEF Orderly, GivenUpIsHeld
<1> QED
  BY <1>6 DEF TransferIInv, StruckOffIsHeld, Orderly, GivenUpIsHeld

LEMMA CloseOrderly ==
    ASSUME ShortTransfer, OrderlyClose, TransferIInv, TransferIInv', Orderly,
           CloseWriter \/ ReleaseWriter
    PROVE  Orderly'
<1>1. /\ net \in [Packets -> Nat] /\ FIN \in Packets
      /\ \A d \in 1 .. NumData : d \in Packets /\ d # FIN
  BY TransferTypes
<1>2. UNCHANGED <<recvVars, losses, packetMap, discarded, lost, written>>
  BY DEF CloseWriter, ReleaseWriter, W!Close, W!Release, netVars
<1>3. \A d : Held(d)' <=> Held(d)
  BY <1>2, IdleReader DEF TransferIInv
<1>4. net' = net \/ net' = [net EXCEPT ![FIN] = net[FIN] + 1]
  BY DEF CloseWriter, ReleaseWriter, SendsFin, netVars
<1>5. \A d \in 1 .. NumData : net'[d] = net[d]
  BY <1>1, <1>4
<1>7. AllBeforeFin'
  <2>1. written = NumData /\ \A d \in 1 .. NumData : Held(d)
    <3>1. CASE CloseWriter
      <4>1. MayClose = "idle" /\ written = NumData /\ W!Close
        BY <3>1 DEF CloseWriter, OrderlyClose
      <4>2. WP!Keys(packetMap) = {} /\ packetMap.waiting = <<>>
        BY <3>1, <4>1, SameWriter DEF CloseWriter
      <4>3. \A d \in 1 .. NumData : Held(d)
        BY <4>1, <4>2, IdleMeansHeld
      <4> QED
        BY <4>1, <4>3 DEF W!Close
    <3>2. CASE ReleaseWriter
      BY <3>2 DEF ReleaseWriter, W!Release, Orderly, AllBeforeFin
    <3> QED
      BY <3>1, <3>2
  <2> QED
    BY <1>2, <1>3, <2>1 DEF AllBeforeFin
<1>8. losses' \in Nat /\ losses' <= MaxLoss
  BY <1>2 DEF Orderly, CopiesAccounted
<1>9. \A d \in 1 .. NumData : net[d] + losses <= net'[d] + losses'
  <2>1. ASSUME NEW d \in 1 .. NumData PROVE net[d] + losses <= net'[d] + losses'
    <3>1. net[d] \in Nat /\ net'[d] = net[d] /\ losses' = losses /\ losses \in Nat
      BY <1>1, <1>2, <1>5 DEF Orderly, CopiesAccounted
    <3> QED
      BY <3>1
  <2> QED
    BY <2>1
<1> QED
  BY <1>2, <1>3, <1>7, <1>8, <1>9, SameWindowOrderly

\* What the reader drops it has, or the writer no longer resends it.
LEMMA DroppedIsHeld ==
    ASSUME ShortTransfer, TransferIInv, Phases, Orderly, NEW d \in 1 .. NumData, RP!Ignored(d),
           RP!PacketSeq(d) \in WP!Keys(packetMap)
    PROVE  Held(d)
<1>1. NumData \in Nat /\ RP!FIN = NumData + 1 /\ RP!HalfStream
  BY OneNumbering
<1>2. CASE localState = "SYN_SENT"
  <2>1. WP!SentCount <= 0 /\ WP!SentCount \in Nat
    BY <1>2, WP!BlockedAreLast, WriterAssumes DEF TransferIInv, Ends, Phases
  <2>2. WP!Keys(packetMap) \subseteq WP!Nums(0, WP!SentCount)
    BY WP!BlockedAreLast, WriterAssumes DEF TransferIInv, Ends
  <2>3. WP!Nums(0, WP!SentCount) = {}
    <3> HIDE DEF WP!SentCount
    <3> QED
      BY <2>1 DEF WP!Nums
  <2> QED
    BY <2>2, <2>3
<1>3. CASE localState = "CLOSED"
  BY <1>3 DEF Phases, Orderly, AllBeforeFin
<1>4. CASE localState = "CONNECTED"
  <2>1. RP!PacketSeq(d) = localAckNr
    BY <1>4 DEF RP!Ignored, RP!Dropped, Phases
  <2>2. /\ RP!LoopOK(RP!Loop) /\ RP!InOrder(RP!Loop)
        /\ \A j \in 1 .. Len(RP!Loop.consumed) : RP!Loop.consumed[j] # RP!FIN
    BY <1>4 DEF TransferIInv, Ends, ReaderEnd, RP!RecvIInv, RP!RecvOrder, RP!BeforeFin, RP!Loop
  <2>3. \A j \in 2 .. Len(RP!Loop.consumed) : RP!Loop.consumed[j] = RP!Loop.consumed[j - 1] + 1
    BY <2>2 DEF RP!InOrder
  <2>4. PICK n \in 0 .. NumData : Reached(RP!Loop.consumed, n) /\ RP!Loop.ackNr = RP!PacketSeq(n)
    BY <2>2, AckNrIsReached
  <2>5. RP!PacketSeq(d) = RP!PacketSeq(n)
    BY <2>1, <2>4 DEF RP!Loop
  <2>6. d = n
    BY <1>1, <2>5, RP!NotBehindIsNotEarlier, ReaderAssumes
  <2> QED
    BY <1>1, <2>2, <2>3, <2>4, <2>6, ReachedIsHad DEF Held
<1>5. CASE localState = "SYN_RECV"
  <2>1. d = RP!FIN
    BY <1>5, SameReader DEF RP!Ignored
  <2> QED
    BY <1>1, <2>1
<1> QED
  BY <1>2, <1>3, <1>4, <1>5 DEF Phases

\* The network and the keep-alive timer, once more.
LEMMA QuietOrderly ==
    ASSUME ShortTransfer, TransferIInv, TransferIInv', Phases, Orderly,
           \/ \E i \in Packets : ReceiveIgnored(i)
           \/ KeepAlive
           \/ \E ack \in acks : AckTooLate(ack)
           \/ \E i \in Packets : LosePacket(i)
           \/ \E ack \in acks : LoseAck(ack)
           \/ UNCHANGED transferVars
    PROVE  Orderly'
<1>1. /\ net \in [Packets -> Nat] /\ FIN \in Packets /\ MaxLoss \in Nat
      /\ \A d \in 1 .. NumData : d \in Packets /\ d # FIN
  BY TransferTypes
<1>2. UNCHANGED <<sendVars, recvVars>>
  BY DEF ReceiveIgnored, KeepAlive, AckTooLate, LosePacket, LoseAck, transferVars
<1>3. \A d : Held(d)' <=> Held(d)
  BY <1>2, IdleReader DEF TransferIInv
<1>5. losses \in Nat /\ losses <= MaxLoss /\ OnlySent
  BY DEF Orderly, CopiesAccounted, TransferIInv
<1>6. /\ losses' \in Nat /\ losses' <= MaxLoss
      /\ \A d \in 1 .. NumData : RP!PacketSeq(d) \in WP!Keys(packetMap) =>
            Held(d)' \/ net[d] + losses <= net'[d] + losses'
  <2>1. CASE \E i \in Packets : ReceiveIgnored(i)
    <3>1. PICK i \in Packets : ReceiveIgnored(i)
      BY <2>1
    <3>2. TakeFromNet(i) /\ RP!Ignored(i)
      BY <3>1, SameReader DEF ReceiveIgnored
    <3>3. /\ \A j \in Packets : j # i => net'[j] = net[j]
          /\ losses' = losses
      BY <1>5, <3>2, TakingIs
    <3>4. ASSUME NEW d \in 1 .. NumData, RP!PacketSeq(d) \in WP!Keys(packetMap), ~Held(d)'
          PROVE  net[d] + losses <= net'[d] + losses'
      <4>1. d # i
        BY <1>3, <3>2, <3>4, DroppedIsHeld
      <4>2. net'[d] = net[d] /\ net[d] \in Nat
        BY <1>1, <3>3, <4>1
      <4> QED
        BY <1>5, <3>3, <4>2
    <3> QED
      BY <1>5, <3>3, <3>4
  <2>2. CASE \E i \in Packets : LosePacket(i)
    <3>1. PICK i \in Packets : LosePacket(i)
      BY <2>2
    <3>2. /\ net[i] > 0 /\ losses < MaxLoss /\ losses' = losses + 1
          /\ net' = [net EXCEPT ![i] = net[i] - 1]
      BY <3>1 DEF LosePacket
    <3>3. \A j \in Packets : net[j] \in Nat /\ net[j] <= net'[j] + 1 /\ net'[j] \in Int
      BY <1>1, <3>2
    <3>4. ASSUME NEW d \in 1 .. NumData PROVE net[d] + losses <= net'[d] + losses'
      <4>1. net[d] <= net'[d] + 1 /\ net[d] \in Nat /\ net'[d] \in Int
        BY <1>1, <3>3
      <4> QED
        BY <1>5, <3>2, <4>1
    <3> QED
      BY <1>1, <1>5, <3>2, <3>3, <3>4
  <2>3. CASE \/ KeepAlive \/ UNCHANGED transferVars
             \/ \E ack \in acks : AckTooLate(ack) \/ LoseAck(ack)
    <3>1. net' = net /\ losses' \in Nat /\ losses' <= MaxLoss /\ losses <= losses'
      BY <1>1, <1>5, <2>3 DEF KeepAlive, AckTooLate, LoseAck, transferVars, netVars
    <3>2. ASSUME NEW d \in 1 .. NumData PROVE net[d] + losses <= net'[d] + losses'
      <4>1. net[d] \in Nat
        BY <1>1
      <4> QED
        BY <1>5, <3>1, <4>1
    <3> QED
      BY <1>1, <3>1, <3>2
  <2> QED
    BY <2>1, <2>2, <2>3
<1>7. AllBeforeFin'
  BY <1>2, <1>3 DEF Orderly, AllBeforeFin, sendVars
<1>8. UNCHANGED <<packetMap, lost, discarded>>
  BY <1>2 DEF sendVars
<1> QED
  BY <1>3, <1>6, <1>7, <1>8, SameWindowOrderly

\* The reader acts, once more.
LEMMA HandlingOrderly ==
    ASSUME ShortTransfer, TransferIInv, TransferIInv', Orderly, NEW i \in Packets, TakeFromNet(i),
           UNCHANGED sendVars,
           \A d \in 1 .. NumData : Held(d) => Held(d)',
           i # FIN => Held(i)'
    PROVE  Orderly'
<1>1. net \in [Packets -> Nat] /\ \A d \in 1 .. NumData : d \in Packets /\ d # FIN
  BY TransferTypes
<1>2. /\ \A j \in Packets : j # i => net'[j] = net[j]
      /\ losses' = losses
  BY TakingIs DEF TransferIInv
<1>3. UNCHANGED <<packetMap, lost, discarded, written, connState>>
  BY DEF sendVars
<1>4. AllBeforeFin'
  BY <1>3 DEF Orderly, AllBeforeFin
<1>5. losses \in Nat /\ losses <= MaxLoss
  BY DEF Orderly, CopiesAccounted
<1>6. ASSUME NEW d \in 1 .. NumData
      PROVE  Held(d)' \/ net[d] + losses <= net'[d] + losses'
  <2>1. CASE d = i
    BY <1>1, <2>1
  <2>2. CASE d # i
    <3>1. net'[d] = net[d] /\ net[d] \in Nat
      BY <1>1, <1>2, <2>2
    <3> QED
      BY <1>2, <1>5, <3>1
  <2> QED
    BY <2>1, <2>2
<1> QED
  BY <1>2, <1>3, <1>4, <1>5, <1>6, SameWindowOrderly

LEMMA ReadingOrderly ==
    ASSUME ShortTransfer, TransferIInv, TransferIInv', Orderly,
           \/ SynAck
           \/ \E i \in Packets : ReceiveFirst(i)
           \/ \E i \in Packets : ReceiveData(i)
           \/ ReceiveFin
    PROVE  Orderly'
<1>1. /\ Packets = RP!Packets /\ FIN = RP!FIN /\ FIN \in Packets
      /\ \A d \in 1 .. NumData : d \in RP!Packets
  BY OneNumbering
<1>2. CASE \E i \in Packets : ReceiveFirst(i)
  <2>1. PICK i \in Packets : ReceiveFirst(i)
    BY <1>2
  <2>2. TakeFromNet(i) /\ RP!HandleAtSynReceived(i) /\ UNCHANGED sendVars
    BY <2>1, SameReader DEF ReceiveFirst
  <2>3. /\ localState = "SYN_RECV"
        /\ consumed' = Append(consumed, i) /\ recvPacketQueue' = recvPacketQueue
    BY <2>2 DEF RP!HandleAtSynReceived
  <2>4. consumed = <<>> /\ RP!QKeys(recvPacketQueue) = {}
    BY <2>3 DEF TransferIInv, Ends, ReaderEnd, RP!RecvIInv, RP!NothingYet
  <2>5. consumed' = <<i>> /\ Len(consumed') = 1 /\ consumed'[1] = i
    BY <2>3, <2>4
  <2>6. (\A d : ~Held(d)) /\ Held(i)'
    BY <2>4, <2>5, HeldIs
  <2> QED
    BY <2>2, <2>6, HandlingOrderly
<1>3. CASE \/ \E i \in Packets : ReceiveData(i)
           \/ ReceiveFin
  <2>1. PICK i \in Packets : ReceiveData(i) \/ (i = FIN /\ ReceiveFin)
    BY <1>1, <1>3
  <2>2. /\ TakeFromNet(i) /\ UNCHANGED sendVars
        /\ RP!HandleData(i) \/ (i = RP!FIN /\ RP!HandleFin(TRUE))
    BY <1>1, <2>1, SameReader DEF ReceiveData, ReceiveFin
  <2>3. /\ localState = "CONNECTED"
        /\ localAckNr' = RP!AfterQueueing(i).ackNr
        /\ recvPacketQueue' = RP!AfterQueueing(i).queue
        /\ consumed' = RP!AfterQueueing(i).consumed
    BY <2>2 DEF RP!HandleData, RP!HandleFin
  <2>4. (\A d \in RP!Packets : Held(d) => Held(d)') /\ Held(i)'
    BY <1>1, <2>3, HandlingHolds DEF TransferIInv
  <2> QED
    BY <1>1, <2>2, <2>4, HandlingOrderly
<1>4. CASE SynAck
  <2>1. RP!HandleAtSynSent /\ UNCHANGED <<sendVars, netVars>>
    BY <1>4, SameReader DEF SynAck
  <2>2. \A d : Held(d)' <=> Held(d)
    BY <2>1, HeldIs DEF RP!HandleAtSynSent
  <2>3. UNCHANGED <<packetMap, lost, discarded, written, connState, net, losses>>
    BY <2>1 DEF sendVars, netVars
  <2>4. AllBeforeFin'
    BY <2>2, <2>3 DEF Orderly, AllBeforeFin
  <2>5. losses' \in Nat /\ losses' <= MaxLoss
    BY <2>3 DEF Orderly, CopiesAccounted
  <2>6. ASSUME NEW d \in 1 .. NumData PROVE net[d] + losses <= net'[d] + losses'
    <3>1. net[d] \in Nat /\ losses \in Nat
      BY TransferTypes DEF Orderly, CopiesAccounted
    <3> QED
      BY <2>3, <3>1
  <2> QED
    BY <2>2, <2>3, <2>4, <2>5, <2>6, SameWindowOrderly
<1> QED
  BY <1>2, <1>3, <1>4

\* The phases are passed through whatever the close is like.
LEMMA PhasesPass ==
    ASSUME ShortTransfer, TransferIInv, TransferIInv', Phases, [TransferNext]_transferVars
    PROVE  Phases'
<1>1. net \in [Packets -> Nat] /\ FIN \in Packets /\ FIN' = FIN
  BY TransferTypes DEF FIN, R!FIN
<1>2. /\ \A S : Transmit(S) => net'[FIN] = net[FIN]
      /\ \A i \in Packets : TakeFromNet(i) => net[i] > 0 /\ (net'[FIN] > 0 => net[FIN] > 0)
  <2>1. ASSUME NEW i \in Packets, TakeFromNet(i)
        PROVE  net[i] > 0 /\ (net'[FIN] > 0 => net[FIN] > 0)
    <3>1. net[i] > 0 /\ net'[FIN] <= net[FIN] /\ net[FIN] \in Nat /\ net'[FIN] \in Nat
      BY <1>1, <2>1, TakingIs DEF TransferIInv
    <3> QED
      BY <3>1
  <2>2. ASSUME NEW S, Transmit(S) PROVE net'[FIN] = net[FIN]
    BY <1>1, <2>2 DEF Transmit
  <2> QED
    BY <2>1, <2>2
<1>3. CASE \/ Write
           \/ \E s \in W!SeqNrs : Retransmit(s) \/ Abandon(s)
           \/ \E ack \in acks : ReceiveAck(ack)
  <2>1. /\ UNCHANGED <<recvVars, connState>>
        /\ written' = written \/ localState # "SYN_SENT"
    BY <1>3 DEF Write, Retransmit, Abandon, ReceiveAck, W!WaitForAck, W!Resend, W!GiveUp, W!HandleAck
  <2>2. \E S : Transmit(S)
    BY <1>3 DEF Write, Retransmit, Abandon, ReceiveAck, TransmitAdmitted
  <2>3. net'[FIN] = net[FIN]
    BY <1>2, <2>2
  <2> QED
    BY <1>1, <2>1, <2>3 DEF Phases, recvVars, RP!NoPacket
<1>4. CASE CloseWriter \/ ReleaseWriter
  <2>1. /\ UNCHANGED <<recvVars, written>>
        /\ connState' # "CONNECTED"
    BY <1>4 DEF CloseWriter, ReleaseWriter, W!Close, W!Release
  <2> QED
    BY <2>1 DEF Phases, recvVars, RP!NoPacket
<1>5. CASE SynAck
  <2>1. RP!HandleAtSynSent /\ UNCHANGED <<net, connState, written>>
    BY <1>5, SameReader DEF SynAck, sendVars, netVars
  <2> QED
    BY <1>1, <2>1 DEF RP!HandleAtSynSent, Phases, RP!NoPacket
<1>6. CASE \E i \in Packets : ReceiveFirst(i) \/ ReceiveData(i)
  <2>1. PICK i \in Packets : ReceiveFirst(i) \/ ReceiveData(i)
    BY <1>6
  <2>2. /\ TakeFromNet(i) /\ UNCHANGED <<connState, written>>
        /\ RP!HandleAtSynReceived(i) \/ RP!HandleData(i)
    BY <2>1, SameReader DEF ReceiveFirst, ReceiveData, sendVars
  <2>3. /\ localState \in {"SYN_RECV", "CONNECTED"} /\ localState' = "CONNECTED"
        /\ UNCHANGED <<closedForWriting, remoteFinPacket>>
    BY <2>2 DEF RP!HandleAtSynReceived, RP!HandleData
  <2>4. net'[FIN] > 0 => net[FIN] > 0
    BY <1>2, <2>2
  <2> QED
    BY <1>1, <2>2, <2>3, <2>4 DEF Phases, RP!NoPacket
<1>7. CASE ReceiveFin
  <2>1. RP!HandleFin(TRUE) /\ TakeFromNet(FIN) /\ UNCHANGED <<connState, written>>
    BY <1>7, SameReader DEF ReceiveFin, sendVars
  <2>2. localState' = "CLOSED" /\ closedForWriting' = TRUE
    BY <2>1 DEF RP!HandleFin
  <2>3. net[FIN] > 0
    BY <1>1, <1>2, <2>1
  <2> QED
    BY <2>1, <2>2, <2>3 DEF Phases, RP!NoPacket
<1>8. CASE \/ \E i \in Packets : ReceiveIgnored(i) \/ LosePacket(i)
           \/ \E ack \in acks : AckTooLate(ack) \/ LoseAck(ack)
           \/ KeepAlive \/ UNCHANGED transferVars
  <2>1. UNCHANGED <<sendVars, recvVars>>
    BY <1>8 DEF ReceiveIgnored, LosePacket, AckTooLate, LoseAck, KeepAlive, transferVars
  <2>2. net'[FIN] > 0 => net[FIN] > 0
    <3>1. CASE \E i \in Packets : ReceiveIgnored(i)
      BY <1>2, <3>1 DEF ReceiveIgnored
    <3>2. CASE \E i \in Packets : LosePacket(i)
      BY <1>1, <3>2 DEF LosePacket
    <3>3. CASE net' = net
      BY <1>1, <3>3
    <3> QED
      BY <1>8, <3>1, <3>2, <3>3 DEF AckTooLate, LoseAck, KeepAlive, transferVars, netVars
  <2> QED
    BY <1>1, <2>1, <2>2 DEF Phases, sendVars, recvVars, RP!NoPacket
<1> QED
  BY <1>3, <1>4, <1>5, <1>6, <1>7, <1>8 DEF TransferNext

LEMMA TransferNextOrderly ==
    ASSUME ShortTransfer, OrderlyClose, TransferIInv, Phases, Orderly, [TransferNext]_transferVars
    PROVE  Orderly'
<1>1. TransferIInv'
  BY TransferNextPreserves
<1> QED
  BY <1>1, WriteOrderly, RetransmitOrderly, AbandonOrderly, CloseOrderly,
     ReadingOrderly, QuietOrderly, AckOrderly DEF TransferNext

LEMMA TransferInitOrderly ==
    ASSUME ShortTransfer, TransferInit
    PROVE  Phases /\ Orderly
<1>1. WP!Init /\ RP!RecvInit /\ net = [i \in Packets |-> 0] /\ losses = 0
  BY SameWriter, SameReader DEF TransferInit
<1>2. /\ localState \in {"SYN_SENT", "SYN_RECV"}
      /\ closedForWriting = FALSE /\ remoteFinPacket = RP!NoPacket
  BY <1>1 DEF RP!RecvInit
<1>3. /\ connState = "CONNECTED" /\ written = 0 /\ lost = {} /\ discarded = {}
      /\ WP!Keys(packetMap) = {}
  BY <1>1 DEF WP!Init, WP!EmptyBlockingMap, WP!EmptyMap, WP!BM, WP!Keys
<1>4. net[FIN] = 0 /\ MaxLoss \in Nat
  <2>1. FIN \in Packets
    BY OneNumbering
  <2> QED
    BY <1>1, <2>1, TransferAssumption
<1> QED
  BY <1>1, <1>2, <1>3, <1>4 DEF Phases, Orderly, CopiesAccounted, GivenUpIsHeld, AllBeforeFin

\* The phases hold at any close.
StreamIInv == TransferIInv /\ Phases /\ (OrderlyClose => Orderly)

\* Whatever close() is like, the reader is told of the end only by the FIN of a
\* writer that has closed; when the writer closes with an idle window and accurate
\* timers, the reader by then has everything.

THEOREM StreamInvariance ==
    ASSUME ShortTransfer
    PROVE  TransferSpec => []StreamIInv
<1>1. TransferInit => StreamIInv
  BY TransferInitEstablishes, TransferInitOrderly DEF StreamIInv
<1>2. StreamIInv /\ [TransferNext]_transferVars => StreamIInv'
  <2> SUFFICES ASSUME StreamIInv, [TransferNext]_transferVars PROVE StreamIInv'
    OBVIOUS
  <2>1. TransferIInv' /\ Phases'
    BY TransferNextPreserves, PhasesPass DEF StreamIInv
  <2>2. OrderlyClose' => Orderly'
    BY TransferNextOrderly DEF StreamIInv, OrderlyClose
  <2> QED
    BY <2>1, <2>2 DEF StreamIInv
<1> QED
  BY <1>1, <1>2, PTL DEF TransferSpec

\* What ByteStream sees of the packets consumed: where they start, how many of
\* them are data, and these.
StartOf(c) == IF c = <<>> THEN 1 ELSE c[1]
DataIn(c) == IF c # <<>> /\ c[Len(c)] = FIN THEN Len(c) - 1 ELSE Len(c)
Delivered(c) == [j \in {j \in 1 .. Len(c) : c[j] # FIN} |-> c[j]]

\* What is delivered is a stretch of the data.
LEMMA DeliveredIs ==
    ASSUME ShortTransfer, NEW c \in Seq(RP!Packets),
           \A j \in 2 .. Len(c) : c[j] = c[j - 1] + 1
    PROVE  /\ Len(c) \in Nat /\ DataIn(c) \in Nat /\ DataIn(c) <= Len(c)
           /\ StartOf(c) \in Nat \ {0}
           /\ \A j \in 1 .. DataIn(c) : c[j] = StartOf(c) + (j - 1) /\ c[j] \in 1 .. NumData
           /\ Delivered(c) = Stream!Stretch(StartOf(c), StartOf(c) + DataIn(c) - 1)
           /\ Len(Delivered(c)) = DataIn(c)
           /\ DataIn(c) > 0 => Delivered(c)[1] = StartOf(c)
           /\ DataIn(c) < Len(c) => c[Len(c)] = RP!FIN /\ Len(c) = DataIn(c) + 1
           /\ NumData <= RP!LastIn(c) => StartOf(c) + DataIn(c) - 1 = NumData
<1> DEFINE m == Len(c)
           n == DataIn(c)
           a == StartOf(c)
<1>1. NumData \in Nat /\ RP!FIN = NumData + 1 /\ FIN = RP!FIN
  BY OneNumbering
<1>2. /\ m \in Nat
      /\ \A j \in 1 .. m : c[j] = c[1] + (j - 1) /\ c[j] \in 1 .. NumData + 1
      /\ c # <<>> => /\ c[1] \in 1 .. NumData + 1 /\ m \in Nat \ {0}
                     /\ RP!LastIn(c) = c[1] + (m - 1)
      /\ c = <<>> => m = 0 /\ RP!LastIn(c) = 0
  BY RP!ConsumedStretch, ReaderAssumes DEF RP!LastIn
<1>3. /\ a \in Nat \ {0} /\ (c # <<>> => a = c[1]) /\ (c = <<>> => a = 1)
      /\ n = (IF c # <<>> /\ c[m] = FIN THEN m - 1 ELSE m)
  BY <1>1, <1>2 DEF StartOf, DataIn
<1>4. /\ n \in Nat /\ n <= m
      /\ n < m => c # <<>> /\ c[m] = FIN /\ n = m - 1
      /\ \A j \in 1 .. m : c[j] = a + (j - 1) /\ c[j] \in 1 .. NumData + 1
      /\ c # <<>> => m \in 1 .. m
  BY <1>2, <1>3
<1> HIDE DEF m, n, a
<1>5. \A j \in 1 .. m : c[j] # FIN <=> j <= n
  <2>1. SUFFICES ASSUME NEW j \in 1 .. m PROVE c[j] # FIN <=> j <= n
    OBVIOUS
  <2>2. /\ c[j] = a + (j - 1) /\ c[j] <= NumData + 1 /\ j \in Nat /\ j <= m
        /\ c[m] = a + (m - 1) /\ c[m] <= NumData + 1
    BY <1>2, <1>4
  <2>3. c # <<>>
    BY <1>2, <2>1
  <2> QED
    BY <1>1, <1>2, <1>3, <1>4, <2>2, <2>3
<1>6. {j \in 1 .. m : c[j] # FIN} = 1 .. n
  BY <1>2, <1>4, <1>5
<1>7. \A j \in 1 .. n : c[j] = a + (j - 1) /\ c[j] \in 1 .. NumData
  <2>1. ASSUME NEW j \in 1 .. n PROVE c[j] = a + (j - 1) /\ c[j] \in 1 .. NumData
    <3>1. j \in 1 .. m /\ c[j] # FIN
      BY <1>2, <1>4, <1>5
    <3> QED
      BY <1>1, <1>4, <3>1
  <2> QED
    BY <2>1
<1>8. Delivered(c) = [j \in 1 .. n |-> c[j]]
  BY <1>6 DEF Delivered, m
<1>9. Delivered(c) = Stream!Stretch(a, a + n - 1)
  <2>1. (a + n - 1) - a + 1 = n
    BY <1>3, <1>4
  <2>2. Stream!Stretch(a, a + n - 1) = [i \in 1 .. n |-> a + i - 1]
    BY <2>1 DEF Stream!Stretch
  <2>3. \A i \in 1 .. n : c[i] = a + i - 1
    BY <1>3, <1>4, <1>7
  <2> QED
    BY <1>8, <2>2, <2>3
<1>10. Len(Delivered(c)) = n /\ (n > 0 => Delivered(c)[1] = a)
  <2>1. Len(Delivered(c)) = n
    BY <1>4, <1>8
  <2>2. n > 0 => 1 \in 1 .. n /\ c[1] = a
    BY <1>3, <1>4, <1>7
  <2> QED
    BY <1>8, <2>1, <2>2
<1>11. NumData <= RP!LastIn(c) => a + n - 1 = NumData
  <2>1. CASE c = <<>>
    BY <1>1, <1>2, <1>3, <1>4, <2>1
  <2>2. CASE c # <<>>
    <3>1. RP!LastIn(c) = a + (m - 1) /\ c[m] = a + (m - 1) /\ c[m] \in 1 .. NumData + 1 /\ m \in Nat
      BY <1>2, <1>3, <1>4, <2>2
    <3> QED
      BY <1>1, <1>3, <1>4, <2>2, <3>1
  <2> QED
    BY <2>1, <2>2
<1> QED
  BY <1>1, <1>2, <1>3, <1>4, <1>7, <1>9, <1>10, <1>11 DEF m, n, a

\* What ByteStream sees, before and after a step.
LEMMA SeenByTheStream ==
    ASSUME ShortTransfer, TransferIInv, TransferIInv'
    PROVE  /\ consumed \in Seq(RP!Packets) /\ consumed' \in Seq(RP!Packets)
           /\ \A j \in 2 .. Len(consumed) : consumed[j] = consumed[j - 1] + 1
           /\ \A j \in 2 .. Len(consumed') : consumed'[j] = consumed'[j - 1] + 1
           /\ isInitiator => StartOf(consumed) = 1
           /\ isInitiator' => StartOf(consumed') = 1
           /\ written' \in Nat
           /\ \A d \in 1 .. NumData : net[d] > 0 => d <= written
           /\ \A d \in 1 .. NumData : Held(d)' => d <= written'
<1>1. /\ consumed \in Seq(RP!Packets)
      /\ \A j \in 2 .. Len(consumed) : consumed[j] = consumed[j - 1] + 1
      /\ isInitiator => StartOf(consumed) = 1
  BY DEF TransferIInv, Ends, ReaderEnd, RP!RecvIInv, RP!RecvTypeOK, RP!RecvOrder, RP!ConsumedInOrder,
         StartOf
<1>2. /\ consumed' \in Seq(RP!Packets)
      /\ \A j \in 2 .. Len(consumed') : consumed'[j] = consumed'[j - 1] + 1
      /\ isInitiator' => StartOf(consumed') = 1
  BY DEF TransferIInv, Ends, ReaderEnd, RP!RecvIInv, RP!RecvTypeOK, RP!RecvOrder, RP!ConsumedInOrder,
         StartOf, RP!Packets
<1>3. ASSUME NEW d \in 1 .. NumData, Held(d)' PROVE d <= written'
  <2>1. /\ written' \in Nat /\ Len(packetMap'.waiting) \in Nat
        /\ WP!SentCount' = written' - Len(packetMap'.waiting)
    BY DEF TransferIInv, Ends, WP!IInv, WP!TypeOK, WP!IsPacketMap, WP!SentCount
  <2>2. d <= WP!SentCount' /\ d \in Nat
    BY <1>3, OneNumbering DEF TransferIInv, OnlySent
  <2> QED
    BY <2>1, <2>2
<1>4. ASSUME NEW d \in 1 .. NumData, net[d] > 0 PROVE d <= written
  <2>1. /\ written \in Nat /\ Len(packetMap.waiting) \in Nat
        /\ WP!SentCount = written - Len(packetMap.waiting)
    BY DEF TransferIInv, Ends, WP!IInv, WP!TypeOK, WP!IsPacketMap, WP!SentCount
  <2>2. d <= WP!SentCount /\ d \in Nat
    BY <1>4, OneNumbering DEF TransferIInv, OnlySent
  <2> QED
    BY <2>1, <2>2
<1>5. written' \in Nat
  BY DEF TransferIInv, Ends, WP!IInv, WP!TypeOK
<1> QED
  BY <1>1, <1>2, <1>3, <1>4, <1>5

\* The steps that neither application notices.
LEMMA UnseenSteps ==
    ASSUME UNCHANGED <<isInitiator, written, consumed, closedForWriting>>,
           (connState' # "CONNECTED") <=> (connState # "CONNECTED")
    PROVE  UNCHANGED Stream!streamVars
<1>1. (connState' # "CONNECTED") = (connState # "CONNECTED")
  OBVIOUS
<1> QED
  BY <1>1 DEF Stream!streamVars

\* What a packet adds to those consumed continues the stretch delivered before.
LEMMA StretchGrows ==
    ASSUME ShortTransfer, TransferIInv, TransferIInv', localState = "CONNECTED",
           isInitiator' = isInitiator, written' = written, NEW i \in RP!Packets,
           localAckNr' = RP!AfterQueueing(i).ackNr,
           recvPacketQueue' = RP!AfterQueueing(i).queue,
           consumed' = RP!AfterQueueing(i).consumed,
           NEW first, first = StartOf(consumed'),
           NEW last, last = first + DataIn(consumed') - 1
    PROVE  /\ first \in Stream!Starts
           /\ first \in Nat /\ last \in Int /\ Len(Delivered(consumed)) \in Nat
           /\ last \in first + Len(Delivered(consumed)) - 1 .. written
           /\ Delivered(consumed') = Stream!Stretch(first, last)
           /\ last = first + Len(Delivered(consumed)) - 1 => Delivered(consumed') = Delivered(consumed)
<1> DEFINE m == DataIn(consumed)
           n == DataIn(consumed')
<1>1. /\ Len(consumed) \in Nat /\ Len(consumed') \in Nat /\ Len(consumed) <= Len(consumed')
      /\ \A j \in 1 .. Len(consumed) : consumed'[j] = consumed[j]
      /\ consumed # <<>> => consumed' # <<>> /\ consumed'[1] = consumed[1]
  BY HandlingHolds DEF TransferIInv
<1>2. /\ consumed \in Seq(RP!Packets) /\ consumed' \in Seq(RP!Packets)
      /\ \A j \in 2 .. Len(consumed) : consumed[j] = consumed[j - 1] + 1
      /\ \A j \in 2 .. Len(consumed') : consumed'[j] = consumed'[j - 1] + 1
      /\ isInitiator' => StartOf(consumed') = 1
      /\ written \in Nat
      /\ \A d \in 1 .. NumData : Held(d)' => d <= written
  BY SeenByTheStream
<1>3. /\ m \in Nat /\ m <= Len(consumed) /\ (m < Len(consumed) => consumed[Len(consumed)] = RP!FIN)
      /\ Len(Delivered(consumed)) = m
      /\ Delivered(consumed) = Stream!Stretch(StartOf(consumed), StartOf(consumed) + m - 1)
      /\ m > 0 => Delivered(consumed)[1] = StartOf(consumed)
  BY <1>2, DeliveredIs
<1>4. /\ n \in Nat /\ (n < Len(consumed') => Len(consumed') = n + 1)
      /\ n < Len(consumed') => consumed'[Len(consumed')] = RP!FIN
      /\ first \in Nat \ {0} /\ n <= Len(consumed')
      /\ \A j \in 1 .. n : consumed'[j] = first + (j - 1) /\ consumed'[j] \in 1 .. NumData
      /\ Delivered(consumed') = Stream!Stretch(first, last)
  BY <1>2, DeliveredIs
<1>5. \A j \in 1 .. Len(consumed) : consumed[j] # RP!FIN
  BY DEF TransferIInv, Ends, ReaderEnd, RP!BeforeFin
<1>6. m = Len(consumed)
  <2>1. CASE m < Len(consumed)
    <3>1. Len(consumed) \in 1 .. Len(consumed)
      BY <1>1, <1>3, <2>1
    <3> QED
      BY <1>3, <1>5, <2>1, <3>1
  <2> QED
    BY <1>1, <1>3, <2>1
<1>7. m <= n
  <2>1. CASE n < m
    <3>1. Len(consumed') = m /\ m \in 1 .. Len(consumed) /\ consumed'[m] = RP!FIN
      BY <1>1, <1>4, <1>6, <2>1
    <3> QED
      BY <1>1, <1>5, <3>1
  <2> QED
    BY <1>3, <1>4, <2>1
<1>8. consumed = <<>> => m = 0 /\ isInitiator /\ first = 1
  <2>1. consumed = <<>> => isInitiator
    BY DEF TransferIInv, Ends, ReaderEnd, StartKnown
  <2> QED
    BY <1>2, <1>6, <2>1
<1>9. consumed # <<>> => m > 0 /\ StartOf(consumed) = first
  <2>1. consumed # <<>> => Len(consumed) > 0
    BY <1>2
  <2>2. consumed # <<>> => StartOf(consumed) = consumed[1] /\ first = consumed[1]
    BY <1>1 DEF StartOf
  <2> QED
    BY <1>6, <2>1, <2>2
<1>10. last <= written
  <2>1. CASE n = 0
    <3>1. consumed = <<>>
      BY <1>3, <1>7, <1>9, <2>1
    <3> QED
      BY <1>2, <1>8, <2>1, <3>1
  <2>2. CASE n # 0
    <3>1. n \in 1 .. n /\ n \in 1 .. Len(consumed')
      BY <1>1, <1>4, <2>2
    <3>2. consumed'[n] = first + (n - 1) /\ consumed'[n] \in 1 .. NumData
      BY <1>4, <3>1
    <3> HIDE DEF n
    <3>3. PICK d \in 1 .. NumData : d = consumed'[n]
      BY <3>2
    <3>4. Held(d)'
      BY <3>1, <3>3, HeldIs
    <3>5. first + (n - 1) <= written
      BY <1>2, <3>2, <3>3, <3>4
    <3> QED
      BY <1>4, <3>5 DEF n
  <2> QED
    BY <2>1, <2>2
<1> HIDE DEF m, n
<1>11. last = first + n - 1
  BY DEF n
<1>12. last \in Int /\ last \in first + m - 1 .. written
  BY <1>2, <1>3, <1>4, <1>7, <1>10, <1>11
<1>13. first \in Stream!Starts
  <2>1. CASE consumed = <<>>
    <3>1. Delivered(consumed) = <<>> /\ isInitiator /\ first = 1
      <4>1. Delivered(consumed) = Stream!Stretch(StartOf(consumed), StartOf(consumed) + 0 - 1)
        BY <1>3, <1>8, <2>1
      <4>2. StartOf(consumed) = 1
        BY <2>1 DEF StartOf
      <4> QED
        BY <1>8, <2>1, <4>1, <4>2 DEF Stream!Stretch
    <3> QED
      BY <3>1 DEF Stream!Starts, Delivered
  <2>2. CASE consumed # <<>>
    <3>1. Delivered(consumed) # <<>> /\ Delivered(consumed)[1] = first
      BY <1>3, <1>9, <2>2
    <3> QED
      BY <3>1 DEF Stream!Starts, Delivered
  <2> QED
    BY <2>1, <2>2
<1>14. last = first + m - 1 => Delivered(consumed') = Delivered(consumed)
  <2>1. StartOf(consumed) = first
    BY <1>8, <1>9 DEF StartOf
  <2> QED
    BY <1>3, <1>4, <2>1
<1> QED
  BY <1>3, <1>4, <1>12, <1>13, <1>14

\* handleAtConnected with a DATA packet: nothing is noticed, or the chunks that
\* come next are delivered.
LEMMA DataIsDelivered ==
    ASSUME ShortTransfer, TransferIInv, TransferIInv', Phases,
           NEW i \in Packets, ReceiveData(i)
    PROVE  [Stream!StreamNext]_(Stream!streamVars)
<1>1. RP!HandleData(i) /\ UNCHANGED sendVars /\ i \in RP!Packets
  BY SameReader DEF ReceiveData, Packets
<1>2. /\ localState = "CONNECTED"
      /\ UNCHANGED <<closedForWriting, isInitiator, written, connState>>
      /\ localAckNr' = RP!AfterQueueing(i).ackNr
      /\ recvPacketQueue' = RP!AfterQueueing(i).queue
      /\ consumed' = RP!AfterQueueing(i).consumed
  BY <1>1 DEF RP!HandleData, sendVars
<1>3. ~closedForWriting
  BY <1>2 DEF Phases
<1> DEFINE first == StartOf(consumed')
           last == first + DataIn(consumed') - 1
           m == Len(Delivered(consumed))
<1>4. /\ first \in Stream!Starts
      /\ first \in Nat /\ last \in Int /\ m \in Nat
      /\ last \in first + m - 1 .. written
      /\ Delivered(consumed') = Stream!Stretch(first, last)
      /\ last = first + m - 1 => Delivered(consumed') = Delivered(consumed)
  BY <1>1, <1>2, StretchGrows
<1> HIDE DEF first, last, m
<1>5. CASE last = first + m - 1
  <2>1. Delivered(consumed') = Delivered(consumed)
    BY <1>4, <1>5
  <2> QED
    BY <1>2, <2>1 DEF Stream!streamVars, Delivered, FIN, R!FIN
<1>6. CASE last # first + m - 1
  <2>1. last \in first + m .. written
    BY <1>4, <1>6
  <2>2. Stream!StreamDeliver
    BY <1>2, <1>3, <1>4, <2>1 DEF Stream!StreamDeliver, Delivered, m, FIN, R!FIN
  <2> QED
    BY <2>2 DEF Stream!StreamNext
<1> QED
  BY <1>5, <1>6

\* The first packet of a responder.
LEMMA FirstIsDelivered ==
    ASSUME ShortTransfer, TransferIInv, TransferIInv', Phases,
           NEW i \in Packets, ReceiveFirst(i)
    PROVE  Stream!StreamDeliver
<1>1. RP!HandleAtSynReceived(i) /\ UNCHANGED sendVars /\ net[i] > 0
  BY SameReader DEF ReceiveFirst, TakeFromNet
<1>2. /\ localState = "SYN_RECV" /\ i # RP!FIN /\ consumed' = Append(consumed, i)
      /\ UNCHANGED <<closedForWriting, isInitiator, written, connState>>
  BY <1>1 DEF RP!HandleAtSynReceived, sendVars
<1>3. ~closedForWriting
  BY <1>2 DEF Phases
<1>4. consumed = <<>> /\ ~isInitiator
  BY <1>2 DEF TransferIInv, Ends, ReaderEnd, RP!RecvIInv, RP!RecvOrder, RP!NothingYet
<1>5. i \in 1 .. NumData /\ FIN = RP!FIN /\ NumData \in Nat
  <2>1. Packets = 1 .. NumData + 1 /\ RP!FIN = NumData + 1 /\ NumData \in Nat /\ FIN = RP!FIN
    BY OneNumbering
  <2> QED
    BY <1>2, <2>1
<1>6. i <= written /\ written \in Nat /\ i \in Nat
  BY <1>1, <1>2, <1>5, SeenByTheStream
<1>7. consumed' = <<i>>
  BY <1>2, <1>4
<1>8. Delivered(<<>>) = <<>> /\ Delivered(<<i>>) = Stream!Stretch(i, i)
  <2>1. {j \in 1 .. Len(<<i>>) : <<i>>[j] # FIN} = 1 .. 1
    BY <1>2, <1>5
  <2>2. Delivered(<<i>>) = [j \in 1 .. 1 |-> i]
    BY <2>1 DEF Delivered
  <2>3. Stream!Stretch(i, i) = [j \in 1 .. 1 |-> i]
    BY <1>6 DEF Stream!Stretch
  <2> QED
    BY <2>2, <2>3 DEF Delivered
<1>9. Delivered(consumed) = <<>> /\ Delivered(consumed') = Stream!Stretch(i, i)
  BY <1>4, <1>7, <1>8
<1>10. i \in Stream!Starts /\ i \in i + Len(Delivered(consumed)) .. written
  <2>1. i \in Stream!Starts
    BY <1>4, <1>6, <1>5, <1>9 DEF Stream!Starts, Delivered
  <2> QED
    BY <1>6, <1>9, <2>1
<1> QED
  BY <1>2, <1>3, <1>9, <1>10 DEF Stream!StreamDeliver, Delivered, FIN, R!FIN

\* The FIN branch: the end is reported together with the last chunks, and after
\* an orderly close everything written has been delivered.
LEMMA FinReportsTheEnd ==
    ASSUME ShortTransfer, TransferIInv, TransferIInv', Phases, OrderlyClose => Orderly, ReceiveFin
    PROVE  Stream!StreamEof
<1>1. RP!HandleFin(TRUE) /\ UNCHANGED sendVars /\ net[FIN] > 0
  BY SameReader DEF ReceiveFin, TakeFromNet
<1>2. /\ localState = "CONNECTED" /\ closedForWriting' = TRUE
      /\ UNCHANGED <<isInitiator, written, connState>>
      /\ localAckNr' = RP!AfterQueueing(RP!FIN).ackNr
      /\ recvPacketQueue' = RP!AfterQueueing(RP!FIN).queue
      /\ consumed' = RP!AfterQueueing(RP!FIN).consumed
  BY <1>1 DEF RP!HandleFin, sendVars
<1>3. ~closedForWriting /\ connState # "CONNECTED" /\ RP!FIN \in RP!Packets
  BY <1>1, <1>2, OneNumbering DEF Phases
<1> DEFINE first == StartOf(consumed')
           last == first + DataIn(consumed') - 1
<1>4. /\ first \in Stream!Starts
      /\ last \in first + Len(Delivered(consumed)) - 1 .. written
      /\ Delivered(consumed') = Stream!Stretch(first, last)
  BY <1>2, <1>3, StretchGrows
<1>5. OrderlyClose => last = written
  <2>1. SUFFICES ASSUME OrderlyClose PROVE last = written
    OBVIOUS
  <2>2. written = NumData /\ \A d \in 1 .. NumData : Held(d)
    BY <1>3, <2>1 DEF Orderly, AllBeforeFin
  <2>3. /\ RP!LoopOK(RP!Loop) /\ RP!InOrder(RP!Loop)
        /\ RP!SeqAdd(localAckNr, 1) \notin RP!QKeys(recvPacketQueue) \ {0}
    BY <1>2 DEF TransferIInv, Ends, ReaderEnd, RP!RecvIInv, RP!RecvOrder, RP!NothingDeliverableWaits
  <2>4. RP!ShortStream /\ NumData < QueueCapacity
    BY OneNumbering DEF ShortTransfer
  <2>5. \A d \in 1 .. NumData : RP!HeldIn(RP!Loop, d) \/ (consumed # <<>> /\ d < consumed[1])
    BY <2>2 DEF Held, Had, RP!Loop
  <2>6. NumData <= RP!LastIn(consumed')
    BY <1>2, <1>3, <2>3, <2>4, <2>5, RP!AllHeldIsConsumed, ReaderAssumes
  <2>7. /\ consumed' \in Seq(RP!Packets)
        /\ \A j \in 2 .. Len(consumed') : consumed'[j] = consumed'[j - 1] + 1
    BY SeenByTheStream
  <2> QED
    BY <2>2, <2>6, <2>7, DeliveredIs
<1> HIDE DEF first, last
<1>6. last = written \/ ~OrderlyClose
  BY <1>5
<1> QED
  BY <1>2, <1>3, <1>4, <1>6 DEF Stream!StreamEof, Delivered, FIN, R!FIN

\* Every step of the transfer is one of the stream or goes unnoticed.
LEMMA EveryStepIsTheStreams ==
    ASSUME ShortTransfer, StreamIInv, StreamIInv', [TransferNext]_transferVars
    PROVE  [Stream!StreamNext]_(Stream!streamVars)
<1>0. TransferIInv /\ TransferIInv' /\ Phases /\ (OrderlyClose => Orderly)
  BY DEF StreamIInv
<1>1. CASE Write
  <2>1. /\ connState = "CONNECTED" /\ written' = written + 1
        /\ UNCHANGED <<isInitiator, connState, consumed, closedForWriting>>
    BY <1>1 DEF Write, W!WaitForAck, recvVars
  <2>2. Stream!StreamWrite
    BY <2>1 DEF Stream!StreamWrite
  <2> QED
    BY <2>2 DEF Stream!StreamNext
<1>2. CASE CloseWriter
  <2>1. /\ connState = "CONNECTED" /\ connState' = "CLOSE_WAIT"
        /\ UNCHANGED <<isInitiator, written, consumed, closedForWriting>>
    BY <1>2 DEF CloseWriter, W!Close, recvVars
  <2>2. Stream!StreamEnd
    BY <2>1 DEF Stream!StreamEnd
  <2> QED
    BY <2>2 DEF Stream!StreamNext
<1>3. CASE \E i \in Packets : ReceiveData(i)
  BY <1>0, <1>3, DataIsDelivered
<1>4. CASE ReceiveFin
  BY <1>0, <1>4, FinReportsTheEnd DEF Stream!StreamNext
<1>5. CASE \E i \in Packets : ReceiveFirst(i)
  BY <1>0, <1>5, FirstIsDelivered DEF Stream!StreamNext
<1>6. CASE \/ \E s \in W!SeqNrs : Retransmit(s) \/ Abandon(s)
           \/ \E ack \in acks : ReceiveAck(ack)
  <2>1. /\ UNCHANGED <<isInitiator, written, connState, consumed, closedForWriting>>
    BY <1>6 DEF Retransmit, Abandon, ReceiveAck, W!Resend, W!GiveUp, W!HandleAck, recvVars
  <2> QED
    BY <2>1, UnseenSteps
<1>7. CASE ReleaseWriter
  <2>1. /\ UNCHANGED <<isInitiator, written, consumed, closedForWriting>>
        /\ connState = "CLOSE_WAIT" /\ connState' = "CLOSED"
    BY <1>7 DEF ReleaseWriter, W!Release, recvVars
  <2> QED
    BY <2>1, UnseenSteps
<1>8. CASE SynAck
  <2>1. UNCHANGED <<isInitiator, written, connState, consumed, closedForWriting>>
    BY <1>8 DEF SynAck, R!HandleAtSynSent, sendVars
  <2> QED
    BY <2>1, UnseenSteps
<1>9. CASE \/ \E i \in Packets : ReceiveIgnored(i) \/ LosePacket(i)
           \/ \E ack \in acks : AckTooLate(ack) \/ LoseAck(ack)
           \/ KeepAlive \/ UNCHANGED transferVars
  <2>1. UNCHANGED <<sendVars, recvVars>>
    BY <1>9 DEF ReceiveIgnored, LosePacket, AckTooLate, LoseAck, KeepAlive, transferVars
  <2>2. UNCHANGED <<isInitiator, written, connState, consumed, closedForWriting>>
    BY <2>1 DEF sendVars, recvVars
  <2> QED
    BY <2>2, UnseenSteps
<1> QED
  BY <1>1, <1>2, <1>3, <1>4, <1>5, <1>6, <1>7, <1>8, <1>9 DEF TransferNext

\* The two ends together keep the promise of ByteStream, at either role and however
\* the writer closes: the reader gets a stretch of what was written, each chunk
\* once and in order, an initiator from the first on, and after an orderly close
\* it meets the end only after the last.
THEOREM TransferImplementsStream ==
    ASSUME ShortTransfer
    PROVE  TransferSpec => ImplementsByteStream
<1>1. TransferInit => Stream!StreamInit
  <2> SUFFICES ASSUME TransferInit PROVE Stream!StreamInit
    OBVIOUS
  <2>1. WP!Init /\ RP!RecvInit
    BY SameWriter, SameReader DEF TransferInit
  <2>2. /\ consumed = <<>> /\ written = 0 /\ connState = "CONNECTED"
        /\ closedForWriting = FALSE /\ isInitiator \in BOOLEAN
    BY <2>1 DEF WP!Init, RP!RecvInit
  <2>3. Delivered(<<>>) = <<>>
    BY DEF Delivered
  <2> QED
    BY <2>2, <2>3 DEF Stream!StreamInit, Delivered
<1>2. ASSUME StreamIInv, StreamIInv', [TransferNext]_transferVars
      PROVE  [Stream!StreamNext]_(Stream!streamVars)
  BY <1>2, EveryStepIsTheStreams
<1>3. TransferSpec => []StreamIInv
  BY StreamInvariance
<1> QED
  BY <1>1, <1>2, <1>3, PTL DEF TransferSpec, ImplementsByteStream, Stream!StreamSpec
=============================================================================
