-------------------------- MODULE UtpReceiverProofs --------------------------
(***************************************************************************)
(* What the receiving half guarantees for every modulus, queue capacity,   *)
(* first sequence number and disorder of the network: the cached oldest    *)
(* key, the acknowledged number, what is left in the queue, and what the   *)
(* selective acknowledgement tells the sender; and, for streams shorter    *)
(* than one round of the numbers, delivery in order.                       *)
(***************************************************************************)
EXTENDS ReceiverSack, SeqNrProofs, TLAPS

\* A well-formed queue: it is within its capacity, knows its smallest key, and
\* has every packet at its own number.
QueueOK(q) ==
    /\ QKeys(q) \subseteq SeqNrs
    /\ q = [items |-> q.items, oldest |-> q.oldest]
    /\ q.items \in [QKeys(q) -> Packets]
    /\ q.oldest = OldestOf(QKeys(q))
    /\ Cardinality(QKeys(q)) <= QueueCapacity
    /\ \A k \in QKeys(q) : PacketSeq(q.items[k]) = k

\* What processReceivedPackets works on: ackNr is the last packet consumed.
LoopOK(r) ==
    /\ r = [ackNr |-> r.ackNr, queue |-> r.queue, consumed |-> r.consumed]
    /\ r.ackNr \in SeqNrs
    /\ QueueOK(r.queue)
    /\ r.consumed \in Seq(Packets)
    /\ r.consumed # <<>> => r.ackNr = PacketSeq(r.consumed[Len(r.consumed)])

\* The part of the connection the loop works on.
Loop == [ackNr |-> localAckNr, queue |-> recvPacketQueue, consumed |-> consumed]

\* Before the connection is established nothing is queued or consumed.
NothingYet ==
    localState \in {"SYN_SENT", "SYN_RECV"} => QKeys(recvPacketQueue) = {} /\ consumed = <<>>

\* The inductive invariant for streams of any length.
RecvIInv == RecvTypeOK /\ LoopOK(Loop) /\ NothingYet /\ NothingDeliverableWaits

\* In what is consumed each packet follows the one before, and the first one
\* follows ackNr.
InOrder(r) ==
    /\ \A i \in 2 .. Len(r.consumed) : r.consumed[i] = r.consumed[i - 1] + 1
    /\ isInitiator /\ r.consumed # <<>> => r.consumed[1] = 1
    /\ r.consumed = <<>> => r.ackNr = SeqAdd(FirstSeq, -1)

\* What has to be added to it for streams shorter than a round.
RecvOrder ==
    /\ ConsumedInOrder
    /\ isInitiator => localState # "SYN_RECV"
    /\ localState = "CONNECTED" => InOrder(Loop)

\* The peer's stream is shorter than one round of the numbers.
ShortStream == NumData + 1 < SeqMod

-----------------------------------------------------------------------------
(* The queue *)

\* A packet's number is a sequence number.
LEMMA PacketSeqType ==
    ASSUME NEW i \in Int
    PROVE  PacketSeq(i) \in SeqNrs
<1>1. FirstSeq \in Int /\ i - 1 \in Int
  BY ReceiverAssumption, SeqModAssumption DEF SeqNrs
<1> QED
  BY <1>1, SeqAddType DEF PacketSeq

\* The smallest key of a queue that is not empty.
LEMMA SmallestKeyIsLeast ==
    ASSUME NEW K \in SUBSET SeqNrs, K # {}
    PROVE  SmallestKey(K) \in K /\ \A j \in K : SmallestKey(K) <= j
<1>1. K \in SUBSET Nat
  BY SeqModAssumption DEF SeqNrs
<1>2. \E k \in K : \A j \in K : k <= j
  BY <1>1, LeastNat
<1> QED
  BY <1>2 DEF SmallestKey

\* updateOldestKey finds the key that no other is smaller than.
LEMMA OldestOfIs ==
    ASSUME NEW K \in SUBSET SeqNrs, NEW k \in K, \A j \in K : k <= j
    PROVE  OldestOf(K) = k
<1>1. SmallestKey(K) \in K /\ \A j \in K : SmallestKey(K) <= j
  BY SmallestKeyIsLeast
<1>2. SmallestKey(K) <= k /\ k <= SmallestKey(K)
  BY <1>1
<1>3. k \in Int /\ SmallestKey(K) \in Int
  <2>1. SeqNrs \subseteq Int
    BY SeqModAssumption DEF SeqNrs
  <2> QED
    BY <1>1, <2>1
<1> QED
  BY <1>2, <1>3 DEF OldestOf

\* Dequeueing keys leaves a well-formed queue, whether or not the cached
\* oldest key is among them.
LEMMA DequeueKeeps ==
    ASSUME NEW q, QueueOK(q), NEW D
    PROVE  /\ QueueOK(Dequeue(q, D))
           /\ QKeys(Dequeue(q, D)) = QKeys(q) \ D
           /\ \A k \in QKeys(q) \ D : Dequeue(q, D).items[k] = q.items[k]
<1> DEFINE K == QKeys(q)
           left == K \ D
           f == [k \in left |-> q.items[k]]
           old == IF q.oldest \in D THEN OldestOf(left) ELSE q.oldest
<1>1. Dequeue(q, D) = [items |-> f, oldest |-> old]
  BY DEF Dequeue
<1>2. f \in [left -> Packets] /\ DOMAIN f = left /\ \A k \in left : f[k] = q.items[k]
  BY DEF QueueOK
<1>3. K \in SUBSET SeqNrs /\ left \in SUBSET K /\ left \in SUBSET SeqNrs
  BY DEF QueueOK
<1>4. \A k \in left : PacketSeq(f[k]) = k
  BY <1>2 DEF QueueOK
<1>5. old = OldestOf(left)
  <2>1. CASE q.oldest \in D
    BY <2>1
  <2>2. CASE q.oldest \notin D /\ K = {}
    BY <2>2 DEF QueueOK, OldestOf
  <2>3. CASE q.oldest \notin D /\ K # {}
    <3>1. q.oldest \in K /\ \A j \in K : q.oldest <= j
      BY <1>3, <2>3, SmallestKeyIsLeast DEF QueueOK, OldestOf
    <3>2. q.oldest \in left /\ \A j \in left : q.oldest <= j
      BY <2>3, <3>1
    <3> QED
      BY <1>3, <2>3, <3>2, OldestOfIs
  <2> QED
    BY <2>1, <2>2, <2>3
<1>6. Cardinality(left) <= QueueCapacity
  <2>1. Cardinality(left) <= Cardinality(K) /\ Cardinality(left) \in Nat /\ Cardinality(K) \in Nat
    BY <1>3, SubsetNoLarger, SeqNrsFinite
  <2> QED
    BY <2>1, ReceiverAssumption DEF QueueOK
<1> HIDE DEF f, left, old, K
<1>7. QKeys(Dequeue(q, D)) = left
  BY <1>1, <1>2 DEF QKeys
<1>8. QueueOK(Dequeue(q, D))
  BY <1>1, <1>2, <1>3, <1>4, <1>5, <1>6, <1>7 DEF QueueOK
<1> QED
  BY <1>1, <1>2, <1>7, <1>8 DEF left, K

\* Enqueueing a packet at its number keeps the queue well formed and within
\* its capacity: a full queue loses its smallest key, and no other.
LEMMA EnqueueKeeps ==
    ASSUME NEW q, QueueOK(q), NEW i \in Packets
    PROVE  QueueOK(Enqueue(q, QueueCapacity, PacketSeq(i), i))
<1> DEFINE K == QKeys(q)
           key == PacketSeq(i)
           e == Enqueue(q, QueueCapacity, key, i)
<1>1. key \in SeqNrs
  BY PacketSeqType DEF Packets
<1>2. K \in SUBSET SeqNrs /\ IsFiniteSet(K) /\ Cardinality(K) \in Nat /\ Cardinality(K) <= QueueCapacity
  BY SeqNrsFinite DEF QueueOK
<1>3. CASE key \in K
  <2> DEFINE f == [q.items EXCEPT ![key] = i]
  <2>1. e = [q EXCEPT !.items[key] = i]
    BY <1>3 DEF Enqueue
  <2>2. e = [items |-> f, oldest |-> q.oldest]
    BY <2>1 DEF QueueOK
  <2>3. f \in [K -> Packets] /\ DOMAIN f = K /\ \A k \in K : f[k] = IF k = key THEN i ELSE q.items[k]
    BY <1>3 DEF QueueOK
  <2> HIDE DEF f, e, K, key
  <2>4. QKeys(e) = K
    BY <2>2, <2>3 DEF QKeys
  <2>5. \A k \in K : PacketSeq(f[k]) = k
    BY <2>3 DEF QueueOK, K, key
  <2> QED
    BY <1>2, <2>2, <2>3, <2>4, <2>5 DEF QueueOK, e, K, key
<1>4. CASE key \notin K
  <2> DEFINE kept == IF IsAtCapacity(q, QueueCapacity) THEN K \ {q.oldest} ELSE K
             L == kept \cup {key}
             f == [k \in L |-> IF k = key THEN i ELSE q.items[k]]
  <2>1. e = [items |-> f, oldest |-> OldestOf(L)]
    BY <1>4 DEF Enqueue
  <2>2. kept \in SUBSET K /\ L \in SUBSET SeqNrs
    BY <1>1, <1>2
  <2>3. f \in [L -> Packets] /\ DOMAIN f = L /\ \A k \in L : PacketSeq(f[k]) = k
    BY <2>2 DEF QueueOK
  <2>4. Cardinality(L) <= QueueCapacity
    <3>1. IsFiniteSet(kept) /\ Cardinality(kept) \in Nat /\ Cardinality(L) <= Cardinality(kept) + 1
          /\ Cardinality(L) \in Nat
      BY <1>1, <1>2, <2>2, SeqNrsFinite, AddOne
    <3>2. Cardinality(kept) < QueueCapacity
      <4>1. CASE IsAtCapacity(q, QueueCapacity)
        <5>1. K # {}
          <6>1. Cardinality(K) >= 1
            BY <1>2, <4>1, ReceiverAssumption DEF IsAtCapacity
          <6> QED
            BY <6>1, FS_EmptySet
        <5>2. q.oldest \in K
          BY <1>2, <5>1, SmallestKeyIsLeast DEF QueueOK, OldestOf
        <5>3. Cardinality(K \ {q.oldest}) = Cardinality(K) - 1
          BY <1>2, <5>2, FS_RemoveElement
        <5> QED
          BY <1>2, <4>1, <5>3, ReceiverAssumption
      <4>2. CASE ~IsAtCapacity(q, QueueCapacity)
        BY <1>2, <4>2, ReceiverAssumption DEF IsAtCapacity
      <4> QED
        BY <4>1, <4>2
    <3> QED
      BY <3>1, <3>2, ReceiverAssumption
  <2> HIDE DEF f, L, e, K, key
  <2>5. QKeys(e) = L
    BY <2>1, <2>3 DEF QKeys
  <2> QED
    BY <2>1, <2>2, <2>3, <2>4, <2>5 DEF QueueOK, e, key
<1> QED
  BY <1>3, <1>4

-----------------------------------------------------------------------------
(* processReceivedPackets *)

\* The loop stops at the first number that is not queued, within a round.
LEMMA RunLengthStops ==
    ASSUME NEW ackNr \in SeqNrs, NEW K \in SUBSET SeqNrs
    PROVE  /\ RunLength(ackNr, K) \in 0 .. SeqMod
           /\ \A i \in 0 .. RunLength(ackNr, K) - 1 : SeqAdd(ackNr, 1) + i \in K
           /\ SeqAdd(ackNr, 1) + RunLength(ackNr, K) \notin K
<1> DEFINE first == SeqAdd(ackNr, 1)
           S == {m \in 0 .. SeqMod : first + m \notin K}
<1>1. SeqMod \in Nat /\ first \in SeqNrs /\ first \in Nat
  BY SeqModAssumption, SeqAddType DEF SeqNrs
<1> HIDE DEF first
<1>2. S \in SUBSET Nat /\ SeqMod \in S
  <2>1. first + SeqMod \notin SeqNrs
    BY <1>1 DEF SeqNrs
  <2> QED
    BY <1>1, <2>1
<1>3. PICK n \in S : \A m \in S : n <= m
  <2> HIDE DEF S
  <2> QED
    BY <1>2, LeastNat
<1>4. n \in 0 .. SeqMod /\ first + n \notin K /\ \A i \in 0 .. n - 1 : first + i \in K
  <2>1. n \in 0 .. SeqMod /\ first + n \notin K
    BY <1>3
  <2>2. ASSUME NEW i \in 0 .. n - 1
        PROVE  first + i \in K
    <3>1. i \in 0 .. SeqMod /\ ~(n <= i)
      BY <1>1, <2>1
    <3> QED
      BY <1>3, <3>1
  <2> QED
    BY <2>1, <2>2
<1> QED
  BY <1>4 DEF RunLength, first

\* The loop in terms of the run it takes: n packets with consecutive numbers
\* that do not wrap; ackNr becomes the number of the last one, and the number
\* after it is not queued, unless that is 0.
LEMMA ProcessTakesRun ==
    ASSUME NEW r, LoopOK(r)
    PROVE  LET first == SeqAdd(r.ackNr, 1)
               n == RunLength(r.ackNr, QKeys(r.queue))
               after == ProcessReceivedPackets(r)
           IN  /\ n \in Nat /\ n <= SeqMod
               /\ first \in SeqNrs
               /\ \A i \in 1 .. n : first + i - 1 \in QKeys(r.queue)
               /\ n # 0 => after.ackNr = first + n - 1
               /\ n = 0 => after.ackNr = r.ackNr
               /\ after.ackNr \in SeqNrs
               /\ SeqAdd(after.ackNr, 1) \in {0, first + n}
               /\ first + n \notin QKeys(r.queue)
<1> DEFINE K == QKeys(r.queue)
           first == SeqAdd(r.ackNr, 1)
           n == RunLength(r.ackNr, K)
           last == SeqAdd(r.ackNr, n)
<1>1. SeqMod \in Nat /\ SeqMod > 3 /\ r.ackNr \in SeqNrs /\ r.ackNr \in Nat /\ r.ackNr < SeqMod /\ K \in SUBSET SeqNrs
  BY SeqModAssumption DEF LoopOK, QueueOK, SeqNrs
<1>2. /\ n \in 0 .. SeqMod
      /\ \A i \in 0 .. n - 1 : first + i \in K
      /\ first + n \notin K
  BY <1>1, RunLengthStops
<1>3. first = (IF r.ackNr + 1 < SeqMod THEN r.ackNr + 1 ELSE r.ackNr + 1 - SeqMod) /\ first \in SeqNrs
  <2>1. 1 \in 0 .. SeqMod
    BY <1>1
  <2> QED
    BY <1>1, <2>1, SeqAddWraps, SeqAddType
<1>4. last = (IF r.ackNr + n < SeqMod THEN r.ackNr + n ELSE r.ackNr + n - SeqMod) /\ last \in SeqNrs
  BY <1>1, <1>2, SeqAddWraps, SeqAddType
<1>5. ProcessReceivedPackets(r).ackNr = last
  BY DEF ProcessReceivedPackets
<1>6. SeqAdd(last, 1) = (IF last + 1 < SeqMod THEN last + 1 ELSE last + 1 - SeqMod)
  <2>1. 1 \in 0 .. SeqMod
    BY <1>1
  <2> QED
    BY <1>4, <2>1, SeqAddWraps
<1> HIDE DEF K, first, n, last
<1>7. \A i \in 1 .. n : first + i - 1 \in K
  <2>1. SUFFICES ASSUME NEW i \in 1 .. n PROVE first + i - 1 \in K
    OBVIOUS
  <2>2. i - 1 \in 0 .. n - 1 /\ first + (i - 1) = first + i - 1
    BY <1>1, <1>2, <1>3 DEF SeqNrs
  <2>3. first + (i - 1) \in K
    BY <1>2, <2>2
  <2> QED
    BY <2>2, <2>3
<1>8. n # 0 => first + n - 1 \in SeqNrs
  <2>1. n # 0 => n \in 1 .. n
    BY <1>1, <1>2
  <2> QED
    BY <1>1, <1>7, <2>1
<1>9. (n # 0 => last = first + n - 1) /\ (n = 0 => last = r.ackNr)
  BY <1>1, <1>2, <1>3, <1>4, <1>8 DEF SeqNrs
<1>10. SeqAdd(last, 1) \in {0, first + n}
  <2>1. n \in Nat /\ first \in Nat /\ last \in Nat /\ last < SeqMod
    BY <1>1, <1>2, <1>3, <1>4 DEF SeqNrs
  <2>2. CASE n = 0
    BY <1>1, <1>3, <1>6, <1>9, <2>1, <2>2
  <2>3. CASE n # 0
    <3>1. last + 1 = first + n
      BY <1>9, <2>1, <2>3
    <3>2. SeqAdd(last, 1) = last + 1 \/ SeqAdd(last, 1) = 0
      BY <1>1, <1>6, <2>1
    <3> QED
      BY <3>1, <3>2
  <2> QED
    BY <2>2, <2>3
<1> QED
  BY <1>1, <1>2, <1>3, <1>4, <1>5, <1>7, <1>9, <1>10 DEF K, first, n, last

\* What the loop appends to the packets consumed: the items of the run.
LEMMA ProcessConsumes ==
    ASSUME NEW r, LoopOK(r)
    PROVE  LET first == SeqAdd(r.ackNr, 1)
               n == RunLength(r.ackNr, QKeys(r.queue))
               L == Len(r.consumed)
               after == ProcessReceivedPackets(r)
           IN  /\ after.consumed \in Seq(Packets)
               /\ L \in Nat
               /\ Len(after.consumed) = L + n
               /\ \A i \in 1 .. L : after.consumed[i] = r.consumed[i]
               /\ \A i \in 1 .. n : /\ after.consumed[L + i] = r.queue.items[first + i - 1]
                                    /\ r.queue.items[first + i - 1] \in Packets
                                    /\ PacketSeq(after.consumed[L + i]) = first + i - 1
<1> DEFINE K == QKeys(r.queue)
           first == SeqAdd(r.ackNr, 1)
           n == RunLength(r.ackNr, K)
           L == Len(r.consumed)
           new == [i \in 1 .. n |-> r.queue.items[first + i - 1]]
<1>1. n \in Nat /\ \A i \in 1 .. n : first + i - 1 \in K
  BY ProcessTakesRun
<1>2. \A k \in K : r.queue.items[k] \in Packets /\ PacketSeq(r.queue.items[k]) = k
  BY DEF LoopOK, QueueOK
<1>3. r.consumed \in Seq(Packets) /\ L \in Nat
  BY DEF LoopOK
<1>4. ProcessReceivedPackets(r).consumed = r.consumed \o new
  BY DEF ProcessReceivedPackets
<1> HIDE DEF K, first, n
<1>5. new \in Seq(Packets) /\ Len(new) = n
  BY <1>1, <1>2
<1>6. \A i \in 1 .. n : new[i] = r.queue.items[first + i - 1]
  OBVIOUS
<1> HIDE DEF new, L
<1>7. /\ r.consumed \o new \in Seq(Packets)
      /\ Len(r.consumed \o new) = L + n
      /\ \A i \in 1 .. L : (r.consumed \o new)[i] = r.consumed[i]
      /\ \A i \in 1 .. n : (r.consumed \o new)[L + i] = new[i]
  BY <1>1, <1>3, <1>5 DEF L
<1> QED
  BY <1>1, <1>2, <1>3, <1>4, <1>6, <1>7 DEF K, first, n, L

\* The loop keeps what it works on well formed, and leaves nothing deliverable
\* in the queue but a packet with number 0.
LEMMA ProcessKeeps ==
    ASSUME NEW r, LoopOK(r)
    PROVE  LET after == ProcessReceivedPackets(r)
           IN  LoopOK(after) /\ SeqAdd(after.ackNr, 1) \notin QKeys(after.queue) \ {0}
<1> DEFINE K == QKeys(r.queue)
           first == SeqAdd(r.ackNr, 1)
           n == RunLength(r.ackNr, K)
           L == Len(r.consumed)
           after == ProcessReceivedPackets(r)
<1>1. /\ n \in Nat /\ first \in SeqNrs
      /\ n # 0 => after.ackNr = first + n - 1
      /\ n = 0 => after.ackNr = r.ackNr
      /\ after.ackNr \in SeqNrs
      /\ SeqAdd(after.ackNr, 1) \in {0, first + n}
      /\ first + n \notin K
  BY ProcessTakesRun
<1>2. /\ after.consumed \in Seq(Packets) /\ L \in Nat
      /\ Len(after.consumed) = L + n
      /\ \A i \in 1 .. L : after.consumed[i] = r.consumed[i]
      /\ \A i \in 1 .. n : PacketSeq(after.consumed[L + i]) = first + i - 1
  BY ProcessConsumes
<1>3. QueueOK(r.queue)
  BY DEF LoopOK
<1>4. after = [ackNr |-> after.ackNr, queue |-> after.queue, consumed |-> after.consumed]
      /\ after.queue = Dequeue(r.queue, first .. first + n - 1)
  BY DEF ProcessReceivedPackets
<1> HIDE DEF after, first, n
<1>5. QueueOK(after.queue) /\ QKeys(after.queue) = K \ (first .. first + n - 1)
  <2> DEFINE D == first .. first + n - 1
  <2>1. QueueOK(Dequeue(r.queue, D)) /\ QKeys(Dequeue(r.queue, D)) = QKeys(r.queue) \ D
    <3> HIDE DEF D
    <3> QED
      BY <1>3, DequeueKeeps
  <2> QED
    BY <1>4, <2>1
<1> HIDE DEF L, K
<1>6. ASSUME after.consumed # <<>>
      PROVE  after.ackNr = PacketSeq(after.consumed[Len(after.consumed)])
  <2>1. CASE n = 0
    <3>1. Len(after.consumed) = L /\ L # 0
      BY <1>1, <1>2, <1>6, <2>1
    <3>2. r.consumed # <<>> /\ L \in 1 .. L
      BY <1>2, <3>1 DEF L
    <3> QED
      BY <1>1, <1>2, <2>1, <3>1, <3>2 DEF LoopOK, L
  <2>2. CASE n # 0
    <3>1. n \in 1 .. n
      BY <1>1, <2>2
    <3> QED
      BY <1>1, <1>2, <2>2, <3>1
  <2> QED
    BY <2>1, <2>2
<1>7. LoopOK(after)
  BY <1>1, <1>2, <1>4, <1>5, <1>6 DEF LoopOK
<1>8. SeqAdd(after.ackNr, 1) \notin QKeys(after.queue) \ {0}
  BY <1>1, <1>5
<1> QED
  BY <1>7, <1>8 DEF after

\* The number of a packet of a short stream.  (PacketSeq(0) is the number before
\* the stream's first packet.)
LEMMA PacketSeqOf ==
    ASSUME ShortStream, NEW a \in 0 .. NumData + 1
    PROVE  PacketSeq(a) = IF FirstSeq + a < 1 THEN SeqMod - 1
                          ELSE IF FirstSeq + (a - 1) < SeqMod THEN FirstSeq + (a - 1)
                          ELSE FirstSeq + (a - 1) - SeqMod
<1>1. /\ SeqMod \in Nat /\ NumData \in Nat /\ FirstSeq \in Nat /\ FirstSeq < SeqMod
      /\ NumData + 1 < SeqMod /\ a \in Nat /\ a <= NumData + 1
  BY SeqModAssumption, ReceiverAssumption DEF ShortStream, SeqNrs
<1>2. FirstSeq + (a - 1) \in Int
  BY <1>1
<1>3. CASE FirstSeq + a < 1
  <2>1. (FirstSeq + (a - 1)) + SeqMod \in SeqNrs /\ (FirstSeq + (a - 1)) + SeqMod = SeqMod - 1
    BY <1>1, <1>3 DEF SeqNrs
  <2> QED
    BY <1>2, <1>3, <2>1, ModOneRound DEF PacketSeq, SeqAdd
<1>4. CASE ~(FirstSeq + a < 1) /\ FirstSeq + (a - 1) < SeqMod
  <2>1. FirstSeq + (a - 1) \in SeqNrs
    BY <1>1, <1>4 DEF SeqNrs
  <2> QED
    BY <1>2, <1>4, <2>1, ModOneRound DEF PacketSeq, SeqAdd
<1>5. CASE ~(FirstSeq + (a - 1) < SeqMod)
  <2>1. (FirstSeq + (a - 1)) - SeqMod \in SeqNrs /\ ~(FirstSeq + a < 1)
    BY <1>1, <1>5 DEF SeqNrs
  <2>2. PacketSeq(a) = (FirstSeq + (a - 1)) - SeqMod
    BY <1>2, <2>1, ModOneRound DEF PacketSeq, SeqAdd
  <2> QED
    BY <1>1, <1>5, <2>1, <2>2
<1> QED
  BY <1>3, <1>4, <1>5

\* In a short stream the packet with the next number is the next packet.
LEMMA NextNumberIsNextPacket ==
    ASSUME ShortStream, NEW a \in 0 .. NumData + 1, NEW b \in Packets,
           PacketSeq(b) = SeqAdd(PacketSeq(a), 1)
    PROVE  b = a + 1
<1>1. /\ SeqMod \in Nat /\ NumData \in Nat /\ FirstSeq \in Nat /\ FirstSeq < SeqMod
      /\ NumData + 1 < SeqMod /\ SeqMod > 3
      /\ a \in Nat /\ a <= NumData + 1 /\ b \in Nat /\ 1 <= b /\ b <= NumData + 1
  BY SeqModAssumption, ReceiverAssumption DEF ShortStream, Packets, SeqNrs
<1>2. PacketSeq(b) = IF FirstSeq + (b - 1) < SeqMod THEN FirstSeq + (b - 1) ELSE FirstSeq + (b - 1) - SeqMod
  <2>1. FirstSeq \in SeqNrs /\ b - 1 \in 0 .. SeqMod
    BY <1>1, ReceiverAssumption
  <2> QED
    BY <2>1, SeqAddWraps DEF PacketSeq
<1>3. PacketSeq(a) \in SeqNrs
  BY <1>1, PacketSeqType
<1>4. PacketSeq(a) = IF FirstSeq + a < 1 THEN SeqMod - 1
                     ELSE IF FirstSeq + (a - 1) < SeqMod THEN FirstSeq + (a - 1)
                     ELSE FirstSeq + (a - 1) - SeqMod
  BY PacketSeqOf
<1>5. SeqAdd(PacketSeq(a), 1) = IF PacketSeq(a) + 1 < SeqMod THEN PacketSeq(a) + 1 ELSE PacketSeq(a) + 1 - SeqMod
  <2>1. 1 \in 0 .. SeqMod
    BY <1>1
  <2> QED
    BY <1>3, <2>1, SeqAddWraps
<1> QED
  BY <1>1, <1>2, <1>4, <1>5

\* In a short stream the run that the loop takes continues the stream.
LEMMA ProcessInOrder ==
    ASSUME ShortStream, NEW r, LoopOK(r), InOrder(r)
    PROVE  InOrder(ProcessReceivedPackets(r))
<1> DEFINE first == SeqAdd(r.ackNr, 1)
           n == RunLength(r.ackNr, QKeys(r.queue))
           L == Len(r.consumed)
           after == ProcessReceivedPackets(r)
           c == after.consumed
<1>1. /\ n \in Nat /\ first \in SeqNrs /\ n <= SeqMod
      /\ n = 0 => after.ackNr = r.ackNr
      /\ \A i \in 1 .. n : first + i - 1 \in QKeys(r.queue)
  BY ProcessTakesRun
<1>2. /\ c \in Seq(Packets) /\ L \in Nat /\ Len(c) = L + n
      /\ \A i \in 1 .. L : c[i] = r.consumed[i]
      /\ \A i \in 1 .. n : PacketSeq(c[L + i]) = first + i - 1
  BY ProcessConsumes
<1>3. \A i \in 1 .. L + n : c[i] \in Packets
  BY <1>2
<1>4. QKeys(r.queue) \subseteq SeqNrs /\ r.ackNr \in SeqNrs
  BY DEF LoopOK, QueueOK
<1>5. SeqMod \in Nat /\ SeqMod > 3 /\ first \in Nat /\ \A p \in Packets : p \in 0 .. NumData + 1
  BY <1>1, SeqModAssumption DEF SeqNrs, Packets
<1>6. r.consumed # <<>> => L \in 1 .. L /\ r.ackNr = PacketSeq(r.consumed[L])
  BY <1>2 DEF LoopOK
<1>7. L = 0 <=> r.consumed = <<>>
  BY DEF LoopOK
<1> HIDE DEF first, n, L, c, after
<1>8. ASSUME NEW i \in 1 .. n, L + i > 1
      PROVE  c[L + i] = c[L + i - 1] + 1
  <2>1. L + i \in 1 .. L + n /\ L + i - 1 \in 1 .. L + n
    BY <1>1, <1>2, <1>8
  <2>2. c[L + i] \in Packets /\ c[L + i - 1] \in 0 .. NumData + 1
    BY <1>3, <1>5, <2>1
  <2>3. PacketSeq(c[L + i]) = SeqAdd(PacketSeq(c[L + i - 1]), 1)
    <3>1. CASE i = 1
      <4>1. L # 0 /\ L + i - 1 = L
        BY <1>2, <1>8, <3>1
      <4>2. r.ackNr = PacketSeq(r.consumed[L]) /\ c[L] = r.consumed[L]
        BY <1>2, <1>6, <1>7, <4>1
      <4>3. PacketSeq(c[L + i]) = first
        BY <1>2, <1>5, <3>1
      <4> QED
        BY <4>1, <4>2, <4>3 DEF first
    <3>2. CASE i # 1
      <4>1. i - 1 \in 1 .. n /\ L + (i - 1) = L + i - 1
        BY <1>1, <1>2, <3>2
      <4>2. PacketSeq(c[L + i - 1]) = first + (i - 1) - 1 /\ PacketSeq(c[L + i]) = first + i - 1
        BY <1>2, <4>1
      <4>3. first + (i - 1) - 1 \in SeqNrs /\ first + i - 1 \in SeqNrs
        BY <1>1, <1>4, <4>1
      <4>4. 1 \in 0 .. SeqMod
        BY <1>5
      <4>5. SeqAdd(first + (i - 1) - 1, 1) = (first + (i - 1) - 1) + 1
        BY <1>5, <4>3, <4>4, SeqAddWraps DEF SeqNrs
      <4> QED
        BY <1>5, <4>1, <4>2, <4>5
    <3> QED
      BY <3>1, <3>2
  <2> QED
    BY <2>2, <2>3, NextNumberIsNextPacket
<1>9. ASSUME NEW i \in 2 .. Len(c)
      PROVE  c[i] = c[i - 1] + 1
  <2>1. CASE i <= L
    <3>1. i \in 2 .. L /\ i - 1 \in 1 .. L /\ i \in 1 .. L
      BY <1>2, <2>1
    <3>2. r.consumed[i] = r.consumed[i - 1] + 1
      BY <3>1 DEF InOrder, L
    <3> QED
      BY <1>2, <3>1, <3>2
  <2>2. CASE ~(i <= L)
    <3>1. PICK j \in 1 .. n : i = L + j
      <4>1. i - L \in 1 .. n /\ i = L + (i - L)
        BY <1>1, <1>2, <2>2
      <4> QED
        BY <4>1
    <3>2. L + j > 1
      BY <1>2, <3>1
    <3>3. c[L + j] = c[L + j - 1] + 1
      BY <1>8, <3>2
    <3> QED
      BY <1>1, <1>2, <3>1, <3>3
  <2> QED
    BY <2>1, <2>2
<1>10. ASSUME isInitiator, c # <<>>
       PROVE  c[1] = 1
  <2>1. CASE L # 0
    <3>1. 1 \in 1 .. L /\ r.consumed # <<>>
      BY <1>2, <1>7, <2>1
    <3> QED
      BY <1>2, <1>10, <3>1 DEF InOrder
  <2>2. CASE L = 0
    <3>1. n # 0
      BY <1>1, <1>2, <1>10, <2>2
    <3>2. 1 \in 1 .. n /\ L + 1 = 1
      BY <1>1, <2>2, <3>1
    <3>3. PacketSeq(c[1]) = first /\ c[1] \in Packets
      <4>1. PacketSeq(c[L + 1]) = first + 1 - 1
        BY <1>2, <3>2
      <4>2. 1 \in 1 .. L + n
        BY <1>1, <2>2, <3>1
      <4> QED
        BY <1>3, <1>5, <3>2, <4>1, <4>2
    <3>4. r.ackNr = PacketSeq(0)
      BY <1>7, <2>2 DEF InOrder, PacketSeq
    <3>5. 0 \in 0 .. NumData + 1
      BY ReceiverAssumption
    <3>6. c[1] = 0 + 1
      BY <3>3, <3>4, <3>5, NextNumberIsNextPacket DEF first
    <3> QED
      BY <3>6
  <2> QED
    BY <2>1, <2>2
<1>11. ASSUME c = <<>>
       PROVE  after.ackNr = SeqAdd(FirstSeq, -1)
  <2>1. L = 0 /\ n = 0
    BY <1>1, <1>2, <1>11
  <2> QED
    BY <1>1, <1>7, <2>1 DEF InOrder
<1> QED
  BY <1>9, <1>10, <1>11 DEF InOrder, c, after

\* A packet enters the queue between two runs of the loop, or before one.
LEMMA AfterQueueingKeeps ==
    ASSUME LoopOK(Loop), NEW i \in Packets
    PROVE  /\ LoopOK(AfterQueueing(i))
           /\ SeqAdd(AfterQueueing(i).ackNr, 1) \notin QKeys(AfterQueueing(i).queue) \ {0}
           /\ ShortStream /\ InOrder(Loop) => InOrder(AfterQueueing(i))
<1> DEFINE room == IF IsAtCapacity(recvPacketQueue, QueueCapacity)
                   THEN ProcessReceivedPackets(Loop) ELSE Loop
           q == Enqueue(room.queue, QueueCapacity, PacketSeq(i), i)
           queued == [ackNr |-> room.ackNr, queue |-> q, consumed |-> room.consumed]
<1>1. LoopOK(room)
  BY ProcessKeeps
<1>2. ShortStream /\ InOrder(Loop) => InOrder(room)
  BY ProcessInOrder
<1>3. AfterQueueing(i) = ProcessReceivedPackets([room EXCEPT !.queue = q])
  BY DEF AfterQueueing, Loop
<1> HIDE DEF room
<1>4. QueueOK(q)
  BY <1>1, EnqueueKeeps DEF LoopOK
<1> HIDE DEF q
<1>5. [room EXCEPT !.queue = q] = queued
  BY <1>1 DEF LoopOK
<1>6. /\ queued.ackNr = room.ackNr /\ queued.queue = q /\ queued.consumed = room.consumed
      /\ queued = [ackNr |-> queued.ackNr, queue |-> queued.queue, consumed |-> queued.consumed]
  OBVIOUS
<1> HIDE DEF queued
<1>7. LoopOK(queued)
  BY <1>1, <1>4, <1>6 DEF LoopOK
<1>8. ShortStream /\ InOrder(Loop) => InOrder(queued)
  BY <1>2, <1>6 DEF InOrder
<1> QED
  BY <1>3, <1>5, <1>7, <1>8, ProcessKeeps, ProcessInOrder

-----------------------------------------------------------------------------
(* The invariant *)

\* The empty queue is well formed.
LEMMA EmptyQueueOK == QueueOK(EmptyQueue) /\ QKeys(EmptyQueue) = {}
<1>1. QKeys(EmptyQueue) = {} /\ EmptyQueue.oldest = NoKey
  BY DEF QKeys, EmptyQueue
<1>2. EmptyQueue.items \in [{} -> Packets] /\ EmptyQueue = [items |-> EmptyQueue.items, oldest |-> EmptyQueue.oldest]
  BY DEF EmptyQueue
<1>3. Cardinality({}) <= QueueCapacity
  BY FS_EmptySet, ReceiverAssumption
<1> QED
  BY <1>1, <1>2, <1>3 DEF QueueOK, OldestOf

\* The types of the queue and of what is consumed follow from LoopOK.
LEMMA QueueType ==
    ASSUME NEW q, QueueOK(q)
    PROVE  /\ QKeys(q) \subseteq SeqNrs
           /\ q \in [items : [QKeys(q) -> Packets], oldest : SeqNrs \cup {NoKey}]
<1>1. q.oldest \in SeqNrs \cup {NoKey}
  BY SmallestKeyIsLeast DEF QueueOK, OldestOf
<1> QED
  BY <1>1 DEF QueueOK

LEMMA RecvInitEstablishes == RecvInit => RecvIInv /\ RecvOrder
<1> SUFFICES ASSUME RecvInit PROVE RecvIInv /\ RecvOrder
  OBVIOUS
<1>1. SeqAdd(FirstSeq, -1) \in SeqNrs /\ 0 \in SeqNrs
  BY SeqAddType, ReceiverAssumption, SeqModAssumption DEF SeqNrs
<1>2. localAckNr \in SeqNrs /\ consumed = <<>> /\ recvPacketQueue = EmptyQueue
  BY <1>1 DEF RecvInit
<1>3. LoopOK(Loop)
  BY <1>2, EmptyQueueOK DEF LoopOK, Loop
<1>4. isInitiator \in BOOLEAN
  BY DEF RecvInit
<1>5. localState \in {"SYN_SENT", "SYN_RECV"} /\ (isInitiator => localState # "SYN_RECV")
  BY DEF RecvInit
<1>6. RecvTypeOK
  <2>1. localFinPacket \in BOOLEAN /\ closedForWriting \in BOOLEAN /\ remoteFinPacket \in {NoPacket, FIN}
    BY DEF RecvInit
  <2>2. consumed \in Seq(Packets)
    BY <1>2
  <2> QED
    BY <1>2, <1>4, <1>5, <2>1, <2>2, EmptyQueueOK, QueueType DEF RecvTypeOK
<1>7. NothingYet /\ NothingDeliverableWaits
  BY <1>2, <1>5, EmptyQueueOK DEF NothingYet, NothingDeliverableWaits
<1>8. RecvOrder
  BY <1>2, <1>5 DEF RecvOrder, ConsumedInOrder
<1> QED
  BY <1>3, <1>6, <1>7, <1>8 DEF RecvIInv

\* Queueing a packet keeps the invariant, whatever becomes of the FIN.
LEMMA QueueingPreserves ==
    ASSUME RecvIInv, NEW i \in Packets, localState = "CONNECTED",
           localAckNr' = AfterQueueing(i).ackNr,
           recvPacketQueue' = AfterQueueing(i).queue,
           consumed' = AfterQueueing(i).consumed,
           localState' \in {"CONNECTED", "CLOSED", "CLOSE_WAIT"},
           isInitiator' = isInitiator,
           remoteFinPacket' \in {NoPacket, FIN},
           localFinPacket' \in BOOLEAN, closedForWriting' \in BOOLEAN
    PROVE  RecvIInv' /\ (ShortStream /\ RecvOrder => RecvOrder')
<1> DEFINE after == AfterQueueing(i)
<1>1. LoopOK(Loop)
  BY DEF RecvIInv
<1>2. /\ LoopOK(after)
      /\ SeqAdd(after.ackNr, 1) \notin QKeys(after.queue) \ {0}
      /\ ShortStream /\ InOrder(Loop) => InOrder(after)
  BY <1>1, AfterQueueingKeeps
<1>3. Loop' = after
  BY <1>2 DEF LoopOK, Loop
<1> HIDE DEF after
<1>4. /\ localAckNr' = after.ackNr /\ recvPacketQueue' = after.queue /\ consumed' = after.consumed
  BY DEF after
<1>5. LoopOK(Loop)'
  <2>1. LoopOK(Loop)' <=> LoopOK(Loop')
    BY DEF LoopOK, QueueOK, Loop, QKeys, OldestOf, SmallestKey, PacketSeq, SeqAdd
  <2> QED
    BY <1>2, <1>3, <2>1
<1>6. RecvTypeOK'
  <2>1. isInitiator' \in BOOLEAN
    BY DEF RecvIInv, RecvTypeOK
  <2>2. localAckNr' \in SeqNrs /\ consumed' \in Seq(Packets) /\ QueueOK(recvPacketQueue')
    BY <1>2, <1>4 DEF LoopOK
  <2>3. /\ QKeys(recvPacketQueue') \subseteq SeqNrs
        /\ recvPacketQueue' \in [items : [QKeys(recvPacketQueue') -> Packets], oldest : SeqNrs \cup {NoKey}]
    BY <2>2, QueueType
  <2> QED
    BY <2>1, <2>2, <2>3 DEF RecvTypeOK, QKeys
<1>7. NothingYet'
  BY DEF NothingYet
<1>8. NothingDeliverableWaits'
  BY <1>2, <1>4 DEF NothingDeliverableWaits, QKeys
<1>9. ASSUME ShortStream, RecvOrder
      PROVE  RecvOrder'
  <2>1. InOrder(after)
    BY <1>2, <1>9 DEF RecvOrder
  <2>2. InOrder(Loop)'
    BY <1>4, <2>1 DEF InOrder, Loop
  <2>3. ConsumedInOrder'
    BY <1>4, <2>1 DEF InOrder, ConsumedInOrder
  <2> QED
    BY <2>2, <2>3 DEF RecvOrder
<1> QED
  BY <1>5, <1>6, <1>7, <1>8, <1>9 DEF RecvIInv

\* Every step keeps the invariant, and in a short stream the order.
LEMMA RecvNextPreserves ==
    ASSUME RecvIInv, [RecvNext]_recvVars
    PROVE  RecvIInv' /\ (ShortStream /\ RecvOrder => RecvOrder')
<1>1. /\ isInitiator \in BOOLEAN /\ localFinPacket \in BOOLEAN /\ closedForWriting \in BOOLEAN
      /\ remoteFinPacket \in {NoPacket, FIN} /\ LoopOK(Loop)
  BY DEF RecvIInv, RecvTypeOK
<1>2. localAckNr \in SeqNrs /\ consumed \in Seq(Packets) /\ QueueOK(recvPacketQueue)
  BY <1>1 DEF LoopOK, Loop
<1>3. FIN \in Packets
  BY ReceiverAssumption DEF FIN, Packets
<1>4. CASE HandleAtSynSent
  <2>1. /\ consumed = <<>> /\ QKeys(recvPacketQueue) = {}
        /\ localAckNr' = SeqAdd(FirstSeq, -1) /\ localState' = "CONNECTED"
        /\ UNCHANGED <<isInitiator, recvPacketQueue, remoteFinPacket, localFinPacket,
                       closedForWriting, consumed>>
    BY <1>4 DEF HandleAtSynSent, RecvIInv, NothingYet
  <2>2. localAckNr' \in SeqNrs
    BY <2>1, SeqAddType, ReceiverAssumption DEF SeqNrs
  <2>3. RecvTypeOK'
    BY <2>1, <2>2 DEF RecvIInv, RecvTypeOK, QKeys
  <2>4. LoopOK(Loop)'
    BY <1>2, <2>1, <2>2 DEF LoopOK, Loop, QueueOK, QKeys
  <2>5. NothingYet' /\ NothingDeliverableWaits' /\ (RecvOrder => RecvOrder')
    BY <2>1 DEF NothingYet, NothingDeliverableWaits, QKeys, RecvOrder, ConsumedInOrder, InOrder, Loop
  <2> QED
    BY <2>3, <2>4, <2>5 DEF RecvIInv
<1>5. ASSUME NEW i \in Packets, HandleAtSynReceived(i)
      PROVE  RecvIInv' /\ (ShortStream /\ RecvOrder => RecvOrder')
  <2>1. /\ consumed = <<>> /\ QKeys(recvPacketQueue) = {} /\ localState = "SYN_RECV"
        /\ localAckNr' = PacketSeq(i) /\ localState' = "CONNECTED" /\ consumed' = Append(consumed, i)
        /\ UNCHANGED <<isInitiator, recvPacketQueue, remoteFinPacket, localFinPacket, closedForWriting>>
    BY <1>5 DEF HandleAtSynReceived, RecvIInv, NothingYet
  <2>2. localAckNr' \in SeqNrs
    BY <2>1, PacketSeqType DEF Packets
  <2>3. consumed' \in Seq(Packets) /\ Len(consumed') = 1 /\ consumed'[1] = i /\ consumed' # <<>>
    BY <1>2, <2>1
  <2>4. RecvTypeOK'
    BY <2>1, <2>2, <2>3 DEF RecvIInv, RecvTypeOK, QKeys
  <2>5. LoopOK(Loop)'
    BY <1>2, <2>1, <2>2, <2>3 DEF LoopOK, Loop, QueueOK, QKeys
  <2>6. NothingYet' /\ NothingDeliverableWaits'
    BY <2>1 DEF NothingYet, NothingDeliverableWaits, QKeys
  <2>7. RecvOrder => RecvOrder'
    <3>1. ASSUME RecvOrder
          PROVE  ~isInitiator'
      BY <2>1, <3>1 DEF RecvOrder
    <3> QED
      BY <2>1, <2>3, <3>1 DEF RecvOrder, ConsumedInOrder, InOrder, Loop
  <2> QED
    BY <2>4, <2>5, <2>6, <2>7 DEF RecvIInv
<1>6. ASSUME NEW i \in Packets, HandleData(i)
      PROVE  RecvIInv' /\ (ShortStream /\ RecvOrder => RecvOrder')
  <2>1. /\ localState = "CONNECTED"
        /\ localAckNr' = AfterQueueing(i).ackNr
        /\ recvPacketQueue' = AfterQueueing(i).queue
        /\ consumed' = AfterQueueing(i).consumed
        /\ UNCHANGED <<isInitiator, localState, remoteFinPacket, localFinPacket, closedForWriting>>
    BY <1>6 DEF HandleData
  <2> QED
    BY <1>1, <2>1, QueueingPreserves
<1>7. ASSUME NEW empty \in BOOLEAN, HandleFin(empty)
      PROVE  RecvIInv' /\ (ShortStream /\ RecvOrder => RecvOrder')
  <2>1. /\ localState = "CONNECTED"
        /\ localAckNr' = AfterQueueing(FIN).ackNr
        /\ recvPacketQueue' = AfterQueueing(FIN).queue
        /\ consumed' = AfterQueueing(FIN).consumed
        /\ remoteFinPacket' = FIN /\ localFinPacket' = TRUE /\ closedForWriting' = TRUE
        /\ localState' \in {"CONNECTED", "CLOSED", "CLOSE_WAIT"}
        /\ isInitiator' = isInitiator
    BY <1>7 DEF HandleFin
  <2>2. localFinPacket' \in BOOLEAN /\ closedForWriting' \in BOOLEAN
    BY <2>1
  <2> QED
    BY <1>1, <1>3, <2>1, <2>2, QueueingPreserves
<1>8. CASE LocalClose
  <2>1. /\ localState' = "CLOSE_WAIT" /\ localFinPacket' = TRUE
        /\ UNCHANGED <<isInitiator, localAckNr, recvPacketQueue, remoteFinPacket,
                       closedForWriting, consumed>>
    BY <1>8 DEF LocalClose
  <2>2. RecvTypeOK'
    BY <2>1 DEF RecvIInv, RecvTypeOK, QKeys
  <2>3. LoopOK(Loop)'
    BY <1>1, <2>1 DEF LoopOK, Loop, QueueOK, QKeys
  <2>4. NothingYet' /\ NothingDeliverableWaits' /\ (RecvOrder => RecvOrder')
    BY <2>1 DEF NothingYet, NothingDeliverableWaits, RecvOrder, ConsumedInOrder
  <2> QED
    BY <2>2, <2>3, <2>4 DEF RecvIInv
<1>9. CASE HandleReset
  <2>1. /\ localState' = "RESET" /\ recvPacketQueue' = EmptyQueue /\ remoteFinPacket' = NoPacket
        /\ UNCHANGED <<isInitiator, localAckNr, localFinPacket, closedForWriting, consumed>>
    BY <1>9 DEF HandleReset
  <2>2. QueueOK(recvPacketQueue')
    BY <2>1, EmptyQueueOK
  <2>3. /\ QKeys(recvPacketQueue') \subseteq SeqNrs
        /\ recvPacketQueue' \in [items : [QKeys(recvPacketQueue') -> Packets], oldest : SeqNrs \cup {NoKey}]
    BY <2>2, QueueType
  <2>4. RecvTypeOK'
    BY <1>1, <1>2, <2>1, <2>3 DEF RecvTypeOK, QKeys
  <2>5. LoopOK(Loop)'
    BY <1>1, <2>1, <2>2 DEF LoopOK, Loop, QueueOK, QKeys
  <2>6. NothingYet' /\ NothingDeliverableWaits' /\ (RecvOrder => RecvOrder')
    BY <2>1 DEF NothingYet, NothingDeliverableWaits, RecvOrder, ConsumedInOrder
  <2> QED
    BY <2>4, <2>5, <2>6 DEF RecvIInv
<1>10. CASE UNCHANGED recvVars
  <2>1. UNCHANGED <<isInitiator, localState, localAckNr, recvPacketQueue, remoteFinPacket,
                    localFinPacket, closedForWriting, consumed>>
    BY <1>10 DEF recvVars
  <2>2. RecvTypeOK' /\ NothingYet' /\ NothingDeliverableWaits'
    BY <2>1 DEF RecvIInv, RecvTypeOK, NothingYet, NothingDeliverableWaits, QKeys
  <2>3. LoopOK(Loop)'
    BY <1>1, <2>1 DEF LoopOK, Loop, QueueOK, QKeys
  <2>4. RecvOrder => RecvOrder'
    BY <2>1 DEF RecvOrder, ConsumedInOrder, InOrder, Loop
  <2> QED
    BY <2>2, <2>3, <2>4 DEF RecvIInv
<1> QED
  BY <1>4, <1>5, <1>6, <1>7, <1>8, <1>9, <1>10 DEF RecvNext

-----------------------------------------------------------------------------
(* The theorems *)

\* Whatever the network does with a stream of any length, the queue is well
\* formed, ackNr follows what is consumed, and nothing deliverable waits.
THEOREM RecvInvariance == RecvSpec => []RecvIInv
<1>1. RecvIInv /\ [RecvNext]_recvVars => RecvIInv'
  BY RecvNextPreserves
<1> QED
  BY <1>1, RecvInitEstablishes, PTL DEF RecvSpec

\* The variables of the receiver keep their types.
THEOREM RecvTypeCorrect == RecvSpec => []RecvTypeOK
<1>1. RecvIInv => RecvTypeOK
  BY DEF RecvIInv
<1> QED
  BY <1>1, RecvInvariance, PTL

\* The number a connection acknowledges is that of the last packet it has
\* consumed: never of a packet that still waits or never came.
THEOREM AcknowledgesWhatItConsumed == RecvSpec => []AckNrIsLastConsumed
<1>1. RecvIInv => AckNrIsLastConsumed
  BY DEF RecvIInv, LoopOK, Loop, AckNrIsLastConsumed
<1> QED
  BY <1>1, RecvInvariance, PTL

\* The cached #oldestKey is the smallest key, and the queue within its
\* capacity, after any sequence of enqueue, eviction and dequeue.
THEOREM OldestKeyIsRight == RecvSpec => []OldestKeyIsSmallest
<1>1. RecvIInv => OldestKeyIsSmallest
  BY DEF RecvIInv, LoopOK, Loop, QueueOK, OldestKeyIsSmallest
<1> QED
  BY <1>1, RecvInvariance, PTL

\* A handler leaves no deliverable packet in the queue but one with number 0.
THEOREM DeliverableIsDelivered == RecvSpec => []NothingDeliverableWaits
<1>1. RecvIInv => NothingDeliverableWaits
  BY DEF RecvIInv
<1> QED
  BY <1>1, RecvInvariance, PTL

\* A stream shorter than one round of the numbers is delivered in order,
\* without gaps and without duplicates.  In a longer one an old duplicate that
\* stayed in the queue is delivered again when its number comes round.
THEOREM DeliveryInOrder ==
    ASSUME ShortStream
    PROVE  RecvSpec => []ConsumedInOrder
<1>1. RecvInit => RecvIInv /\ RecvOrder
  BY RecvInitEstablishes
<1>2. RecvIInv /\ RecvOrder /\ [RecvNext]_recvVars => RecvIInv' /\ RecvOrder'
  BY RecvNextPreserves
<1>3. RecvIInv /\ RecvOrder => ConsumedInOrder
  BY DEF RecvOrder
<1> QED
  BY <1>1, <1>2, <1>3, PTL DEF RecvSpec

-----------------------------------------------------------------------------
(* Selective acknowledgements *)

\* The longest mask that the length field can announce covers less than a round
\* of numbers: 255 bytes are 2040 of 65536.
MaskFits == (LengthMod - 1) * BitsPerByte + 2 <= SeqMod

\* The number that bit b of a mask with this base stands for.
BitNr(base, b) == SeqAdd(SeqAdd(base, 2), b)

\* The length field cuts a mask.
LEMMA WireCuts ==
    ASSUME NEW base, NEW bits, NEW bytes
    PROVE  LET m == OnTheWire([base |-> base, bits |-> bits, bytes |-> bytes])
           IN  /\ m.base = base
               /\ m.bytes = bytes % LengthMod
               /\ m.bits = {b \in bits : b < (bytes % LengthMod) * BitsPerByte}
BY DEF OnTheWire

\* What arrives of the mask: its bits are the distances of queued numbers, those
\* of them that both its lengths cover.
LEMMA WireMask ==
    ASSUME NEW ack \in SeqNrs, NEW K \in SUBSET SeqNrs
    PROVE  LET m == OnTheWire(CreateMask(ack, K))
               first == SeqAdd(ack, 2)
               sent == CreateMask(ack, K).bytes
           IN  /\ m.base = ack
               /\ first \in SeqNrs
               /\ m.bytes = sent % LengthMod
               /\ m.bits = {b \in BitsOf(first, K) : b < sent * BitsPerByte /\ b < m.bytes * BitsPerByte}
               /\ \A b \in m.bits : b \in SeqNrs /\ BitNr(ack, b) \in K
<1> DEFINE first == SeqAdd(ack, 2)
           dists == {SeqDiff(k, first) : k \in K}
           sent == MaskBytes(CHOOSE d \in dists : \A e \in dists : e <= d)
           bits == {b \in BitsOf(first, K) : b < sent * BitsPerByte}
           m == OnTheWire(CreateMask(ack, K))
<1>1. first \in SeqNrs
  BY SeqAddType, SeqModAssumption DEF SeqNrs
<1>2. CreateMask(ack, K) = [base |-> ack, bits |-> bits, bytes |-> sent]
  BY DEF CreateMask
<1> HIDE DEF sent, bits
<1>3. CreateMask(ack, K).bytes = sent
  BY <1>2
<1>4. m.base = ack /\ m.bytes = sent % LengthMod /\ m.bits = {b \in bits : b < m.bytes * BitsPerByte}
  BY <1>2, WireCuts
<1> HIDE DEF m, first
<1>5. m.bits = {b \in BitsOf(first, K) : b < sent * BitsPerByte /\ b < m.bytes * BitsPerByte}
  BY <1>4 DEF bits
<1>6. ASSUME NEW b \in m.bits
      PROVE  b \in SeqNrs /\ BitNr(ack, b) \in K
  <2>1. PICK k \in K : b = SeqDiff(k, first)
    BY <1>5 DEF BitsOf
  <2>2. k \in SeqNrs
    OBVIOUS
  <2>3. b \in SeqNrs /\ SeqAdd(first, b) = k
    BY <1>1, <2>1, <2>2, SeqDiffWraps, SeqAddSeqDiff
  <2> QED
    BY <2>3 DEF BitNr, first
<1> QED
  BY <1>1, <1>3, <1>4, <1>5, <1>6 DEF first, m

\* Whatever the sender reads from a mask as received is in the receiver's queue:
\* wrapped numbers, old duplicates and a cut-off mask invent nothing.
THEOREM SackNeverInvents == RecvSpec => []SackIsSound
<1>1. ASSUME RecvIInv
      PROVE  RemoteReceived(Announced) \subseteq Queued
  <2>1. localAckNr \in SeqNrs /\ Queued \in SUBSET SeqNrs
    BY <1>1 DEF RecvIInv, RecvTypeOK, Queued
  <2>2. Announced.base = localAckNr /\ \A b \in Announced.bits : BitNr(localAckNr, b) \in Queued
    BY <2>1, WireMask DEF Announced
  <2> HIDE DEF Announced, Queued
  <2> QED
    BY <2>2 DEF RemoteReceived, BitNr
<1>2. RecvIInv => SackIsSound
  BY <1>1 DEF SackIsSound
<1> QED
  BY <1>2, RecvInvariance, PTL

\* Rounding up gives a number, and enough.
LEMMA CeilDivType ==
    ASSUME NEW a \in Nat, NEW b \in Nat \ {0}
    PROVE  CeilDiv(a, b) \in Nat
BY DEF CeilDiv

\* The mask that create() makes of a queue that is not empty has a length.
LEMMA MaskLength ==
    ASSUME NEW ack \in SeqNrs, NEW K \in SUBSET SeqNrs, K # {}
    PROVE  LET first == SeqAdd(ack, 2)
               sent == CreateMask(ack, K).bytes
           IN  /\ sent \in Nat
               /\ \E last \in SeqNrs : /\ sent = MaskBytes(last)
                                       /\ \A k \in K : SeqDiff(k, first) <= last
                                       /\ \E k \in K : SeqDiff(k, first) = last
<1> DEFINE first == SeqAdd(ack, 2)
           dists == {SeqDiff(k, first) : k \in K}
           last == CHOOSE d \in dists : \A e \in dists : e <= d
<1>1. first \in SeqNrs
  BY SeqAddType, SeqModAssumption DEF SeqNrs
<1> HIDE DEF first
<1>2. dists \in SUBSET SeqNrs /\ dists # {}
  BY <1>1, SeqDiffWraps
<1>3. \E d \in dists : \A e \in dists : e <= d
  <2> HIDE DEF dists
  <2> QED
    BY <1>2, GreatestSeqNr
<1>4. last \in dists /\ \A e \in dists : e <= last
  <2> HIDE DEF dists
  <2> QED
    BY <1>3
<1>5. CreateMask(ack, K).bytes = MaskBytes(last)
  BY DEF CreateMask, first
<1> HIDE DEF last
<1>6. last \in SeqNrs /\ (\A k \in K : SeqDiff(k, first) <= last) /\ \E k \in K : SeqDiff(k, first) = last
  BY <1>2, <1>4
<1>7. MaskBytes(last) \in Nat
  <2>1. last + 1 \in Nat /\ BitsPerByte \in Nat \ {0} /\ MinBytes \in Nat \ {0}
    BY <1>6, SackAssumption, SeqModAssumption DEF SeqNrs
  <2>2. CeilDiv(last + 1, BitsPerByte) \in Nat
    BY <2>1, CeilDivType
  <2>3. CeilDiv(CeilDiv(last + 1, BitsPerByte), MinBytes) \in Nat
    BY <2>1, <2>2, CeilDivType
  <2> QED
    BY <2>1, <2>3 DEF MaskBytes
<1> QED
  BY <1>5, <1>6, <1>7 DEF first

\* What arrives is no longer than what was sent, and covers less than a round.
LEMMA WireLength ==
    ASSUME NEW sent \in Nat
    PROVE  LET n == (sent % LengthMod) * BitsPerByte
           IN  /\ n \in Nat
               /\ n <= sent * BitsPerByte
               /\ MaskFits => n + 2 <= SeqMod
<1> DEFINE w == sent % LengthMod
<1>1. LengthMod \in Nat /\ LengthMod > 0 /\ BitsPerByte \in Nat /\ SeqMod \in Nat
  BY SackAssumption, SeqModAssumption
<1>2. w \in Nat /\ w <= LengthMod - 1 /\ w <= sent
  BY <1>1
<1> HIDE DEF w
<1>3. w * BitsPerByte \in Nat /\ (LengthMod - 1) * BitsPerByte \in Nat /\ sent * BitsPerByte \in Nat
  BY <1>1, <1>2
<1>4. w * BitsPerByte <= sent * BitsPerByte /\ w * BitsPerByte <= (LengthMod - 1) * BitsPerByte
  BY <1>1, <1>2
<1> QED
  BY <1>1, <1>3, <1>4 DEF MaskFits, w

\* Bits stand for different numbers, which are the numbers from ackNr + 2 on.
LEMMA BitNumbers ==
    ASSUME NEW ack \in SeqNrs, NEW b \in Nat, b + 2 < SeqMod
    PROVE  /\ BitNr(ack, b) \in SeqNrs
           /\ SeqDiff(BitNr(ack, b), SeqAdd(ack, 2)) = b
           /\ BitNr(ack, b) = SeqAdd(ack, b + 2)
<1>1. SeqMod \in Nat /\ SeqMod > 3 /\ ack \in Nat /\ ack < SeqMod
  BY SeqModAssumption DEF SeqNrs
<1>2. b \in SeqNrs /\ b \in 0 .. SeqMod /\ b + 2 \in 0 .. SeqMod /\ 2 \in 0 .. SeqMod
  BY <1>1 DEF SeqNrs
<1> DEFINE f == SeqAdd(ack, 2)
<1>3. f \in SeqNrs /\ f = IF ack + 2 < SeqMod THEN ack + 2 ELSE ack + 2 - SeqMod
  BY <1>2, SeqAddWraps, SeqAddType, <1>1
<1> HIDE DEF f
<1>4. SeqAdd(f, b) = (IF f + b < SeqMod THEN f + b ELSE f + b - SeqMod) /\ SeqDiff(SeqAdd(f, b), f) = b
  BY <1>2, <1>3, SeqAddWraps, SeqDiffSeqAdd
<1>5. SeqAdd(ack, b + 2) = IF ack + (b + 2) < SeqMod THEN ack + (b + 2) ELSE ack + (b + 2) - SeqMod
  BY <1>2, SeqAddWraps
<1>6. SeqAdd(f, b) \in SeqNrs
  <2>1. f \in Int /\ b \in Int
    BY <1>1, <1>3 DEF SeqNrs
  <2> QED
    BY <2>1, SeqAddType
<1>7. SeqAdd(f, b) = SeqAdd(ack, b + 2)
  BY <1>1, <1>3, <1>4, <1>5
<1> QED
  BY <1>4, <1>6, <1>7 DEF BitNr, f

\* The first bit stands for the number after the next one.
LEMMA DistanceFromFirstBit ==
    ASSUME NEW ack \in SeqNrs, NEW k \in SeqNrs, SeqGt(k, ack), k # SeqAdd(ack, 1)
    PROVE  /\ SeqDiff(k, SeqAdd(ack, 2)) + 2 = SeqDiff(k, ack)
           /\ SeqDiff(k, ack) \in Int
<1>1. SeqMod \in Nat /\ SeqMod > 3 /\ ack \in Nat /\ ack < SeqMod /\ k \in Nat /\ k < SeqMod
  BY SeqModAssumption DEF SeqNrs
<1>2. 1 \in 0 .. SeqMod /\ 2 \in 0 .. SeqMod
  BY <1>1
<1> DEFINE f == SeqAdd(ack, 2)
<1>3. SeqAdd(ack, 1) = IF ack + 1 < SeqMod THEN ack + 1 ELSE ack + 1 - SeqMod
  BY <1>2, SeqAddWraps
<1>4. f \in SeqNrs /\ f = IF ack + 2 < SeqMod THEN ack + 2 ELSE ack + 2 - SeqMod
  BY <1>1, <1>2, SeqAddWraps, SeqAddType
<1>5. SeqDiff(k, ack) = (IF ack <= k THEN k - ack ELSE k - ack + SeqMod) /\ k # ack
  BY SeqDiffWraps DEF SeqGt, SeqLt
<1> HIDE DEF f
<1>6. SeqDiff(k, f) = IF f <= k THEN k - f ELSE k - f + SeqMod
  BY <1>4, SeqDiffWraps
<1>7. SeqDiff(k, f) + 2 = SeqDiff(k, ack)
  BY <1>1, <1>3, <1>4, <1>5, <1>6
<1>8. SeqDiff(k, ack) \in Int
  BY <1>1, <1>5
<1> QED
  BY <1>7, <1>8 DEF f

\* A queued number ahead of ackNr that is not the next one has a bit.
LEMMA AheadHasBit ==
    ASSUME NEW ack \in SeqNrs, NEW k \in SeqNrs, SeqGt(k, ack), k # SeqAdd(ack, 1)
    PROVE  SeqGe(k, SeqAdd(ack, 2))
<1> DEFINE f == SeqAdd(ack, 2)
<1>1. SeqDiff(k, f) + 2 = SeqDiff(k, ack) /\ SeqDiff(k, ack) \in Int
  BY DistanceFromFirstBit
<1>2. SeqDiff(k, ack) < HalfSeq
  BY DEF SeqGt, SeqLt
<1>3. f \in SeqNrs /\ HalfSeq \in Int
  <2>1. ack \in Int /\ 2 \in Int /\ SeqMod \in Nat
    BY SeqModAssumption DEF SeqNrs
  <2>2. f \in SeqNrs
    BY <2>1, SeqAddType
  <2>3. HalfSeq \in Int
    BY <2>1 DEF HalfSeq
  <2> QED
    BY <2>2, <2>3
<1>4. SeqDiff(k, f) \in Int
  BY <1>3, SeqDiffWraps, SeqModAssumption DEF SeqNrs
<1> HIDE DEF f
<1>5. SeqDiff(k, f) < HalfSeq
  BY <1>1, <1>2, <1>3, <1>4
<1> QED
  BY <1>5 DEF SeqGe, SeqGt, SeqLt, f

\* The two readers of a mask never contradict each other or the queue: what one
\* takes for received the other does not take for lost, together they decide on
\* every number the mask covers, and nothing queued ahead of ackNr and within
\* the mask is taken for lost.
THEOREM SackReadersNeverDisagree ==
    ASSUME MaskFits
    PROVE  RecvSpec => []SackReadersAgree
<1>1. ASSUME RecvIInv, Queued # {}, ~PassedOver
      PROVE  LET lost == RemoteNotReceived(Announced)
                 got  == RemoteReceived(Announced)
             IN  /\ got \cap lost = {}
                 /\ got \cup lost = {SeqAdd(localAckNr, d) : d \in 1 .. Announced.bytes * BitsPerByte + 1}
                 /\ \A k \in Queued : SeqGt(k, localAckNr) => k \notin lost
  <2> DEFINE ack == localAckNr
             K == Queued
             m == Announced
             n == m.bytes * BitsPerByte
             first == SeqAdd(ack, 2)
             sent == CreateMask(ack, K).bytes
             got == RemoteReceived(m)
             lost == RemoteNotReceived(m)
             all == {SeqAdd(ack, d) : d \in 1 .. n + 1}
  <2>1. ack \in SeqNrs /\ K \in SUBSET SeqNrs /\ K # {} /\ SeqAdd(ack, 1) \notin K
    BY <1>1 DEF RecvIInv, RecvTypeOK, Queued, PassedOver
  <2>2. m = OnTheWire(CreateMask(ack, K))
    BY DEF Announced
  <2> HIDE DEF ack, K, m, sent
  <2>3. /\ m.base = ack /\ first \in SeqNrs /\ m.bytes = sent % LengthMod
        /\ m.bits = {b \in BitsOf(first, K) : b < sent * BitsPerByte /\ b < n}
        /\ \A b \in m.bits : b \in SeqNrs /\ BitNr(ack, b) \in K
    BY <2>1, <2>2, WireMask DEF sent
  <2>4. sent \in Nat
    BY <2>1, MaskLength DEF sent
  <2>5. n \in Nat /\ n <= sent * BitsPerByte /\ n + 2 <= SeqMod
    BY <2>3, <2>4, WireLength
  <2> HIDE DEF n, first
  <2>6. SeqMod \in Nat /\ sent * BitsPerByte \in Nat
    BY <2>4, SeqModAssumption, SackAssumption
  <2>7. m.bits \subseteq 0 .. n - 1
    <3>1. \A b \in m.bits : b \in Nat /\ b < n
      BY <2>3, SeqModAssumption DEF SeqNrs
    <3> QED
      BY <2>5, <3>1
  <2>8. \A b \in 0 .. n - 1 : /\ SeqDiff(BitNr(ack, b), first) = b
                              /\ BitNr(ack, b) = SeqAdd(ack, b + 2)
    <3>1. \A b \in 0 .. n - 1 : b \in Nat /\ b + 2 < SeqMod
      BY <2>5, <2>6
    <3> QED
      BY <2>1, <3>1, BitNumbers DEF first
  <2>9. got = {BitNr(ack, b) : b \in m.bits}
    BY <2>3 DEF RemoteReceived, BitNr
  <2>10. lost = {SeqAdd(ack, 1)} \cup {BitNr(ack, b) : b \in (0 .. n - 1) \ m.bits}
    BY <2>3 DEF RemoteNotReceived, BitNr, n
  <2> HIDE DEF got, lost
  <2>11. got \subseteq K
    BY <2>3, <2>9
  <2>12. got \cap lost = {}
    <3>1. SUFFICES ASSUME NEW x \in got, x \in lost PROVE FALSE
      OBVIOUS
    <3>2. PICK b \in m.bits : x = BitNr(ack, b)
      BY <2>9
    <3>3. x # SeqAdd(ack, 1)
      BY <2>1, <2>11
    <3>4. PICK c \in (0 .. n - 1) \ m.bits : x = BitNr(ack, c)
      BY <2>10, <3>1, <3>3
    <3>5. b \in 0 .. n - 1 /\ c \in 0 .. n - 1
      BY <2>7
    <3>6. SeqDiff(x, first) = b /\ SeqDiff(x, first) = c
      BY <2>8, <3>2, <3>4, <3>5
    <3> QED
      BY <3>4, <3>6
  <2>13. got \cup lost = all
    <3>1. ASSUME NEW x \in got \cup lost PROVE x \in all
      <4>1. CASE x = SeqAdd(ack, 1)
        <5>1. 1 \in 1 .. n + 1
          BY <2>5
        <5> QED
          BY <4>1, <5>1
      <4>2. CASE x # SeqAdd(ack, 1)
        <5>1. PICK b \in 0 .. n - 1 : x = BitNr(ack, b)
          BY <2>7, <2>9, <2>10, <3>1, <4>2
        <5>2. x = SeqAdd(ack, b + 2) /\ b + 2 \in 1 .. n + 1
          BY <2>5, <2>8, <5>1
        <5> QED
          BY <5>2
      <4> QED
        BY <4>1, <4>2
    <3>2. ASSUME NEW x \in all PROVE x \in got \cup lost
      <4>1. PICK d \in 1 .. n + 1 : x = SeqAdd(ack, d)
        BY <3>2
      <4>2. CASE d = 1
        BY <2>10, <4>1, <4>2
      <4>3. CASE d # 1
        <5>1. PICK b \in 0 .. n - 1 : d = b + 2
          <6>1. d - 2 \in 0 .. n - 1 /\ d = (d - 2) + 2
            BY <2>5, <4>3
          <6> QED
            BY <6>1
        <5>2. x = BitNr(ack, b)
          BY <2>8, <4>1, <5>1
        <5> QED
          BY <2>9, <2>10, <5>2
      <4> QED
        BY <4>2, <4>3
    <3> HIDE DEF all
    <3> QED
      BY <3>1, <3>2
  <2>14. ASSUME NEW k \in K, SeqGt(k, ack)
         PROVE  k \notin lost
    <3>1. SUFFICES ASSUME k \in lost PROVE FALSE
      OBVIOUS
    <3>2. k # SeqAdd(ack, 1) /\ k \in SeqNrs
      BY <2>1
    <3>3. PICK b \in (0 .. n - 1) \ m.bits : k = BitNr(ack, b)
      BY <2>10, <3>1, <3>2
    <3>4. SeqDiff(k, first) = b
      BY <2>8, <3>3
    <3>5. SeqGe(k, first)
      BY <2>1, <2>14, <3>2, AheadHasBit DEF first
    <3>6. b \in BitsOf(first, K)
      BY <3>4, <3>5 DEF BitsOf
    <3>7. b < n /\ b < sent * BitsPerByte
      BY <2>5, <2>6
    <3> QED
      BY <2>3, <3>3, <3>6, <3>7
  <2> QED
    BY <2>12, <2>13, <2>14 DEF ack, K, m, n, got, lost
<1>2. RecvIInv => SackReadersAgree
  BY <1>1 DEF SackReadersAgree
<1> QED
  BY <1>2, RecvInvariance, PTL

-----------------------------------------------------------------------------
(* Nothing queued is left out of the selective acknowledgement *)

\* The packets of the stream are comparable, with the FIN against the first
\* data packet on the edge.
HalfStream == NumData <= HalfSeq

\* A mask over the furthest ahead that a packet may arrive, rounded up to its
\* unit, is within the length field: 32 bits of 2048 are the unit.  The peer's
\* window of 64 packets does not bound this by itself: what is selectively
\* acknowledged leaves the window, and packets further ahead enter it.
WindowFits == PeerWindow + MinBytes * BitsPerByte <= LengthMod * BitsPerByte

\* What is queued arrived no further ahead than PeerWindow, when as much or
\* less was consumed.
NearBy ==
    QKeys(recvPacketQueue) # {} =>
        /\ InOrder(Loop)
        /\ \A k \in QKeys(recvPacketQueue) :
              recvPacketQueue.items[k] <= Len(consumed) + PeerWindow

\* Half a round, twice, is a round.
LEMMA HalfRound == HalfSeq \in Nat /\ HalfSeq + HalfSeq = SeqMod /\ HalfSeq > 1
<1>1. SeqMod \in Nat /\ SeqMod % 2 = 0 /\ SeqMod > 3
  BY SeqModAssumption
<1>2. \A x \in Nat : x % 2 = 0 => x \div 2 \in Nat /\ (x \div 2) + (x \div 2) = x
  OBVIOUS
<1>3. HalfSeq \in Nat /\ HalfSeq + HalfSeq = SeqMod
  BY <1>1, <1>2 DEF HalfSeq
<1> QED
  BY <1>1, <1>3

\* The loop takes packets out of the queue and changes none that stays.
LEMMA ProcessLeaves ==
    ASSUME NEW r, LoopOK(r)
    PROVE  LET after == ProcessReceivedPackets(r)
           IN  /\ QKeys(after.queue) \subseteq QKeys(r.queue)
               /\ \A k \in QKeys(after.queue) : after.queue.items[k] = r.queue.items[k]
               /\ Len(r.consumed) <= Len(after.consumed)
               /\ Len(r.consumed) \in Nat /\ Len(after.consumed) \in Nat
<1> DEFINE first == SeqAdd(r.ackNr, 1)
           n == RunLength(r.ackNr, QKeys(r.queue))
           D == first .. first + n - 1
           after == ProcessReceivedPackets(r)
<1>1. after.queue = Dequeue(r.queue, D)
  BY DEF ProcessReceivedPackets
<1>2. QueueOK(r.queue)
  BY DEF LoopOK
<1>3. n \in Nat
  BY ProcessTakesRun
<1>4. Len(r.consumed) \in Nat /\ Len(after.consumed) = Len(r.consumed) + n
  BY ProcessConsumes
<1> HIDE DEF D, n, after
<1>5. /\ QKeys(after.queue) = QKeys(r.queue) \ D
      /\ \A k \in QKeys(r.queue) \ D : after.queue.items[k] = r.queue.items[k]
  BY <1>1, <1>2, DequeueKeeps
<1> QED
  BY <1>3, <1>4, <1>5 DEF after

\* What is queued when a packet has been handled was queued before or is that
\* packet.
LEMMA QueueingLeaves ==
    ASSUME LoopOK(Loop), NEW i \in Packets, NEW N \in Int, i <= N,
           \A k \in QKeys(recvPacketQueue) : recvPacketQueue.items[k] <= N
    PROVE  /\ \A k \in QKeys(AfterQueueing(i).queue) : AfterQueueing(i).queue.items[k] <= N
           /\ Len(consumed) <= Len(AfterQueueing(i).consumed)
           /\ Len(consumed) \in Nat /\ Len(AfterQueueing(i).consumed) \in Nat
<1> DEFINE room == IF IsAtCapacity(recvPacketQueue, QueueCapacity)
                   THEN ProcessReceivedPackets(Loop) ELSE Loop
           old == room.queue
           q == Enqueue(old, QueueCapacity, PacketSeq(i), i)
           queued == [ackNr |-> room.ackNr, queue |-> q, consumed |-> room.consumed]
<1>1. Loop.queue = recvPacketQueue /\ Loop.consumed = consumed /\ Len(consumed) \in Nat
  BY DEF Loop, LoopOK
<1>2. LoopOK(room)
  BY ProcessKeeps
<1>3. /\ \A k \in QKeys(old) : old.items[k] <= N
      /\ Len(consumed) <= Len(room.consumed) /\ Len(room.consumed) \in Nat
  <2>1. CASE room = Loop
    BY <1>1, <2>1
  <2>2. CASE room = ProcessReceivedPackets(Loop)
    BY <1>1, <2>2, ProcessLeaves
  <2> QED
    BY <2>1, <2>2
<1>4. AfterQueueing(i) = ProcessReceivedPackets([room EXCEPT !.queue = q])
  BY DEF AfterQueueing, Loop
<1> HIDE DEF room
<1>5. QueueOK(old) /\ QueueOK(q)
  BY <1>2, EnqueueKeeps DEF LoopOK
<1> HIDE DEF old
<1>6. \A k \in QKeys(q) : q.items[k] <= N
  <2> DEFINE key == PacketSeq(i)
             kept == IF IsAtCapacity(old, QueueCapacity) THEN QKeys(old) \ {old.oldest} ELSE QKeys(old)
             f == [k \in kept \cup {key} |-> IF k = key THEN i ELSE old.items[k]]
  <2>1. CASE key \in QKeys(old)
    <3>1. q = [old EXCEPT !.items[key] = i]
      BY <2>1 DEF Enqueue
    <3>2. old = [items |-> old.items, oldest |-> old.oldest] /\ old.items \in [QKeys(old) -> Packets]
      BY <1>5 DEF QueueOK
    <3> HIDE DEF q, key
    <3>3. q.items = [old.items EXCEPT ![key] = i]
      BY <3>1, <3>2
    <3> QED
      BY <1>3, <2>1, <3>2, <3>3 DEF QKeys
  <2>2. CASE key \notin QKeys(old)
    <3>1. q.items = f
      BY <2>2 DEF Enqueue
    <3>2. kept \subseteq QKeys(old)
      OBVIOUS
    <3> HIDE DEF q, key, kept
    <3> QED
      BY <1>3, <3>1, <3>2 DEF QKeys
  <2> QED
    BY <2>1, <2>2
<1> HIDE DEF q
<1>7. [room EXCEPT !.queue = q] = queued
  BY <1>2 DEF LoopOK
<1>8. /\ queued.ackNr = room.ackNr /\ queued.queue = q /\ queued.consumed = room.consumed
      /\ queued = [ackNr |-> queued.ackNr, queue |-> queued.queue, consumed |-> queued.consumed]
  OBVIOUS
<1> HIDE DEF queued
<1>9. LoopOK(queued)
  BY <1>2, <1>5, <1>8 DEF LoopOK
<1> DEFINE after == ProcessReceivedPackets(queued)
<1>10. /\ QKeys(after.queue) \subseteq QKeys(q)
       /\ \A k \in QKeys(after.queue) : after.queue.items[k] = q.items[k]
       /\ Len(room.consumed) <= Len(after.consumed) /\ Len(after.consumed) \in Nat
  BY <1>8, <1>9, ProcessLeaves
<1> HIDE DEF after
<1>11. AfterQueueing(i) = after
  BY <1>4, <1>7 DEF after
<1> QED
  BY <1>1, <1>3, <1>6, <1>10, <1>11

\* Handling a packet that may arrive keeps the queued ones near.
LEMMA QueueingStaysNear ==
    ASSUME ShortStream, RecvIInv, RecvOrder, NearBy, NEW i \in Packets, MayArrive(i),
           localState = "CONNECTED", isInitiator' = isInitiator,
           localAckNr' = AfterQueueing(i).ackNr,
           recvPacketQueue' = AfterQueueing(i).queue,
           consumed' = AfterQueueing(i).consumed
    PROVE  NearBy'
<1> DEFINE L == Len(consumed)
           N == L + PeerWindow
           after == AfterQueueing(i)
<1>1. LoopOK(Loop) /\ consumed \in Seq(Packets)
  BY DEF RecvIInv, RecvTypeOK
<1>2. L \in Nat /\ PeerWindow \in Nat /\ MaxAge \in Nat /\ i \in Int
  BY <1>1, ReceiverAssumption DEF Packets
<1>3. N \in Int /\ i <= N
  BY <1>2 DEF MayArrive
<1>4. \A k \in QKeys(recvPacketQueue) : recvPacketQueue.items[k] <= N
  BY DEF NearBy
<1>5. InOrder(after)
  BY <1>1, AfterQueueingKeeps DEF RecvOrder
<1> HIDE DEF N
<1>6. /\ \A k \in QKeys(after.queue) : after.queue.items[k] <= N
      /\ L <= Len(after.consumed) /\ Len(after.consumed) \in Nat
  BY <1>1, <1>3, <1>4, QueueingLeaves
<1>7. LoopOK(after)
  BY <1>1, AfterQueueingKeeps
<1> HIDE DEF after, L
<1>8. /\ consumed' = after.consumed /\ recvPacketQueue' = after.queue
      /\ localAckNr' = after.ackNr
  BY DEF after
<1>9. InOrder(Loop)'
  BY <1>5, <1>8 DEF InOrder, Loop
<1>10. ASSUME NEW k \in QKeys(after.queue)
       PROVE  after.queue.items[k] <= Len(after.consumed) + PeerWindow
  <2>1. after.queue.items[k] \in Int
    BY <1>7 DEF LoopOK, QueueOK, Packets
  <2>2. after.queue.items[k] <= N
    BY <1>6
  <2> QED
    BY <1>2, <1>6, <2>1, <2>2 DEF N
<1> QED
  BY <1>8, <1>9, <1>10 DEF NearBy, QKeys

\* Every step keeps the queued packets near.
LEMMA NextStaysNear ==
    ASSUME ShortStream, RecvIInv, RecvOrder, NearBy, [RecvNext]_recvVars
    PROVE  NearBy'
<1>1. CASE HandleAtSynSent \/ \E i \in Packets : HandleAtSynReceived(i)
  <2>1. QKeys(recvPacketQueue) = {} /\ recvPacketQueue' = recvPacketQueue
    BY <1>1 DEF HandleAtSynSent, HandleAtSynReceived, RecvIInv, NothingYet
  <2> QED
    BY <2>1 DEF NearBy, QKeys
<1>2. ASSUME NEW i \in Packets, MayArrive(i), HandleData(i)
      PROVE  NearBy'
  <2>1. /\ localState = "CONNECTED" /\ isInitiator' = isInitiator
        /\ localAckNr' = AfterQueueing(i).ackNr
        /\ recvPacketQueue' = AfterQueueing(i).queue
        /\ consumed' = AfterQueueing(i).consumed
    BY <1>2 DEF HandleData
  <2> QED
    BY <1>2, <2>1, QueueingStaysNear
<1>3. ASSUME NEW empty \in BOOLEAN, MayArrive(FIN), HandleFin(empty)
      PROVE  NearBy'
  <2>1. /\ localState = "CONNECTED" /\ isInitiator' = isInitiator
        /\ localAckNr' = AfterQueueing(FIN).ackNr
        /\ recvPacketQueue' = AfterQueueing(FIN).queue
        /\ consumed' = AfterQueueing(FIN).consumed
    BY <1>3 DEF HandleFin
  <2>2. FIN \in Packets
    BY ReceiverAssumption DEF FIN, Packets
  <2> QED
    BY <1>3, <2>1, <2>2, QueueingStaysNear
<1>4. CASE LocalClose \/ UNCHANGED recvVars
  <2>1. UNCHANGED <<isInitiator, localAckNr, recvPacketQueue, consumed>>
    BY <1>4 DEF LocalClose, recvVars
  <2> QED
    BY <2>1 DEF NearBy, InOrder, Loop, QKeys
<1>5. CASE HandleReset
  <2>1. QKeys(recvPacketQueue') = {}
    BY <1>5, EmptyQueueOK DEF HandleReset
  <2> QED
    BY <2>1 DEF NearBy, QKeys
<1> QED
  BY <1>1, <1>2, <1>3, <1>4, <1>5 DEF RecvNext

\* A packet is never consumed earlier than in its place.
LEMMA ConsumedAtLeast ==
    ASSUME NEW c \in Seq(Packets), \A j \in 2 .. Len(c) : c[j] = c[j - 1] + 1
    PROVE  \A j \in 1 .. Len(c) : c[j] >= j
<1> DEFINE B == {j \in 1 .. Len(c) : ~(c[j] >= j)}
<1>1. Len(c) \in Nat /\ \A j \in 1 .. Len(c) : c[j] \in Int /\ c[j] >= 1
  BY ReceiverAssumption DEF Packets
<1>2. SUFFICES ASSUME B # {} PROVE FALSE
  OBVIOUS
<1>3. B \in SUBSET Nat
  OBVIOUS
<1>4. PICK j \in B : \A m \in B : j <= m
  <2> HIDE DEF B
  <2> QED
    BY <1>2, <1>3, LeastNat
<1>5. j \in 1 .. Len(c) /\ ~(c[j] >= j)
  BY <1>4
<1>6. j # 1
  BY <1>1, <1>5
<1>7. j - 1 \in 1 .. Len(c) /\ j \in 2 .. Len(c) /\ ~(j <= j - 1)
  BY <1>1, <1>5, <1>6
<1>8. c[j - 1] >= j - 1
  BY <1>4, <1>7
<1> QED
  BY <1>1, <1>5, <1>7, <1>8

\* A number ahead of ackNr is that of a packet further on in the stream, as far
\* ahead as the packet is.
LEMMA AheadIsLater ==
    ASSUME HalfStream, NEW a \in 0 .. NumData + 1, NEW b \in Packets,
           SeqGt(PacketSeq(b), PacketSeq(a))
    PROVE  SeqDiff(PacketSeq(b), PacketSeq(a)) = b - a
<1>1. /\ SeqMod \in Nat /\ NumData \in Nat /\ FirstSeq \in Nat /\ FirstSeq < SeqMod
      /\ SeqMod > 3 /\ NumData <= HalfSeq
      /\ HalfSeq \in Nat /\ HalfSeq + HalfSeq = SeqMod /\ HalfSeq > 1
      /\ a \in Nat /\ a <= NumData + 1 /\ b \in Nat /\ 1 <= b /\ b <= NumData + 1
  BY SeqModAssumption, ReceiverAssumption, HalfRound DEF HalfStream, Packets, SeqNrs
<1>2. ShortStream
  BY <1>1 DEF ShortStream
<1> DEFINE x == PacketSeq(a)
           y == PacketSeq(b)
<1>3. x = IF FirstSeq + a < 1 THEN SeqMod - 1
          ELSE IF FirstSeq + (a - 1) < SeqMod THEN FirstSeq + (a - 1)
          ELSE FirstSeq + (a - 1) - SeqMod
  BY <1>2, PacketSeqOf
<1>4. y = IF FirstSeq + b < 1 THEN SeqMod - 1
          ELSE IF FirstSeq + (b - 1) < SeqMod THEN FirstSeq + (b - 1)
          ELSE FirstSeq + (b - 1) - SeqMod
  <2>1. b \in 0 .. NumData + 1
    BY <1>1
  <2> QED
    BY <1>2, <2>1, PacketSeqOf
<1>5. x \in SeqNrs /\ y \in SeqNrs
  BY <1>1, PacketSeqType
<1>6. x # y /\ SeqDiff(y, x) < HalfSeq
  BY DEF SeqGt, SeqLt
<1> HIDE DEF x, y
<1>7. SeqDiff(y, x) = IF x <= y THEN y - x ELSE y - x + SeqMod
  BY <1>5, SeqDiffWraps
<1>8. x \in Int /\ y \in Int
  BY <1>5, <1>1 DEF SeqNrs
<1>9. SeqDiff(y, x) = b - a
  BY <1>1, <1>3, <1>4, <1>6, <1>7, <1>8
<1> QED
  BY <1>9 DEF x, y

\* Rounding up, in terms of multiplication.
LEMMA CeilDivBounds ==
    ASSUME NEW a \in Nat, NEW b \in Nat \ {0}
    PROVE  /\ CeilDiv(a, b) \in Nat
           /\ a <= CeilDiv(a, b) * b
           /\ CeilDiv(a, b) * b <= a + b - 1
<1> DEFINE x == a + b - 1
           q == x \div b
           r == x % b
<1>1. x \in Nat /\ b \in Int /\ b > 0
  OBVIOUS
<1> HIDE DEF x
<1>2. q \in Nat /\ r \in 0 .. b - 1 /\ x = b * q + r
  BY <1>1
<1>3. CeilDiv(a, b) = q
  BY DEF CeilDiv, x
<1> HIDE DEF q, r
<1>4. b * q = q * b /\ q * b \in Nat
  BY <1>1, <1>2
<1> QED
  BY <1>1, <1>2, <1>3, <1>4 DEF x

\* A mask has a bit for each number up to the last one, and few more.
LEMMA MaskBytesBounds ==
    ASSUME NEW last \in Nat
    PROVE  /\ MaskBytes(last) \in Nat
           /\ last < MaskBytes(last) * BitsPerByte
           /\ MaskBytes(last) * BitsPerByte <= last + MinBytes * BitsPerByte
<1> DEFINE B == BitsPerByte
           M == MinBytes
           c == CeilDiv(last + 1, B)
           w == CeilDiv(c, M)
<1>1. B \in Nat \ {0} /\ M \in Nat \ {0}
  BY SackAssumption
<1>2. c \in Nat /\ last + 1 <= c * B /\ c * B <= last + 1 + B - 1
  <2>1. last + 1 \in Nat
    OBVIOUS
  <2> QED
    BY <1>1, <2>1, CeilDivBounds
<1> HIDE DEF c
<1>3. w \in Nat /\ c <= w * M /\ w * M <= c + M - 1
  BY <1>1, <1>2, CeilDivBounds
<1>4. MaskBytes(last) = IF w = 0 THEN M ELSE w * M
  BY DEF MaskBytes, c
<1> HIDE DEF w, B, M
<1>5. c # 0
  <2>1. c = 0 => c * B = 0
    BY <1>1
  <2> QED
    BY <1>2, <2>1
<1>6. w # 0
  <2>1. w = 0 => w * M = 0
    BY <1>1
  <2> QED
    BY <1>2, <1>3, <1>5, <2>1
<1> DEFINE n == w * M
<1>7. n \in Nat /\ c <= n /\ n <= c + (M - 1) /\ M - 1 \in Nat
  BY <1>1, <1>2, <1>3
<1>8. MaskBytes(last) = n
  BY <1>4, <1>6
<1> HIDE DEF n
<1>9. c * B <= n * B /\ n * B <= (c + (M - 1)) * B
  BY <1>1, <1>2, <1>7
<1>10. (c + (M - 1)) * B = c * B + (M * B - B)
  BY <1>1, <1>2
<1>11. c * B \in Nat /\ n * B \in Nat /\ M * B \in Nat
  BY <1>1, <1>2, <1>7
<1>12. last < n * B /\ n * B <= last + M * B
  BY <1>1, <1>2, <1>9, <1>10, <1>11
<1> QED
  BY <1>7, <1>8, <1>12 DEF B, M

\* A mask made of numbers that are all near arrives whole.
LEMMA WholeMaskArrives ==
    ASSUME WindowFits, NEW ack \in SeqNrs, NEW K \in SUBSET SeqNrs, K # {},
           \A k \in K : /\ SeqGe(k, SeqAdd(ack, 2))
                        /\ SeqDiff(k, SeqAdd(ack, 2)) + 2 <= PeerWindow
    PROVE  RemoteReceived(OnTheWire(CreateMask(ack, K))) = K
<1> DEFINE first == SeqAdd(ack, 2)
           sent == CreateMask(ack, K).bytes
           m == OnTheWire(CreateMask(ack, K))
           B == BitsPerByte
<1>1. /\ m.base = ack /\ first \in SeqNrs /\ m.bytes = sent % LengthMod
      /\ m.bits = {b \in BitsOf(first, K) : b < sent * B /\ b < m.bytes * B}
      /\ \A b \in m.bits : b \in SeqNrs /\ BitNr(ack, b) \in K
  BY WireMask
<1>2. PICK last \in SeqNrs : /\ sent = MaskBytes(last)
                             /\ \A k \in K : SeqDiff(k, first) <= last
                             /\ \E k \in K : SeqDiff(k, first) = last
  BY MaskLength
<1>3. \A k \in K : SeqGe(k, first) /\ SeqDiff(k, first) + 2 <= PeerWindow
  OBVIOUS
<1> HIDE DEF first, sent, m
<1>4. /\ last \in Nat /\ LengthMod \in Nat /\ LengthMod > 0 /\ B \in Nat /\ B > 0
      /\ MinBytes * B \in Nat /\ PeerWindow \in Nat
  BY SeqModAssumption, SackAssumption, ReceiverAssumption DEF SeqNrs
<1>5. last + 2 <= PeerWindow
  BY <1>2, <1>3
<1>6. sent \in Nat /\ last < sent * B /\ sent * B <= last + MinBytes * B
  BY <1>2, <1>4, MaskBytesBounds
<1>7. sent < LengthMod
  <2>1. sent * B \in Nat /\ LengthMod * B \in Nat
    BY <1>4, <1>6
  <2>2. sent * B < LengthMod * B
    BY <1>4, <1>5, <1>6, <2>1 DEF WindowFits
  <2>3. LengthMod <= sent => LengthMod * B <= sent * B
    BY <1>4, <1>6
  <2> QED
    BY <1>4, <1>6, <2>1, <2>2, <2>3
<1>8. m.bytes = sent
  BY <1>1, <1>4, <1>6, <1>7
<1>9. ASSUME NEW k \in K
      PROVE  SeqDiff(k, first) \in m.bits /\ BitNr(ack, SeqDiff(k, first)) = k
  <2>1. k \in SeqNrs
    OBVIOUS
  <2>2. SeqDiff(k, first) \in SeqNrs /\ SeqAdd(first, SeqDiff(k, first)) = k
    BY <1>1, <2>1, SeqDiffWraps, SeqAddSeqDiff
  <2>3. SeqDiff(k, first) \in BitsOf(first, K)
    BY <1>3 DEF BitsOf
  <2>4. SeqDiff(k, first) < sent * B
    <3>1. SeqDiff(k, first) \in Int /\ sent * B \in Nat
      BY <1>4, <1>6, <2>2, SeqModAssumption DEF SeqNrs
    <3>2. SeqDiff(k, first) <= last
      BY <1>2
    <3> QED
      BY <1>4, <1>6, <3>1, <3>2
  <2> QED
    BY <1>1, <1>8, <2>2, <2>3, <2>4 DEF BitNr, first
<1>10. RemoteReceived(m) = {BitNr(ack, b) : b \in m.bits}
  BY <1>1 DEF RemoteReceived, BitNr
<1>11. RemoteReceived(m) = K
  BY <1>1, <1>9, <1>10
<1> QED
  BY <1>11 DEF m

\* As long as packets arrive no further ahead than a mask can name, and no old
\* duplicate is queued, the sender reads every queued packet from the mask:
\* utp_ext_sack.ts makes it long enough, and its length field does not cut it.
THEOREM SackLeavesNothingOut ==
    ASSUME HalfStream, WindowFits
    PROVE  RecvSpec => []SackIsCompleteWithoutDuplicates
<1>1. ShortStream
  BY HalfRound, ReceiverAssumption DEF HalfStream, ShortStream
<1>2. RecvInit => RecvIInv /\ RecvOrder /\ NearBy
  <2>1. RecvInit => QKeys(recvPacketQueue) = {}
    BY EmptyQueueOK DEF RecvInit
  <2> QED
    BY <2>1, RecvInitEstablishes DEF NearBy
<1>3. RecvIInv /\ RecvOrder /\ NearBy /\ [RecvNext]_recvVars
        => RecvIInv' /\ RecvOrder' /\ NearBy'
  BY <1>1, RecvNextPreserves, NextStaysNear
<1>4. ASSUME RecvIInv, NearBy, Queued # {}, ~PassedOver,
             \A k \in Queued : SeqGt(k, localAckNr)
      PROVE  RemoteReceived(Announced) = Queued
  <2> DEFINE ack == localAckNr
             K == Queued
             items == recvPacketQueue.items
             L == Len(consumed)
             a == IF consumed = <<>> THEN 0 ELSE consumed[L]
  <2>1. /\ ack \in SeqNrs /\ K \in SUBSET SeqNrs /\ K # {} /\ SeqAdd(ack, 1) \notin K
        /\ consumed \in Seq(Packets) /\ L \in Nat
        /\ \A k \in K : items[k] \in Packets /\ PacketSeq(items[k]) = k
    BY <1>4 DEF RecvIInv, RecvTypeOK, LoopOK, Loop, QueueOK, Queued, PassedOver
  <2>2. InOrder(Loop) /\ \A k \in K : items[k] <= L + PeerWindow
    BY <1>4 DEF NearBy, Queued
  <2>3. ack = PacketSeq(a) /\ a \in 0 .. NumData + 1 /\ L <= a
    <3>1. CASE consumed = <<>>
      <4>1. ack = SeqAdd(FirstSeq, -1) /\ L = 0
        BY <2>2, <3>1 DEF InOrder, Loop
      <4> QED
        BY <3>1, <4>1, ReceiverAssumption DEF PacketSeq
    <3>2. CASE consumed # <<>>
      <4>1. ack = PacketSeq(consumed[L])
        BY <1>4, <3>2 DEF RecvIInv, LoopOK, Loop
      <4>2. L \in 1 .. L
        BY <2>1, <3>2
      <4>3. \A j \in 2 .. Len(consumed) : consumed[j] = consumed[j - 1] + 1
        BY <2>2 DEF InOrder, Loop
      <4>4. consumed[L] >= L
        BY <2>1, <4>2, <4>3, ConsumedAtLeast
      <4>5. consumed[L] \in 0 .. NumData + 1 /\ consumed[L] \in Int
        BY <2>1, <4>2, ReceiverAssumption DEF Packets
      <4> QED
        BY <2>1, <3>2, <4>1, <4>4, <4>5
    <3> QED
      BY <3>1, <3>2
  <2> HIDE DEF K, ack, L, a
  <2> DEFINE first == SeqAdd(ack, 2)
  <2>4. ASSUME NEW k \in K
        PROVE  SeqGe(k, first) /\ SeqDiff(k, first) + 2 <= PeerWindow
    <3>1. k \in SeqNrs /\ SeqGt(k, ack) /\ k # SeqAdd(ack, 1)
      BY <1>4, <2>1 DEF K, ack
    <3>2. SeqGe(k, first)
      BY <2>1, <3>1, AheadHasBit
    <3>3. SeqDiff(k, ack) = items[k] - a
      <4>1. items[k] \in Packets /\ SeqGt(PacketSeq(items[k]), PacketSeq(a))
        BY <2>1, <2>3, <3>1
      <4>2. SeqDiff(PacketSeq(items[k]), PacketSeq(a)) = items[k] - a
        BY <2>3, <4>1, AheadIsLater
      <4> QED
        BY <2>1, <2>3, <4>2
    <3>4. SeqDiff(k, first) + 2 = SeqDiff(k, ack)
      BY <2>1, <3>1, DistanceFromFirstBit
    <3>5. items[k] \in Int /\ a \in Int /\ PeerWindow \in Int
      BY <2>1, <2>3, ReceiverAssumption DEF Packets
    <3>6. items[k] <= L + PeerWindow
      BY <2>2
    <3> QED
      BY <2>1, <2>3, <3>2, <3>3, <3>4, <3>5, <3>6
  <2>5. RemoteReceived(OnTheWire(CreateMask(ack, K))) = K
    BY <2>1, <2>4, WholeMaskArrives
  <2> QED
    BY <2>5 DEF Announced, ack, K
<1>5. RecvIInv /\ NearBy => SackIsCompleteWithoutDuplicates
  BY <1>4 DEF SackIsCompleteWithoutDuplicates
<1> QED
  BY <1>2, <1>3, <1>5, PTL DEF RecvSpec

-----------------------------------------------------------------------------
(* What becomes of a queued packet *)

\* A packet that is queued under its number in q is in r, or among the packets
\* that s consumed after the first n.
StaysOrIsConsumed(k, item, r, n) ==
    \/ k \in QKeys(r.queue) /\ r.queue.items[k] = item
    \/ \E j \in n + 1 .. Len(r.consumed) : r.consumed[j] = item

\* The loop forgets no packet: it leaves it in the queue or consumes it, and it
\* consumes nothing else.
LEMMA ProcessAccounts ==
    ASSUME NEW r, LoopOK(r)
    PROVE  LET after == ProcessReceivedPackets(r)
           IN  /\ Len(r.consumed) \in Nat /\ Len(after.consumed) \in Nat
               /\ Len(r.consumed) <= Len(after.consumed)
               /\ \A j \in 1 .. Len(r.consumed) : after.consumed[j] = r.consumed[j]
               /\ \A k \in QKeys(r.queue) :
                     StaysOrIsConsumed(k, r.queue.items[k], after, Len(r.consumed))
               /\ \A j \in Len(r.consumed) + 1 .. Len(after.consumed) :
                     \E k \in QKeys(r.queue) : after.consumed[j] = r.queue.items[k]
               /\ SeqAdd(r.ackNr, 1) \in QKeys(r.queue) =>
                     Cardinality(QKeys(after.queue)) < Cardinality(QKeys(r.queue))
               /\ SeqAdd(r.ackNr, 1) \notin QKeys(r.queue) => after = r
<1> DEFINE first == SeqAdd(r.ackNr, 1)
           K == QKeys(r.queue)
           n == RunLength(r.ackNr, K)
           L == Len(r.consumed)
           D == first .. first + n - 1
           after == ProcessReceivedPackets(r)
<1>1. /\ n \in Nat /\ first \in SeqNrs
      /\ \A i \in 1 .. n : first + i - 1 \in K
      /\ first + n \notin K
      /\ n = 0 => after.ackNr = r.ackNr
  BY ProcessTakesRun
<1>2. /\ after.consumed \in Seq(Packets) /\ L \in Nat /\ Len(after.consumed) = L + n
      /\ \A i \in 1 .. L : after.consumed[i] = r.consumed[i]
      /\ \A i \in 1 .. n : after.consumed[L + i] = r.queue.items[first + i - 1]
  BY ProcessConsumes
<1>3. after.queue = Dequeue(r.queue, D)
  BY DEF ProcessReceivedPackets
<1>4. QueueOK(r.queue) /\ K \in SUBSET SeqNrs /\ first \in Int
  BY <1>1, SeqModAssumption DEF LoopOK, QueueOK, SeqNrs
<1> HIDE DEF D, n, after
<1>5. /\ QKeys(after.queue) = K \ D
      /\ \A k \in K \ D : after.queue.items[k] = r.queue.items[k]
  BY <1>3, <1>4, DequeueKeeps
<1> USE DEF D, n, after
<1>6. /\ after = [ackNr |-> after.ackNr, queue |-> after.queue, consumed |-> after.consumed]
      /\ r = [ackNr |-> r.ackNr, queue |-> r.queue, consumed |-> r.consumed]
      /\ r.consumed \in Seq(Packets)
  BY ProcessKeeps DEF LoopOK
<1>7. ASSUME n = 0
      PROVE  after.queue = r.queue
  <2>1. D = {}
    BY <1>4, <1>7
  <2>2. after.queue = [items |-> [k \in K |-> r.queue.items[k]], oldest |-> r.queue.oldest]
    BY <1>3, <2>1 DEF Dequeue
  <2>3. r.queue = [items |-> r.queue.items, oldest |-> r.queue.oldest]
        /\ r.queue.items \in [K -> Packets]
    BY <1>4 DEF QueueOK
  <2>4. [k \in K |-> r.queue.items[k]] = r.queue.items
    BY <2>3
  <2> QED
    BY <2>2, <2>3, <2>4
<1> HIDE DEF n, K, first, L, after
<1>8. ASSUME NEW k \in K
      PROVE  StaysOrIsConsumed(k, r.queue.items[k], after, L)
  <2>1. CASE k \in D
    <3>1. k \in Int /\ k >= first /\ k <= first + n - 1
      BY <1>1, <1>4, <2>1
    <3>2. k - first + 1 \in 1 .. n /\ first + (k - first + 1) - 1 = k
      BY <1>1, <1>4, <3>1
    <3>3. after.consumed[L + (k - first + 1)] = r.queue.items[k]
      BY <1>2, <3>2
    <3>4. L + (k - first + 1) \in L + 1 .. Len(after.consumed)
      BY <1>1, <1>2, <3>2
    <3> QED
      BY <3>3, <3>4 DEF StaysOrIsConsumed
  <2>2. CASE k \notin D
    BY <1>5, <2>2 DEF StaysOrIsConsumed
  <2> QED
    BY <2>1, <2>2
<1>9. ASSUME NEW j \in L + 1 .. Len(after.consumed)
      PROVE  \E k \in K : after.consumed[j] = r.queue.items[k]
  <2>1. j - L \in 1 .. n /\ L + (j - L) = j
    BY <1>1, <1>2
  <2> QED
    BY <1>1, <1>2, <2>1
<1>10. ASSUME first \in K
       PROVE  Cardinality(QKeys(after.queue)) < Cardinality(K)
  <2>1. n # 0
    <3>1. n = 0 => first + n = first
      BY <1>4
    <3> QED
      BY <1>1, <1>10, <3>1
  <2>2. first \in D
    BY <1>1, <1>4, <2>1
  <2>3. QKeys(after.queue) \in SUBSET (K \ {first}) /\ K \ {first} \in SUBSET SeqNrs
    BY <1>4, <1>5, <2>2
  <2>4. /\ Cardinality(QKeys(after.queue)) <= Cardinality(K \ {first})
        /\ Cardinality(QKeys(after.queue)) \in Nat
    BY <2>3, SubsetNoLarger, SeqNrsFinite
  <2>5. Cardinality(K \ {first}) = Cardinality(K) - 1 /\ Cardinality(K) \in Nat
    BY <1>4, <1>10, SeqNrsFinite, FS_RemoveElement
  <2> QED
    BY <2>4, <2>5
<1>11. ASSUME first \notin K
       PROVE  after = r
  <2>1. n = 0
    <3>1. n # 0 => 1 \in 1 .. n /\ first + 1 - 1 = first
      BY <1>1, <1>4
    <3> QED
      BY <1>1, <1>11, <3>1
  <2>2. after.consumed = r.consumed
    <3>1. Len(after.consumed) = Len(r.consumed)
      BY <1>2, <2>1 DEF L
    <3> QED
      BY <1>2, <1>6, <3>1 DEF L
  <2> QED
    BY <1>1, <1>6, <1>7, <2>1, <2>2
<1> QED
  BY <1>1, <1>2, <1>8, <1>9, <1>10, <1>11 DEF K, L, after, first

\* Less than a round from f no number is met twice.
LEMMA OnePlaceOnCircle ==
    ASSUME NEW m \in Nat, NEW f \in Nat, NEW x \in Nat, NEW y \in Nat, f < m, x < m, y < m,
           (IF f + x < m THEN f + x ELSE f + x - m) = (IF f + y < m THEN f + y ELSE f + y - m)
    PROVE  x = y
OBVIOUS

\* The number one further is the next place.
LEMMA NextPlaceOnCircle ==
    ASSUME NEW m \in Nat, NEW f \in Nat, NEW l \in Nat, NEW p \in Nat, NEW q \in Int, NEW s \in Int,
           f < m, l < m,
           p = IF f + l < 1 THEN m - 1
               ELSE IF f + (l - 1) < m THEN f + (l - 1) ELSE f + (l - 1) - m,
           q = IF f + (l + 1) < 1 THEN m - 1
               ELSE IF f + (l + 1 - 1) < m THEN f + (l + 1 - 1) ELSE f + (l + 1 - 1) - m,
           s = IF p + 1 < m THEN p + 1 ELSE p + 1 - m
    PROVE  q = s
OBVIOUS

\* In a short stream no two packets have the same number.
LEMMA PacketSeqInjective ==
    ASSUME ShortStream, NEW a \in Packets, NEW b \in Packets, PacketSeq(a) = PacketSeq(b)
    PROVE  a = b
<1>1. /\ SeqMod \in Nat /\ NumData \in Nat /\ FirstSeq \in Nat /\ FirstSeq < SeqMod
      /\ NumData + 1 < SeqMod
      /\ a \in 0 .. NumData + 1 /\ b \in 0 .. NumData + 1 /\ 1 <= a /\ 1 <= b
  BY SeqModAssumption, ReceiverAssumption DEF ShortStream, Packets, SeqNrs
<1>2. PacketSeq(a) = IF FirstSeq + (a - 1) < SeqMod THEN FirstSeq + (a - 1)
                     ELSE FirstSeq + (a - 1) - SeqMod
  <2>1. ~(FirstSeq + a < 1)
    BY <1>1
  <2> QED
    BY <1>1, <2>1, PacketSeqOf
<1>3. PacketSeq(b) = IF FirstSeq + (b - 1) < SeqMod THEN FirstSeq + (b - 1)
                     ELSE FirstSeq + (b - 1) - SeqMod
  <2>1. ~(FirstSeq + b < 1)
    BY <1>1
  <2> QED
    BY <1>1, <2>1, PacketSeqOf
<1>4. /\ a - 1 \in Nat /\ a - 1 < SeqMod /\ a \in Int
      /\ b - 1 \in Nat /\ b - 1 < SeqMod /\ b \in Int
  BY <1>1
<1>5. (IF FirstSeq + (a - 1) < SeqMod THEN FirstSeq + (a - 1) ELSE FirstSeq + (a - 1) - SeqMod)
      = (IF FirstSeq + (b - 1) < SeqMod THEN FirstSeq + (b - 1) ELSE FirstSeq + (b - 1) - SeqMod)
  BY <1>2, <1>3, Zenon
<1>6. a - 1 = b - 1
  BY <1>1, <1>4, <1>5, OnePlaceOnCircle
<1> QED
  BY <1>4, <1>6

\* In a short stream a packet that enters the queue displaces at most one: the
\* one with the smallest number of a full queue that does not hold it yet.
LEMMA EnqueueAccounts ==
    ASSUME ShortStream, NEW q, QueueOK(q), NEW i \in Packets
    PROVE  LET e == Enqueue(q, QueueCapacity, PacketSeq(i), i)
           IN  /\ PacketSeq(i) \in QKeys(e) /\ e.items[PacketSeq(i)] = i
               /\ \A k \in QKeys(e) \ {PacketSeq(i)} : k \in QKeys(q) /\ e.items[k] = q.items[k]
               /\ \A k \in QKeys(q) : \/ k \in QKeys(e) /\ e.items[k] = q.items[k]
                                      \/ /\ PacketSeq(i) \notin QKeys(q)
                                         /\ IsAtCapacity(q, QueueCapacity)
                                         /\ \A j \in QKeys(q) : k <= j
<1> DEFINE K == QKeys(q)
           key == PacketSeq(i)
           e == Enqueue(q, QueueCapacity, key, i)
<1>1. K \in SUBSET SeqNrs
  BY DEF QueueOK
<1>2. CASE key \in K
  <2> DEFINE f == [q.items EXCEPT ![key] = i]
  <2>1. e = [q EXCEPT !.items[key] = i]
    BY <1>2 DEF Enqueue
  <2>2. e = [items |-> f, oldest |-> q.oldest]
    BY <2>1 DEF QueueOK
  <2>3. DOMAIN f = K /\ \A k \in K : f[k] = IF k = key THEN i ELSE q.items[k]
    BY <1>2 DEF QueueOK
  <2>4. q.items[key] = i
    <3>1. PacketSeq(q.items[key]) = key /\ q.items[key] \in Packets
      BY <1>2 DEF QueueOK
    <3> QED
      BY <3>1, PacketSeqInjective
  <2> HIDE DEF f, e, K, key
  <2>5. QKeys(e) = K /\ \A k \in K : e.items[k] = f[k]
    BY <2>2, <2>3 DEF QKeys
  <2> QED
    BY <1>2, <2>3, <2>4, <2>5 DEF e, K, key
<1>3. CASE key \notin K
  <2> DEFINE kept == IF IsAtCapacity(q, QueueCapacity) THEN K \ {q.oldest} ELSE K
             L == kept \cup {key}
             f == [k \in L |-> IF k = key THEN i ELSE q.items[k]]
  <2>1. e = [items |-> f, oldest |-> OldestOf(L)]
    BY <1>3 DEF Enqueue
  <2>2. DOMAIN f = L /\ f[key] = i /\ (\A k \in kept : f[k] = q.items[k]) /\ kept \subseteq K
    BY <1>3
  <2>3. \A k \in K : k \in kept \/ (IsAtCapacity(q, QueueCapacity) /\ k = q.oldest)
    OBVIOUS
  <2>4. ASSUME NEW k \in K, k = q.oldest
        PROVE  \A j \in K : k <= j
    <3>1. K # {} /\ q.oldest = SmallestKey(K)
      BY DEF QueueOK, OldestOf
    <3> QED
      BY <1>1, <2>4, <3>1, SmallestKeyIsLeast
  <2> HIDE DEF f, L, kept, e, K, key
  <2>5. QKeys(e) = L /\ \A k \in L : e.items[k] = f[k]
    BY <2>1, <2>2 DEF QKeys
  <2>6. key \in L /\ kept \subseteq L /\ \A k \in L : k = key \/ k \in kept
    BY DEF L
  <2>7. \A k \in K : k \in kept \/ (IsAtCapacity(q, QueueCapacity) /\ \A j \in K : k <= j)
    BY <2>3, <2>4
  <2>8. /\ key \in QKeys(e) /\ e.items[key] = i
        /\ \A k \in QKeys(e) \ {key} : k \in K /\ e.items[k] = q.items[k]
        /\ \A k \in K : \/ k \in QKeys(e) /\ e.items[k] = q.items[k]
                        \/ key \notin K /\ IsAtCapacity(q, QueueCapacity) /\ \A j \in K : k <= j
    BY <1>3, <2>2, <2>5, <2>6, <2>7
  <2> QED
    BY <2>8 DEF e, K, key
<1> QED
  BY <1>2, <1>3

\* What handling packet i makes of it and of the queued packets: each stays
\* queued or is consumed, unless the queue was full, nothing of it could be
\* consumed and i was not in it: then its smallest number may be evicted.
LEMMA QueueingAccounts ==
    ASSUME ShortStream, LoopOK(Loop), NEW i \in Packets
    PROVE  LET after == AfterQueueing(i)
               K == QKeys(recvPacketQueue)
               L == Len(consumed)
           IN  /\ L \in Nat /\ Len(after.consumed) \in Nat /\ L <= Len(after.consumed)
               /\ \A j \in 1 .. L : after.consumed[j] = consumed[j]
               /\ \A j \in L + 1 .. Len(after.consumed) :
                     \/ after.consumed[j] = i
                     \/ \E k \in K : after.consumed[j] = recvPacketQueue.items[k]
               /\ \A k \in QKeys(after.queue) :
                     \/ k = PacketSeq(i) /\ after.queue.items[k] = i
                     \/ k \in K /\ after.queue.items[k] = recvPacketQueue.items[k]
               /\ StaysOrIsConsumed(PacketSeq(i), i, after, L)
               /\ \A k \in K :
                     \/ StaysOrIsConsumed(k, recvPacketQueue.items[k], after, L)
                     \/ /\ PacketSeq(i) \notin K /\ SeqAdd(localAckNr, 1) \notin K
                        /\ IsAtCapacity(recvPacketQueue, QueueCapacity)
                        /\ \A j \in K : k <= j
<1> DEFINE room == IF IsAtCapacity(recvPacketQueue, QueueCapacity)
                   THEN ProcessReceivedPackets(Loop) ELSE Loop
           old == room.queue
           key == PacketSeq(i)
           q == Enqueue(old, QueueCapacity, key, i)
           queued == [ackNr |-> room.ackNr, queue |-> q, consumed |-> room.consumed]
           K == QKeys(recvPacketQueue)
           L == Len(consumed)
           items == recvPacketQueue.items
<1>1. /\ Loop.queue = recvPacketQueue /\ Loop.consumed = consumed /\ Loop.ackNr = localAckNr
      /\ L \in Nat /\ QueueOK(recvPacketQueue) /\ K \in SUBSET SeqNrs
  BY DEF Loop, LoopOK, QueueOK
<1>2. LoopOK(room)
  BY ProcessKeeps
<1>3. /\ Len(room.consumed) \in Nat /\ L <= Len(room.consumed)
      /\ \A j \in 1 .. L : room.consumed[j] = consumed[j]
      /\ \A k \in K : StaysOrIsConsumed(k, items[k], room, L)
      /\ \A j \in L + 1 .. Len(room.consumed) : \E k \in K : room.consumed[j] = items[k]
      /\ \A k \in QKeys(old) : k \in K /\ old.items[k] = items[k]
  <2>1. CASE room = Loop
    BY <1>1, <2>1 DEF StaysOrIsConsumed
  <2>2. CASE room = ProcessReceivedPackets(Loop)
    <3>1. /\ QKeys(old) \subseteq K
          /\ \A k \in QKeys(old) : old.items[k] = items[k]
      BY <1>1, <2>2, ProcessLeaves
    <3>2. /\ Len(room.consumed) \in Nat /\ L <= Len(room.consumed)
          /\ \A j \in 1 .. L : room.consumed[j] = consumed[j]
          /\ \A k \in K : StaysOrIsConsumed(k, items[k], room, L)
          /\ \A j \in L + 1 .. Len(room.consumed) : \E k \in K : room.consumed[j] = items[k]
      BY <1>1, <2>2, ProcessAccounts
    <3> QED
      BY <3>1, <3>2
  <2> QED
    BY <2>1, <2>2
<1>4. ASSUME IsAtCapacity(old, QueueCapacity)
      PROVE  old = recvPacketQueue /\ IsAtCapacity(recvPacketQueue, QueueCapacity)
             /\ SeqAdd(localAckNr, 1) \notin K
  <2>1. CASE ~IsAtCapacity(recvPacketQueue, QueueCapacity)
    BY <1>1, <1>4, <2>1
  <2>2. CASE IsAtCapacity(recvPacketQueue, QueueCapacity) /\ SeqAdd(localAckNr, 1) \in K
    <3>1. Cardinality(QKeys(old)) < Cardinality(K)
      BY <1>1, <2>2, ProcessAccounts
    <3>2. Cardinality(K) <= QueueCapacity /\ Cardinality(K) \in Nat /\ QueueCapacity \in Nat
      BY <1>1, SeqNrsFinite, ReceiverAssumption DEF QueueOK
    <3>3. Cardinality(QKeys(old)) >= QueueCapacity
      BY <1>4 DEF IsAtCapacity
    <3>4. Cardinality(QKeys(old)) \in Nat
      <4>1. QKeys(old) \in SUBSET SeqNrs
        BY <1>2 DEF LoopOK, QueueOK
      <4> QED
        BY <4>1, SeqNrsFinite
    <3> QED
      BY <3>1, <3>2, <3>3, <3>4
  <2>3. CASE IsAtCapacity(recvPacketQueue, QueueCapacity) /\ SeqAdd(localAckNr, 1) \notin K
    <3>1. room = Loop
      BY <1>1, <2>3, ProcessAccounts
    <3> QED
      BY <1>1, <2>3, <3>1
  <2> QED
    BY <2>1, <2>2, <2>3
<1>5. AfterQueueing(i) = ProcessReceivedPackets([room EXCEPT !.queue = q])
  BY DEF AfterQueueing, Loop
<1> HIDE DEF room
<1>6. QueueOK(old) /\ QueueOK(q)
  BY <1>2, EnqueueKeeps DEF LoopOK
<1>7. /\ key \in QKeys(q) /\ q.items[key] = i
      /\ \A k \in QKeys(q) \ {key} : k \in QKeys(old) /\ q.items[k] = old.items[k]
      /\ \A k \in QKeys(old) : \/ k \in QKeys(q) /\ q.items[k] = old.items[k]
                               \/ /\ key \notin QKeys(old) /\ IsAtCapacity(old, QueueCapacity)
                                  /\ \A j \in QKeys(old) : k <= j
  BY <1>6, EnqueueAccounts
<1> HIDE DEF q
<1>8. [room EXCEPT !.queue = q] = queued
  BY <1>2 DEF LoopOK
<1>9. /\ queued.ackNr = room.ackNr /\ queued.queue = q /\ queued.consumed = room.consumed
      /\ queued = [ackNr |-> queued.ackNr, queue |-> queued.queue, consumed |-> queued.consumed]
  OBVIOUS
<1> HIDE DEF queued
<1>10. LoopOK(queued)
  BY <1>2, <1>6, <1>9 DEF LoopOK
<1> DEFINE after == ProcessReceivedPackets(queued)
           M == Len(room.consumed)
<1>11. /\ M \in Nat /\ Len(after.consumed) \in Nat /\ M <= Len(after.consumed)
       /\ \A j \in 1 .. M : after.consumed[j] = room.consumed[j]
       /\ \A k \in QKeys(q) : StaysOrIsConsumed(k, q.items[k], after, M)
       /\ \A j \in M + 1 .. Len(after.consumed) : \E k \in QKeys(q) : after.consumed[j] = q.items[k]
  BY <1>9, <1>10, ProcessAccounts
<1>12. /\ QKeys(after.queue) \subseteq QKeys(q)
       /\ \A k \in QKeys(after.queue) : after.queue.items[k] = q.items[k]
  BY <1>9, <1>10, ProcessLeaves
<1>13. AfterQueueing(i) = after
  BY <1>5, <1>8
<1> HIDE DEF after, M, L, K, key, old, items
<1>14. \A j \in L + 1 .. M : j \in 1 .. M /\ j \in L + 1 .. Len(after.consumed)
  BY <1>1, <1>11
<1>15. \A j \in M + 1 .. Len(after.consumed) : j \in L + 1 .. Len(after.consumed)
  BY <1>1, <1>3, <1>11 DEF M
<1>16. L <= Len(after.consumed) /\ \A j \in 1 .. L : j \in 1 .. M
  BY <1>1, <1>3, <1>11 DEF M
<1>17. \A j \in L + 1 .. Len(after.consumed) : j \in L + 1 .. M \/ j \in M + 1 .. Len(after.consumed)
  BY <1>1, <1>3, <1>11 DEF M
<1>18. \A k \in QKeys(q) : \/ k = key /\ q.items[k] = i
                           \/ k \in K /\ q.items[k] = items[k]
  BY <1>3, <1>7, Zenon
<1>19. ASSUME NEW j \in L + 1 .. Len(after.consumed)
       PROVE  after.consumed[j] = i \/ \E k \in K : after.consumed[j] = items[k]
  <2>1. CASE j \in L + 1 .. M
    BY <1>3, <1>11, <1>14, <2>1 DEF M
  <2>2. CASE j \in M + 1 .. Len(after.consumed)
    <3>1. PICK k \in QKeys(q) : after.consumed[j] = q.items[k]
      BY <1>11, <2>2
    <3> QED
      BY <1>18, <3>1
  <2> QED
    BY <1>17, <2>1, <2>2
<1>20. ASSUME NEW k \in QKeys(q)
       PROVE  StaysOrIsConsumed(k, q.items[k], after, L)
  BY <1>11, <1>15 DEF StaysOrIsConsumed
<1>21. ASSUME NEW k \in K
       PROVE  \/ StaysOrIsConsumed(k, items[k], after, L)
              \/ /\ key \notin K /\ SeqAdd(localAckNr, 1) \notin K
                 /\ IsAtCapacity(recvPacketQueue, QueueCapacity)
                 /\ \A j \in K : k <= j
  <2>1. CASE k \in QKeys(old) /\ old.items[k] = items[k]
    <3>1. CASE k \in QKeys(q) /\ q.items[k] = old.items[k]
      <4>1. StaysOrIsConsumed(k, q.items[k], after, L)
        BY <1>20, <3>1
      <4>2. q.items[k] = items[k]
        BY <2>1, <3>1
      <4> QED
        BY <4>1, <4>2
    <3>2. CASE /\ key \notin QKeys(old) /\ IsAtCapacity(old, QueueCapacity)
               /\ \A j \in QKeys(old) : k <= j
      <4>1. old = recvPacketQueue /\ IsAtCapacity(recvPacketQueue, QueueCapacity)
            /\ SeqAdd(localAckNr, 1) \notin K
        BY <1>4, <3>2
      <4> QED
        BY <3>2, <4>1 DEF K
    <3> QED
      BY <1>7, <2>1, <3>1, <3>2
  <2>2. CASE \E j \in L + 1 .. M : room.consumed[j] = items[k]
    BY <1>11, <1>14, <2>2 DEF StaysOrIsConsumed
  <2> QED
    BY <1>3, <2>1, <2>2 DEF StaysOrIsConsumed, M, old
<1>22. StaysOrIsConsumed(key, i, after, L)
  BY <1>7, <1>20
<1>23. \A j \in 1 .. L : after.consumed[j] = consumed[j]
  BY <1>3, <1>11, <1>16 DEF M
<1>24. \A k \in QKeys(after.queue) : \/ k = key /\ after.queue.items[k] = i
                                     \/ k \in K /\ after.queue.items[k] = items[k]
  BY <1>12, <1>18
<1> QED
  BY <1>1, <1>11, <1>13, <1>16, <1>19, <1>21, <1>22, <1>23, <1>24 DEF K, L, items, key

\* A queue is no larger than any set that its packets are from.
LEMMA QueueNoLarger ==
    ASSUME NEW q, QueueOK(q), NEW T, IsFiniteSet(T), \A k \in QKeys(q) : q.items[k] \in T
    PROVE  Cardinality(QKeys(q)) <= Cardinality(T)
<1> DEFINE K == QKeys(q)
           f == q.items
<1>1. f \in [K -> T]
  BY DEF QueueOK
<1>2. \A a, b \in K : f[a] = f[b] => a = b
  <2>1. \A a \in K : PacketSeq(f[a]) = a
    BY DEF QueueOK
  <2> QED
    BY <2>1
<1> HIDE DEF f, K
<1>3. f \in Injection(K, T)
  <2>1. IsInjective(f)
    BY <1>1, <1>2, Zenon DEF IsInjective
  <2> QED
    BY <1>1, <2>1, Zenon DEF Injection
<1>4. Cardinality(K) <= Cardinality(T)
  BY <1>3, FS_Injection
<1> QED
  BY <1>4 DEF K

\* As long as the connection is CONNECTED its FIN is neither queued nor
\* consumed: the handler that queues it leaves the state.
BeforeFin ==
    localState = "CONNECTED" =>
        /\ \A k \in QKeys(recvPacketQueue) : recvPacketQueue.items[k] # FIN
        /\ \A j \in 1 .. Len(consumed) : consumed[j] # FIN

\* Every step keeps the FIN out.
LEMMA NextStaysBeforeFin ==
    ASSUME ShortStream, RecvIInv, BeforeFin, [RecvNext]_recvVars
    PROVE  BeforeFin'
<1>1. LoopOK(Loop) /\ consumed \in Seq(Packets)
  BY DEF RecvIInv, RecvTypeOK
<1>2. CASE HandleAtSynSent
  <2>1. /\ QKeys(recvPacketQueue) = {} /\ recvPacketQueue' = recvPacketQueue
        /\ consumed' = <<>>
    BY <1>2 DEF HandleAtSynSent, RecvIInv, NothingYet
  <2> QED
    BY <2>1 DEF BeforeFin, QKeys
<1>3. ASSUME NEW i \in Packets, HandleAtSynReceived(i)
      PROVE  BeforeFin'
  <2>1. /\ QKeys(recvPacketQueue) = {} /\ recvPacketQueue' = recvPacketQueue
        /\ consumed = <<>> /\ consumed' = Append(consumed, i) /\ i # FIN
    BY <1>3 DEF HandleAtSynReceived, RecvIInv, NothingYet
  <2>2. Len(consumed') = 1 /\ consumed'[1] = i
    BY <2>1
  <2> QED
    BY <2>1, <2>2 DEF BeforeFin, QKeys, FIN
<1>4. ASSUME NEW i \in Packets, HandleData(i)
      PROVE  BeforeFin'
  <2> DEFINE after == AfterQueueing(i)
  <2>1. /\ localState = "CONNECTED" /\ i # FIN
        /\ recvPacketQueue' = after.queue /\ consumed' = after.consumed
    BY <1>4 DEF HandleData
  <2>2. /\ Len(consumed) \in Nat /\ Len(after.consumed) \in Nat
        /\ \A j \in 1 .. Len(consumed) : after.consumed[j] = consumed[j]
        /\ \A j \in Len(consumed) + 1 .. Len(after.consumed) :
              \/ after.consumed[j] = i
              \/ \E k \in QKeys(recvPacketQueue) : after.consumed[j] = recvPacketQueue.items[k]
        /\ \A k \in QKeys(after.queue) :
              \/ after.queue.items[k] = i
              \/ k \in QKeys(recvPacketQueue) /\ after.queue.items[k] = recvPacketQueue.items[k]
    BY <1>1, QueueingAccounts
  <2> HIDE DEF after
  <2>3. \A j \in 1 .. Len(after.consumed) :
           j \in 1 .. Len(consumed) \/ j \in Len(consumed) + 1 .. Len(after.consumed)
    BY <2>2
  <2>4. /\ \A k \in QKeys(recvPacketQueue) : recvPacketQueue.items[k] # FIN
        /\ \A j \in 1 .. Len(consumed) : consumed[j] # FIN
    BY <2>1 DEF BeforeFin
  <2>5. \A j \in 1 .. Len(after.consumed) : after.consumed[j] # FIN
    BY <2>1, <2>2, <2>3, <2>4
  <2>6. \A k \in QKeys(after.queue) : after.queue.items[k] # FIN
    BY <2>1, <2>2, <2>4
  <2> QED
    BY <2>1, <2>5, <2>6 DEF BeforeFin, QKeys, FIN
<1>5. CASE (\E empty \in BOOLEAN : HandleFin(empty)) \/ LocalClose \/ HandleReset
  <2>1. localState' # "CONNECTED"
    BY <1>5 DEF HandleFin, LocalClose, HandleReset
  <2> QED
    BY <2>1 DEF BeforeFin
<1>6. CASE UNCHANGED recvVars
  <2>1. UNCHANGED <<localState, recvPacketQueue, consumed>>
    BY <1>6 DEF recvVars
  <2> QED
    BY <2>1 DEF BeforeFin, QKeys, FIN
<1> QED
  BY <1>2, <1>3, <1>4, <1>5, <1>6 DEF RecvNext

\* Among the data packets of half a round, what is not behind a number is not
\* earlier in the stream, and the next packet has the next number.
LEMMA NotBehindIsNotEarlier ==
    ASSUME HalfStream, NEW a \in 0 .. NumData, NEW b \in 1 .. NumData
    PROVE  /\ ~SeqLt(PacketSeq(b), PacketSeq(a)) => b >= a
           /\ PacketSeq(b) = PacketSeq(a) => b = a
           /\ b = a + 1 => PacketSeq(b) = SeqAdd(PacketSeq(a), 1)
<1>1. /\ SeqMod \in Nat /\ NumData \in Nat /\ FirstSeq \in Nat /\ FirstSeq < SeqMod
      /\ SeqMod > 3 /\ NumData <= HalfSeq
      /\ HalfSeq \in Nat /\ HalfSeq + HalfSeq = SeqMod /\ HalfSeq > 1
      /\ a \in Nat /\ a <= NumData /\ b \in Nat /\ 1 <= b /\ b <= NumData
  BY SeqModAssumption, ReceiverAssumption, HalfRound DEF HalfStream, SeqNrs
<1>2. ShortStream /\ a \in 0 .. NumData + 1 /\ b \in 0 .. NumData + 1
  BY <1>1 DEF ShortStream
<1> DEFINE x == PacketSeq(a)
           y == PacketSeq(b)
<1>3. x = IF FirstSeq + a < 1 THEN SeqMod - 1
          ELSE IF FirstSeq + (a - 1) < SeqMod THEN FirstSeq + (a - 1)
          ELSE FirstSeq + (a - 1) - SeqMod
  BY <1>2, PacketSeqOf
<1>4. y = IF FirstSeq + b < 1 THEN SeqMod - 1
          ELSE IF FirstSeq + (b - 1) < SeqMod THEN FirstSeq + (b - 1)
          ELSE FirstSeq + (b - 1) - SeqMod
  BY <1>2, PacketSeqOf
<1>5. x \in SeqNrs /\ y \in SeqNrs
  BY <1>1, PacketSeqType
<1>6. SeqDiff(x, y) = IF y <= x THEN x - y ELSE x - y + SeqMod
  BY <1>5, SeqDiffWraps
<1>7. SeqAdd(x, 1) = IF x + 1 < SeqMod THEN x + 1 ELSE x + 1 - SeqMod
  <2>1. 1 \in 0 .. SeqMod
    BY <1>1
  <2> QED
    BY <1>5, <2>1, SeqAddWraps
<1>8. SeqLt(y, x) <=> x # y /\ SeqDiff(x, y) < HalfSeq
  BY DEF SeqLt
<1> HIDE DEF x, y
<1>9. x \in Nat /\ y \in Nat
  BY <1>5, <1>1 DEF SeqNrs
<1>10. ASSUME b < a
       PROVE  x # y /\ SeqDiff(x, y) < HalfSeq
  BY <1>1, <1>3, <1>4, <1>6, <1>9, <1>10
<1>11. x = y => b = a
  BY <1>1, <1>3, <1>4, <1>9
<1>12. b = a + 1 => y = SeqAdd(x, 1)
  BY <1>1, <1>3, <1>4, <1>7, <1>9
<1> QED
  BY <1>1, <1>8, <1>10, <1>11, <1>12 DEF x, y

\* How many numbers there are from a to n further.
LEMMA IntervalSize ==
    ASSUME NEW a \in Int, NEW n \in Nat
    PROVE  IsFiniteSet(a .. a + n) /\ Cardinality(a .. a + n) = n + 1
<1>1. a + n \in Int /\ ~(a > a + n) /\ a + n - a + 1 = n + 1
  OBVIOUS
<1> QED
  BY <1>1, FS_Interval

\* A full queue that holds packets ahead but not the next one holds some from
\* behind: what may arrive ahead does not fill it.
LEMMA FullQueueHoldsOldOnes ==
    ASSUME HalfStream, PeerWindow < QueueCapacity,
           RecvIInv, RecvOrder, NearBy, BeforeFin, localState = "CONNECTED",
           IsAtCapacity(recvPacketQueue, QueueCapacity),
           SeqAdd(localAckNr, 1) \notin QKeys(recvPacketQueue),
           NEW k \in QKeys(recvPacketQueue), ~SeqLe(k, localAckNr)
    PROVE  \E j \in QKeys(recvPacketQueue) : SeqLt(j, localAckNr)
<1> DEFINE K == QKeys(recvPacketQueue)
           items == recvPacketQueue.items
           L == Len(consumed)
           c == IF consumed = <<>> THEN 0 ELSE consumed[L]
           T == (c .. c + PeerWindow) \ {c + 1}
<1> SUFFICES ASSUME \A j \in K : ~SeqLt(j, localAckNr) PROVE FALSE
  OBVIOUS
<1>1. LoopOK(Loop) /\ QueueOK(recvPacketQueue) /\ consumed \in Seq(Packets) /\ L \in Nat
  BY DEF RecvIInv, RecvTypeOK, LoopOK, Loop
<1>2. InOrder(Loop)
  BY DEF RecvOrder
<1>3. /\ c \in 0 .. NumData /\ L <= c
      /\ localAckNr = PacketSeq(c)
  <2>1. CASE consumed = <<>>
    <3>1. localAckNr = SeqAdd(FirstSeq, -1) /\ 0 - 1 = -1
      BY <1>2, <2>1 DEF InOrder, Loop
    <3> QED
      BY <2>1, <3>1, ReceiverAssumption DEF PacketSeq
  <2>2. CASE consumed # <<>>
    <3>1. L \in 1 .. L
      BY <1>1, <2>2
    <3>2. c \in Packets /\ c # FIN
      BY <1>1, <2>2, <3>1 DEF BeforeFin
    <3>3. L <= c
      BY <1>1, <1>2, <2>2, <3>1, <3>2, ConsumedAtLeast DEF InOrder, Loop, Packets
    <3>4. localAckNr = PacketSeq(c)
      BY <1>1, <2>2 DEF LoopOK, Loop
    <3> QED
      BY <3>2, <3>3, <3>4, ReceiverAssumption DEF Packets, FIN
  <2> QED
    BY <2>1, <2>2
<1>4. PeerWindow \in Nat /\ QueueCapacity \in Nat /\ NumData \in Nat
  BY ReceiverAssumption
<1> HIDE DEF c
<1>5. ASSUME NEW j \in K
      PROVE  /\ items[j] \in T /\ items[j] \in 1 .. NumData
             /\ j # localAckNr => items[j] # c
  <2> DEFINE b == items[j]
  <2>1. b \in 1 .. NumData /\ PacketSeq(b) = j
    <3>1. b \in Packets /\ PacketSeq(b) = j
      BY <1>1 DEF QueueOK
    <3>2. b # FIN
      BY DEF BeforeFin
    <3> QED
      BY <1>4, <3>1, <3>2 DEF Packets, FIN
  <2>2. b <= L + PeerWindow
    BY DEF NearBy
  <2> HIDE DEF b
  <2>3. b >= c
    BY <1>3, <2>1, NotBehindIsNotEarlier
  <2>4. b # c + 1
    <3>1. b = c + 1 => j = SeqAdd(localAckNr, 1)
      BY <1>3, <2>1, NotBehindIsNotEarlier
    <3> QED
      BY <3>1
  <2>5. b = c => j = localAckNr
    BY <1>3, <2>1
  <2>6. b \in T
    BY <1>1, <1>3, <1>4, <2>1, <2>2, <2>3, <2>4
  <2> QED
    BY <2>1, <2>5, <2>6 DEF b
<1>6. items[k] \in T /\ items[k] # c
  <2>1. k # localAckNr
    BY DEF SeqLe
  <2> QED
    BY <1>5, <2>1
<1>7. PeerWindow >= 1
  BY <1>3, <1>4, <1>6
<1>8. IsFiniteSet(T) /\ Cardinality(T) = PeerWindow
  <2> DEFINE I == c .. c + PeerWindow
  <2>1. c \in Int /\ c + PeerWindow \in Int /\ c + PeerWindow - c + 1 = PeerWindow + 1 /\ ~(c > c + PeerWindow)
    BY <1>3, <1>4
  <2>2. IsFiniteSet(I) /\ Cardinality(I) = PeerWindow + 1
    <3>1. c \in Int /\ PeerWindow \in Nat
      BY <2>1, ReceiverAssumption
    <3> HIDE DEF c
    <3> QED
      BY <3>1, IntervalSize
  <2>3. c + 1 \in I
    BY <1>3, <1>4, <1>7
  <2> HIDE DEF I
  <2>4. IsFiniteSet(I \ {c + 1}) /\ Cardinality(I \ {c + 1}) = Cardinality(I) - 1
    BY <2>2, <2>3, FS_RemoveElement
  <2> QED
    BY <1>4, <2>2, <2>4 DEF I
<1>9. Cardinality(K) <= Cardinality(T)
  <2> HIDE DEF T
  <2> QED
    BY <1>1, <1>5, <1>8, QueueNoLarger
<1>10. Cardinality(K) >= QueueCapacity /\ Cardinality(K) \in Nat
  BY <1>1, SeqNrsFinite DEF IsAtCapacity, QueueOK
<1> QED
  BY <1>4, <1>8, <1>9, <1>10

\* A queued packet that leaves the queue was consumed, was not ahead, or, in a
\* full queue, had a smaller number than an older one.
LEMMA NextKeepsQueued ==
    ASSUME HalfStream, PeerWindow < QueueCapacity,
           RecvIInv, RecvOrder, NearBy, BeforeFin, [RecvNext]_recvVars,
           NEW k \in QKeys(recvPacketQueue), k \notin QKeys(recvPacketQueue')
    PROVE  \/ SeqLe(k, localAckNr) \/ localState' = "RESET"
           \/ \E j \in QKeys(recvPacketQueue) : SeqLt(j, localAckNr) /\ k < j
           \/ \E j \in Len(consumed) + 1 .. Len(consumed') :
                 consumed'[j] = recvPacketQueue.items[k]
<1> DEFINE K == QKeys(recvPacketQueue)
           Goal == \/ SeqLe(k, localAckNr) \/ localState' = "RESET"
                   \/ \E j \in K : SeqLt(j, localAckNr) /\ k < j
                   \/ \E j \in Len(consumed) + 1 .. Len(consumed') :
                         consumed'[j] = recvPacketQueue.items[k]
<1>1. LoopOK(Loop) /\ K \in SUBSET SeqNrs
  BY DEF RecvIInv, RecvTypeOK
<1>2. ShortStream
  BY HalfRound, ReceiverAssumption DEF HalfStream, ShortStream
<1>3. ASSUME NEW i \in Packets, localState = "CONNECTED",
             recvPacketQueue' = AfterQueueing(i).queue,
             consumed' = AfterQueueing(i).consumed
      PROVE  Goal
  <2>1. \/ StaysOrIsConsumed(k, recvPacketQueue.items[k], AfterQueueing(i), Len(consumed))
        \/ /\ SeqAdd(localAckNr, 1) \notin K
           /\ IsAtCapacity(recvPacketQueue, QueueCapacity)
           /\ \A j \in K : k <= j
    BY <1>1, <1>2, QueueingAccounts
  <2>2. CASE StaysOrIsConsumed(k, recvPacketQueue.items[k], AfterQueueing(i), Len(consumed))
    <3>1. k \notin QKeys(AfterQueueing(i).queue)
      BY <1>3 DEF QKeys
    <3> QED
      BY <1>3, <2>2, <3>1 DEF StaysOrIsConsumed
  <2>3. CASE /\ SeqAdd(localAckNr, 1) \notin K
             /\ IsAtCapacity(recvPacketQueue, QueueCapacity)
             /\ \A j \in K : k <= j
             /\ ~SeqLe(k, localAckNr)
    <3>1. PICK j \in K : SeqLt(j, localAckNr)
      BY <1>3, <2>3, FullQueueHoldsOldOnes
    <3>2. k # j
      BY <2>3, <3>1 DEF SeqLe
    <3>3. k \in Int /\ j \in Int /\ k <= j
      BY <1>1, <2>3, SeqModAssumption DEF SeqNrs
    <3>4. k < j
      BY <3>2, <3>3
    <3> QED
      BY <3>1, <3>4
  <2> QED
    BY <2>1, <2>2, <2>3
<1>4. CASE \E i \in Packets : HandleData(i)
  BY <1>3, <1>4 DEF HandleData
<1>5. CASE \E empty \in BOOLEAN : HandleFin(empty)
  <2>1. FIN \in Packets
    BY ReceiverAssumption DEF FIN, Packets
  <2> QED
    BY <1>3, <1>5, <2>1 DEF HandleFin
<1>6. CASE HandleReset
  BY <1>6 DEF HandleReset
<1>7. CASE recvPacketQueue' = recvPacketQueue
  BY <1>7 DEF QKeys
<1> QED
  BY <1>4, <1>5, <1>6, <1>7 DEF RecvNext, HandleAtSynSent, HandleAtSynReceived, LocalClose, recvVars

\* A packet ahead of ackNr stays in the queue until it is consumed, for a
\* stream of at most half a round and a queue with more room than packets may
\* arrive ahead: the sender may drop what it has seen selectively acknowledged.
THEOREM QueuedStaysQueued ==
    ASSUME HalfStream, PeerWindow < QueueCapacity
    PROVE  RecvSpec => QueuedUntilConsumed
<1> DEFINE I == RecvIInv /\ RecvOrder /\ NearBy /\ BeforeFin
<1>1. ShortStream
  BY HalfRound, ReceiverAssumption DEF HalfStream, ShortStream
<1>2. RecvInit => I
  <2>1. RecvInit => RecvIInv /\ RecvOrder
    BY RecvInitEstablishes
  <2>2. RecvInit => NearBy /\ BeforeFin
    BY EmptyQueueOK DEF RecvInit, NearBy, BeforeFin
  <2> QED
    BY <2>1, <2>2
<1>3. I /\ [RecvNext]_recvVars => I'
  BY <1>1, RecvNextPreserves, NextStaysNear, NextStaysBeforeFin
<1>4. I /\ [RecvNext]_recvVars =>
         [\A k \in QKeys(recvPacketQueue) :
            k \notin QKeys(recvPacketQueue') =>
               \/ SeqLe(k, localAckNr) \/ localState' = "RESET"
               \/ \E j \in QKeys(recvPacketQueue) : SeqLt(j, localAckNr) /\ k < j
               \/ \E j \in Len(consumed) + 1 .. Len(consumed') :
                     consumed'[j] = recvPacketQueue.items[k]]_recvVars
  BY NextKeepsQueued
<1> QED
  BY <1>2, <1>3, <1>4, PTL DEF RecvSpec, QueuedUntilConsumed

-----------------------------------------------------------------------------
(* What a receiver has, when its queue is large enough for the stream *)

\* r has consumed packet d or has it queued.
HeldIn(r, d) ==
    \/ \E j \in 1 .. Len(r.consumed) : r.consumed[j] = d
    \/ PacketSeq(d) \in QKeys(r.queue) /\ r.queue.items[PacketSeq(d)] = d

\* The last packet consumed, 0 if there is none.
LastIn(c) == IF c = <<>> THEN 0 ELSE c[Len(c)]

\* What a side has consumed is a stretch of the stream.
LEMMA ConsumedStretch ==
    ASSUME NEW c \in Seq(Packets), \A j \in 2 .. Len(c) : c[j] = c[j - 1] + 1
    PROVE  /\ Len(c) \in Nat /\ Len(c) <= NumData + 1
           /\ \A j \in 1 .. Len(c) : c[j] = c[1] + (j - 1) /\ c[j] \in 1 .. NumData + 1
           /\ c # <<>> => /\ c[1] \in 1 .. NumData + 1 /\ Len(c) \in Nat \ {0}
                          /\ LastIn(c) = c[1] + (Len(c) - 1) /\ LastIn(c) \in 1 .. NumData + 1
<1> DEFINE B == {j \in 1 .. Len(c) : ~(c[j] = c[1] + (j - 1))}
<1>0. NumData \in Nat
  BY ReceiverAssumption
<1>1. Len(c) \in Nat /\ \A j \in 1 .. Len(c) : c[j] \in 1 .. NumData + 1
  <2>1. Len(c) \in Nat /\ \A j \in 1 .. Len(c) : c[j] \in Packets
    OBVIOUS
  <2> QED
    BY <2>1, Zenon DEF Packets
<1>2. B = {}
  <2>1. SUFFICES ASSUME B # {} PROVE FALSE
    OBVIOUS
  <2>2. B \in SUBSET Nat
    OBVIOUS
  <2>3. PICK j \in B : \A m \in B : j <= m
    <3> HIDE DEF B
    <3> QED
      BY <2>1, <2>2, LeastNat
  <2>4. j \in 1 .. Len(c) /\ ~(c[j] = c[1] + (j - 1))
    BY <2>3
  <2>5. 1 \in 1 .. Len(c) /\ c[1] \in Int
    BY <1>0, <1>1, <2>4
  <2>6. j # 1
    BY <2>4, <2>5
  <2>7. j - 1 \in 1 .. Len(c) /\ j \in 2 .. Len(c) /\ ~(j <= j - 1)
    BY <1>1, <2>4, <2>6
  <2>8. c[j - 1] = c[1] + (j - 1 - 1)
    BY <2>3, <2>7
  <2>9. c[j] = c[j - 1] + 1
    BY <2>7
  <2> QED
    BY <2>4, <2>5, <2>8, <2>9
<1>3. \A j \in 1 .. Len(c) : c[j] = c[1] + (j - 1)
  BY <1>2
<1>4. ASSUME c # <<>>
      PROVE  /\ Len(c) \in Nat \ {0} /\ Len(c) \in 1 .. Len(c) /\ 1 \in 1 .. Len(c)
             /\ LastIn(c) = c[Len(c)]
  BY <1>1, <1>4 DEF LastIn
<1>5. ASSUME c # <<>>
      PROVE  /\ c[1] \in 1 .. NumData + 1 /\ LastIn(c) \in 1 .. NumData + 1
             /\ LastIn(c) = c[1] + (Len(c) - 1)
  BY <1>1, <1>3, <1>4, <1>5
<1>6. Len(c) <= NumData + 1
  <2>1. CASE c = <<>>
    BY <1>0, <2>1
  <2>2. CASE c # <<>>
    BY <1>0, <1>4, <1>5, <2>2
  <2> QED
    BY <2>1, <2>2
<1> QED
  BY <1>1, <1>3, <1>4, <1>5, <1>6

\* A queue with room for the stream loses nothing.
LEMMA HeldStays ==
    ASSUME ShortStream, NumData < QueueCapacity, LoopOK(Loop), NEW i \in Packets,
           NEW d \in Packets, d = i \/ HeldIn(Loop, d)
    PROVE  HeldIn(AfterQueueing(i), d)
<1> DEFINE after == AfterQueueing(i)
           K == QKeys(recvPacketQueue)
           L == Len(consumed)
<1>1. /\ L \in Nat /\ Len(after.consumed) \in Nat /\ L <= Len(after.consumed)
      /\ \A j \in 1 .. L : after.consumed[j] = consumed[j]
      /\ StaysOrIsConsumed(PacketSeq(i), i, after, L)
      /\ \A k \in K : \/ StaysOrIsConsumed(k, recvPacketQueue.items[k], after, L)
                      \/ PacketSeq(i) \notin K /\ IsAtCapacity(recvPacketQueue, QueueCapacity)
  BY QueueingAccounts
<1>2. Loop.consumed = consumed /\ Loop.queue = recvPacketQueue /\ QueueOK(recvPacketQueue)
  BY DEF Loop, LoopOK
<1>3. ASSUME PacketSeq(i) \notin K, IsAtCapacity(recvPacketQueue, QueueCapacity)
      PROVE  FALSE
  <2> DEFINE T == Packets \ {i}
  <2>1. \A k \in K : recvPacketQueue.items[k] \in T
    <3>1. \A k \in K : recvPacketQueue.items[k] \in Packets /\ PacketSeq(recvPacketQueue.items[k]) = k
      BY <1>2 DEF QueueOK
    <3> QED
      BY <1>3, <3>1
  <2>2. IsFiniteSet(Packets) /\ Cardinality(Packets) = NumData + 1
    <3>1. 1 \in Int /\ NumData + 1 \in Int /\ ~(1 > NumData + 1) /\ NumData + 1 - 1 + 1 = NumData + 1
      BY ReceiverAssumption
    <3> QED
      BY <3>1, FS_Interval DEF Packets
  <2>3. IsFiniteSet(T) /\ Cardinality(T) = NumData
    <3>1. IsFiniteSet(T) /\ Cardinality(T) = Cardinality(Packets) - 1
      BY <2>2, FS_RemoveElement
    <3> QED
      BY <2>2, <3>1, ReceiverAssumption
  <2> HIDE DEF T
  <2>4. Cardinality(K) <= NumData
    BY <1>2, <2>1, <2>3, QueueNoLarger
  <2>5. Cardinality(K) >= QueueCapacity /\ Cardinality(K) \in Nat
    BY <1>2, <1>3, SeqNrsFinite DEF IsAtCapacity, QueueOK
  <2> QED
    BY <2>4, <2>5, ReceiverAssumption
<1>4. ASSUME NEW k, NEW item, StaysOrIsConsumed(k, item, after, L), k = PacketSeq(item)
      PROVE  HeldIn(after, item)
  <2>1. L + 1 .. Len(after.consumed) \subseteq 1 .. Len(after.consumed)
    BY <1>1
  <2> QED
    BY <1>4, <2>1 DEF StaysOrIsConsumed, HeldIn
<1>5. CASE d = i
  BY <1>1, <1>4, <1>5
<1>6. CASE \E j \in 1 .. L : consumed[j] = d
  <2>1. 1 .. L \subseteq 1 .. Len(after.consumed)
    BY <1>1
  <2> QED
    BY <1>1, <1>6, <2>1 DEF HeldIn
<1>7. CASE PacketSeq(d) \in K /\ recvPacketQueue.items[PacketSeq(d)] = d
  BY <1>1, <1>3, <1>4, <1>7
<1> QED
  BY <1>2, <1>5, <1>6, <1>7 DEF HeldIn

\* The loop takes the next packet if it is queued.
LEMMA ProcessAdvances ==
    ASSUME NEW r, LoopOK(r), SeqAdd(r.ackNr, 1) \in QKeys(r.queue)
    PROVE  Len(r.consumed) < Len(ProcessReceivedPackets(r).consumed)
<1> DEFINE first == SeqAdd(r.ackNr, 1)
           n == RunLength(r.ackNr, QKeys(r.queue))
<1>1. n \in Nat /\ first \in SeqNrs /\ first + n \notin QKeys(r.queue)
  BY ProcessTakesRun
<1>2. Len(r.consumed) \in Nat /\ Len(ProcessReceivedPackets(r).consumed) = Len(r.consumed) + n
  BY ProcessConsumes
<1> HIDE DEF n, first
<1>3. n # 0
  <2>1. n = 0 => first + n = first
    BY <1>1, SeqModAssumption DEF SeqNrs
  <2> QED
    BY <1>1, <2>1 DEF first
<1> QED
  BY <1>1, <1>2, <1>3

\* Handling any packet takes the next one if it is queued: also the one with
\* number 0, which may have waited.
LEMMA QueueingAdvances ==
    ASSUME ShortStream, LoopOK(Loop), NEW i \in Packets,
           SeqAdd(localAckNr, 1) \in QKeys(recvPacketQueue)
    PROVE  Len(consumed) < Len(AfterQueueing(i).consumed)
<1> DEFINE room == IF IsAtCapacity(recvPacketQueue, QueueCapacity)
                   THEN ProcessReceivedPackets(Loop) ELSE Loop
           q == Enqueue(room.queue, QueueCapacity, PacketSeq(i), i)
           queued == [ackNr |-> room.ackNr, queue |-> q, consumed |-> room.consumed]
           after == ProcessReceivedPackets(queued)
<1>1. /\ Loop.queue = recvPacketQueue /\ Loop.consumed = consumed /\ Loop.ackNr = localAckNr
      /\ Len(consumed) \in Nat
  BY DEF Loop, LoopOK
<1>2. LoopOK(room)
  BY ProcessKeeps
<1>3. AfterQueueing(i) = ProcessReceivedPackets([room EXCEPT !.queue = q])
  BY DEF AfterQueueing, Loop
<1>4. \/ Len(consumed) < Len(room.consumed)
      \/ ~IsAtCapacity(recvPacketQueue, QueueCapacity) /\ room = Loop
  <2>1. CASE IsAtCapacity(recvPacketQueue, QueueCapacity)
    BY <1>1, <2>1, ProcessAdvances
  <2> QED
    BY <2>1
<1> HIDE DEF room
<1>5. QueueOK(q)
  BY <1>2, EnqueueKeeps DEF LoopOK
<1>6. room = Loop /\ ~IsAtCapacity(recvPacketQueue, QueueCapacity) => SeqAdd(localAckNr, 1) \in QKeys(q)
  <2>1. QueueOK(recvPacketQueue)
    BY <1>1 DEF LoopOK
  <2>2. \A k \in QKeys(recvPacketQueue) :
           \/ k \in QKeys(Enqueue(recvPacketQueue, QueueCapacity, PacketSeq(i), i))
           \/ IsAtCapacity(recvPacketQueue, QueueCapacity)
    BY <2>1, EnqueueAccounts
  <2> QED
    BY <1>1, <2>2
<1> HIDE DEF q
<1>7. [room EXCEPT !.queue = q] = queued
  BY <1>2 DEF LoopOK
<1>8. /\ queued.ackNr = room.ackNr /\ queued.queue = q /\ queued.consumed = room.consumed
      /\ queued = [ackNr |-> queued.ackNr, queue |-> queued.queue, consumed |-> queued.consumed]
  OBVIOUS
<1> HIDE DEF queued
<1>9. LoopOK(queued)
  BY <1>2, <1>5, <1>8 DEF LoopOK
<1>10. Len(room.consumed) \in Nat /\ Len(room.consumed) <= Len(after.consumed) /\ Len(after.consumed) \in Nat
  BY <1>8, <1>9, ProcessLeaves
<1>11. CASE Len(consumed) < Len(room.consumed)
  BY <1>1, <1>3, <1>7, <1>10, <1>11
<1>12. CASE room = Loop /\ ~IsAtCapacity(recvPacketQueue, QueueCapacity)
  <2>1. Len(queued.consumed) < Len(after.consumed)
    BY <1>1, <1>6, <1>8, <1>9, <1>12, ProcessAdvances
  <2> QED
    BY <1>1, <1>3, <1>7, <1>8, <1>12, <2>1
<1> QED
  BY <1>4, <1>11, <1>12

\* What the next packet of the stream is numbered, and where it is if held.
LEMMA NextIsQueued ==
    ASSUME ShortStream, NEW r, LoopOK(r), InOrder(r), LastIn(r.consumed) + 1 \in 1 .. NumData,
           HeldIn(r, LastIn(r.consumed) + 1)
    PROVE  /\ PacketSeq(LastIn(r.consumed) + 1) = SeqAdd(r.ackNr, 1)
           /\ SeqAdd(r.ackNr, 1) \in QKeys(r.queue)
<1> DEFINE c == r.consumed
           l == LastIn(c)
<1>0. NumData \in Nat
  BY ReceiverAssumption
<1>1. c \in Seq(Packets) /\ (\A j \in 2 .. Len(c) : c[j] = c[j - 1] + 1)
  BY DEF LoopOK, InOrder
<1> HIDE DEF c
<1>2. /\ Len(c) \in Nat
      /\ \A j \in 1 .. Len(c) : c[j] = c[1] + (j - 1)
      /\ c # <<>> => /\ c[1] \in 1 .. NumData + 1
                     /\ l = c[1] + (Len(c) - 1) /\ l \in 1 .. NumData + 1
  BY <1>1, ConsumedStretch
<1>3. l \in Nat /\ (c = <<>> => l = 0)
  BY <1>2 DEF LastIn
<1>4. r.ackNr = PacketSeq(l)
  <2>1. CASE c = <<>>
    <3>1. r.ackNr = SeqAdd(FirstSeq, -1) /\ l = 0 /\ 0 - 1 = -1
      BY <1>3, <2>1 DEF InOrder, c
    <3> QED
      BY <3>1 DEF PacketSeq
  <2>2. CASE c # <<>>
    BY <2>2 DEF LoopOK, LastIn, c
  <2> QED
    BY <2>1, <2>2
<1>5. PacketSeq(l + 1) \in QKeys(r.queue)
  <2>1. ASSUME NEW j \in 1 .. Len(c), c[j] = l + 1 PROVE FALSE
    <3>1. c # <<>> /\ c[j] = c[1] + (j - 1) /\ j <= Len(c)
      BY <1>2, <2>1
    <3>2. c[1] \in Int /\ l = c[1] + (Len(c) - 1) /\ j \in Int
      BY <1>0, <1>2, <3>1
    <3> HIDE DEF l
    <3> QED
      BY <1>2, <2>1, <3>1, <3>2
  <2>2. HeldIn(r, l + 1)
    BY DEF c
  <2> QED
    BY <2>1, <2>2 DEF HeldIn, c
<1> HIDE DEF l
<1>6. PacketSeq(l + 1) = SeqAdd(PacketSeq(l), 1)
  <2>1. /\ SeqMod \in Nat /\ FirstSeq \in Nat /\ FirstSeq < SeqMod /\ NumData + 1 < SeqMod
        /\ SeqMod > 3 /\ NumData \in Nat
        /\ l + 1 \in 0 .. NumData + 1 /\ l \in 0 .. NumData + 1 /\ l + 1 \in Nat
    <3>1. l + 1 \in 1 .. NumData
      BY DEF l, c
    <3> QED
      BY <1>0, <1>3, <3>1, SeqModAssumption, ReceiverAssumption DEF ShortStream, SeqNrs
  <2>2. PacketSeq(l) = IF FirstSeq + l < 1 THEN SeqMod - 1
                       ELSE IF FirstSeq + (l - 1) < SeqMod THEN FirstSeq + (l - 1)
                       ELSE FirstSeq + (l - 1) - SeqMod
    BY <2>1, PacketSeqOf
  <2>3. PacketSeq(l + 1) = IF FirstSeq + (l + 1) < 1 THEN SeqMod - 1
                       ELSE IF FirstSeq + (l + 1 - 1) < SeqMod THEN FirstSeq + (l + 1 - 1)
                       ELSE FirstSeq + (l + 1 - 1) - SeqMod
    BY <2>1, PacketSeqOf
  <2>4. PacketSeq(l) \in SeqNrs /\ 1 \in 0 .. SeqMod /\ l \in Int
    BY <1>3, <2>1, PacketSeqType
  <2>5. SeqAdd(PacketSeq(l), 1) = IF PacketSeq(l) + 1 < SeqMod THEN PacketSeq(l) + 1
                                  ELSE PacketSeq(l) + 1 - SeqMod
    BY <2>4, SeqAddWraps
  <2>6. l \in Nat /\ l < SeqMod /\ PacketSeq(l) \in Nat /\ PacketSeq(l + 1) \in Int
        /\ SeqAdd(PacketSeq(l), 1) \in Int
    <3>1. l \in Nat /\ l < SeqMod /\ 1 \in Int /\ l + 1 \in Int
      BY <1>3, <2>1
    <3>2. \A n \in SeqNrs : n \in Nat /\ n \in Int
      BY <2>1 DEF SeqNrs
    <3>3. PacketSeq(l) \in Nat /\ PacketSeq(l) \in Int
      BY <2>4, <3>2, Zenon
    <3>4. PacketSeq(l + 1) \in SeqNrs
      BY <3>1, PacketSeqType, Zenon
    <3>5. SeqAdd(PacketSeq(l), 1) \in SeqNrs
      BY <3>1, <3>3, SeqAddType, Zenon
    <3> QED
      BY <3>1, <3>2, <3>3, <3>4, <3>5, Zenon
  <2> QED
    BY <2>1, <2>2, <2>3, <2>5, <2>6, NextPlaceOnCircle
<1> QED
  BY <1>4, <1>5, <1>6 DEF l, c

\* If a side has all data but what precedes its first packet when another packet
\* arrives, say the FIN, it has consumed all data once that packet is handled.
LEMMA AllHeldIsConsumed ==
    ASSUME ShortStream, NumData < QueueCapacity, LoopOK(Loop), InOrder(Loop),
           SeqAdd(localAckNr, 1) \notin QKeys(recvPacketQueue) \ {0}, NEW i \in Packets,
           \A d \in 1 .. NumData : HeldIn(Loop, d) \/ (consumed # <<>> /\ d < consumed[1])
    PROVE  NumData <= LastIn(AfterQueueing(i).consumed)
<1> DEFINE after == AfterQueueing(i)
           a == after.consumed
           l == LastIn(consumed)
           m == LastIn(a)
<1>0. NumData \in Nat
  BY ReceiverAssumption
<1>1. /\ LoopOK(after) /\ InOrder(after)
      /\ SeqAdd(after.ackNr, 1) \notin QKeys(after.queue) \ {0}
  BY AfterQueueingKeeps
<1>2. /\ Len(consumed) \in Nat /\ Len(a) \in Nat /\ Len(consumed) <= Len(a)
      /\ \A j \in 1 .. Len(consumed) : a[j] = consumed[j]
  BY QueueingAccounts
<1>3. Loop.consumed = consumed /\ Loop.ackNr = localAckNr /\ Loop.queue = recvPacketQueue
  BY DEF Loop
<1>4. \A d \in 1 .. NumData : HeldIn(after, d) \/ (consumed # <<>> /\ d < consumed[1])
  <2>1. \A d \in 1 .. NumData : d \in Packets
    BY <1>0 DEF Packets
  <2> QED
    BY <2>1, HeldStays
<1>5. /\ consumed \in Seq(Packets) /\ (\A j \in 2 .. Len(consumed) : consumed[j] = consumed[j - 1] + 1)
      /\ a \in Seq(Packets) /\ (\A j \in 2 .. Len(a) : a[j] = a[j - 1] + 1)
  BY <1>1, <1>3 DEF LoopOK, InOrder
<1> HIDE DEF a
<1>6. /\ consumed # <<>> => /\ consumed[1] \in 1 .. NumData + 1 /\ Len(consumed) \in Nat \ {0}
                            /\ l = consumed[1] + (Len(consumed) - 1) /\ l \in 1 .. NumData + 1
      /\ a # <<>> => /\ a[1] \in 1 .. NumData + 1 /\ Len(a) \in Nat \ {0}
                     /\ m = a[1] + (Len(a) - 1) /\ m \in 1 .. NumData + 1
      /\ consumed = <<>> => l = 0
      /\ a = <<>> => m = 0
  <2>1. (consumed = <<>> => l = 0) /\ (a = <<>> => m = 0)
    BY DEF LastIn
  <2> QED
    BY <1>5, <2>1, ConsumedStretch
<1>7. consumed # <<>> => /\ a # <<>> /\ a[1] = consumed[1]
                         /\ consumed[1] <= l /\ consumed[1] <= m
  BY <1>0, <1>2, <1>6
<1> HIDE DEF l, m
<1>8. SUFFICES ASSUME ~(NumData <= m) PROVE FALSE
  BY DEF m, a
<1>9. /\ l \in Nat /\ m \in Nat /\ l <= m
      /\ Len(consumed) < Len(a) => l < m
  <2>1. CASE consumed = <<>>
    <3>1. l = 0 /\ Len(consumed) = 0
      BY <1>6, <2>1
    <3>2. CASE a = <<>>
      BY <1>6, <3>1, <3>2
    <3>3. CASE a # <<>>
      BY <1>0, <1>6, <3>1, <3>3
    <3> QED
      BY <3>2, <3>3
  <2>2. CASE consumed # <<>>
    BY <1>0, <1>2, <1>6, <1>7, <2>2
  <2> QED
    BY <2>1, <2>2
<1>10. l + 1 \in 1 .. NumData /\ m + 1 \in 1 .. NumData
  BY <1>0, <1>8, <1>9
<1>11. HeldIn(Loop, l + 1) /\ HeldIn(after, m + 1)
  <2>1. ~(consumed # <<>> /\ l + 1 < consumed[1]) /\ ~(consumed # <<>> /\ m + 1 < consumed[1])
    BY <1>0, <1>6, <1>7, <1>9
  <2> QED
    BY <1>4, <1>10, <2>1
\* What waits is number 0 then, before and after: nothing was consumed, though
\* the next packet was queued.
<1> HIDE DEF after
<1>12. PacketSeq(l + 1) = SeqAdd(localAckNr, 1) /\ SeqAdd(localAckNr, 1) \in QKeys(recvPacketQueue)
  BY <1>3, <1>10, <1>11, NextIsQueued DEF l
<1>13. PacketSeq(m + 1) = SeqAdd(after.ackNr, 1) /\ SeqAdd(after.ackNr, 1) \in QKeys(after.queue)
  BY <1>1, <1>10, <1>11, NextIsQueued DEF m, a
<1>14. PacketSeq(l + 1) = PacketSeq(m + 1)
  BY <1>1, <1>12, <1>13
<1>15. l + 1 = m + 1
  <2>1. l + 1 \in Packets /\ m + 1 \in Packets
    BY <1>0, <1>10 DEF Packets
  <2> QED
    BY <1>14, <2>1, PacketSeqInjective
<1>16. Len(consumed) < Len(a)
  BY <1>12, QueueingAdvances DEF after, a
<1> QED
  BY <1>9, <1>15, <1>16
=============================================================================
