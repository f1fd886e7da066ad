------------------------- MODULE UtpSendWindowProofs -------------------------
(***************************************************************************)
(* What UtpSendWindow guarantees for every modulus, window bound, resend   *)
(* limit and set of advertised windows: type correctness, no forgotten     *)
(* writer, a bounded number of packets in flight, and an acknowledgement   *)
(* that only moves forward; and, for connections that write no more than   *)
(* half a round of sequence numbers, that every packet is in one place, is *)
(* let in by number, is counted once and goes when it is acknowledged.     *)
(***************************************************************************)
EXTENDS UtpSendWindow, SeqNrProofs, TLAPS

\* A map whose waiting setters wait because it is full.
Settled(bm) == bm.waiting # <<>> => Size(bm) >= bm.capacity

\* A well-formed map that holds no more packets than the largest window.
Bounded(bm) == IsPacketMap(bm) /\ Size(bm) <= MaxWindow

\* The inductive invariant: types, BlockedOnlyWhenFull and InFlightBounded.
MapOK == Bounded(packetMap) /\ Settled(packetMap)
IInv == TypeOK /\ MapOK

-----------------------------------------------------------------------------
(* BlockingMap *)

\* The loop of resolveNextSetter stops: after a number of setters that all had
\* room, and because nobody waits or the map is full.
LEMMA AdmitCountStops ==
    ASSUME NEW bm, IsPacketMap(bm)
    PROVE  /\ AdmitCount(bm) \in 0 .. Len(bm.waiting)
           /\ \A m \in 0 .. AdmitCount(bm) - 1 : HasRoomAfter(bm, m)
           /\ AdmitCount(bm) = Len(bm.waiting) \/ ~HasRoomAfter(bm, AdmitCount(bm))
<1> DEFINE L == Len(bm.waiting)
           S == {n \in 0 .. L : n = L \/ ~HasRoomAfter(bm, n)}
<1>1. L \in Nat
  BY DEF IsPacketMap
<1>2. S \in SUBSET Nat /\ L \in S
  BY <1>1
<1> HIDE DEF S
<1>3. PICK n \in S : \A m \in S : n <= m
  BY <1>2, LeastNat
<1> HIDE DEF L
<1>4. /\ n \in 0 .. L
      /\ \A m \in 0 .. n - 1 : HasRoomAfter(bm, m)
      /\ n = L \/ ~HasRoomAfter(bm, n)
  <2>1. n \in 0 .. L /\ (n = L \/ ~HasRoomAfter(bm, n))
    BY <1>3 DEF S
  <2>2. ASSUME NEW m \in 0 .. n - 1
        PROVE  HasRoomAfter(bm, m)
    <3>1. m \in 0 .. L /\ ~(n <= m)
      BY <1>1, <2>1
    <3>2. m \notin S
      BY <1>3, <3>1
    <3> QED
      BY <3>1, <3>2 DEF S
  <2> QED
    BY <2>1, <2>2
<1> QED
  BY <1>4 DEF AdmitCount, L

\* Letting waiting setters in keeps the map well-formed.
LEMMA LetInType ==
    ASSUME NEW bm, IsPacketMap(bm), NEW n \in 0 .. Len(bm.waiting)
    PROVE  /\ IsPacketMap(LetIn(bm, n))
           /\ LetIn(bm, n).capacity = bm.capacity
           /\ LetIn(bm, n).waiting = SubSeq(bm.waiting, n + 1, Len(bm.waiting))
           /\ Keys(LetIn(bm, n)) = KeysAfter(bm, n)
           /\ KeysAfter(bm, n) \in SUBSET SeqNrs
<1> DEFINE f == [k \in KeysAfter(bm, n) |->
                    IF \E i \in 1 .. n : bm.waiting[i] = k THEN Fresh ELSE bm.map[k]]
           w == SubSeq(bm.waiting, n + 1, Len(bm.waiting))
<1>1. bm.waiting \in Seq(SeqNrs) /\ Len(bm.waiting) \in Nat
  BY DEF IsPacketMap
<1>2. \A i \in 1 .. n : bm.waiting[i] \in SeqNrs
  BY <1>1
<1>3. KeysAfter(bm, n) \subseteq SeqNrs
  BY <1>2 DEF KeysAfter, IsPacketMap
<1>4. f \in [KeysAfter(bm, n) -> 0 .. ResendTimesLimit]
  <2>1. SUFFICES ASSUME NEW k \in KeysAfter(bm, n)
                 PROVE  f[k] \in 0 .. ResendTimesLimit
    OBVIOUS
  <2>2. CASE \E i \in 1 .. n : bm.waiting[i] = k
    BY <2>2, SendWindowAssumption DEF Fresh
  <2>3. CASE ~ \E i \in 1 .. n : bm.waiting[i] = k
    <3>1. k \in Keys(bm)
      BY <2>3 DEF KeysAfter
    <3> QED
      BY <2>3, <3>1 DEF IsPacketMap
  <2> QED
    BY <2>2, <2>3
<1>5. w \in Seq(SeqNrs)
  BY <1>1
<1>6. DOMAIN f = KeysAfter(bm, n)
  OBVIOUS
<1>7. LetIn(bm, n) = BM(f, bm.capacity, w)
  BY DEF LetIn
<1> HIDE DEF f, w
<1>8. bm.capacity \in 1 .. MaxWindow
  BY DEF IsPacketMap
<1>9. IsPacketMap(BM(f, bm.capacity, w))
  BY <1>3, <1>4, <1>5, <1>6, <1>8 DEF IsPacketMap, BM, Keys
<1>10. /\ BM(f, bm.capacity, w).map = f
       /\ BM(f, bm.capacity, w).capacity = bm.capacity
       /\ BM(f, bm.capacity, w).waiting = w
  BY DEF BM
<1>11. Keys(LetIn(bm, n)) = KeysAfter(bm, n)
  BY <1>6, <1>7, <1>10 DEF Keys
<1> QED
  BY <1>3, <1>7, <1>9, <1>10, <1>11 DEF w

\* resolveNextSetter leaves a setter waiting only if the map is full, and fills
\* the map no further than its capacity.
LEMMA ResolveNextSetterSettles ==
    ASSUME NEW bm, Bounded(bm)
    PROVE  /\ Bounded(ResolveNextSetter(bm))
           /\ Settled(ResolveNextSetter(bm))
<1> DEFINE n == AdmitCount(bm)
           L == Len(bm.waiting)
<1>1. IsPacketMap(bm)
  BY DEF Bounded
<1>2. /\ n \in 0 .. L
      /\ \A m \in 0 .. n - 1 : HasRoomAfter(bm, m)
      /\ n = L \/ ~HasRoomAfter(bm, n)
  BY <1>1, AdmitCountStops
<1> HIDE DEF n
<1>3. /\ IsPacketMap(LetIn(bm, n))
      /\ LetIn(bm, n).capacity = bm.capacity
      /\ LetIn(bm, n).waiting = SubSeq(bm.waiting, n + 1, L)
      /\ Keys(LetIn(bm, n)) = KeysAfter(bm, n)
      /\ KeysAfter(bm, n) \in SUBSET SeqNrs
  BY <1>1, <1>2, LetInType
<1>4. /\ bm.waiting \in Seq(SeqNrs) /\ L \in Nat
      /\ bm.capacity \in 1 .. MaxWindow /\ MaxWindow \in Nat
  BY <1>1, SendWindowAssumption DEF IsPacketMap
<1>5. Cardinality(KeysAfter(bm, n)) \in Nat
  BY <1>3, SeqNrsFinite
<1>6. Settled(LetIn(bm, n))
  <2>1. CASE n = L
    <3>1. SubSeq(bm.waiting, n + 1, L) = <<>>
      BY <1>4, <2>1
    <3> QED
      BY <1>3, <3>1 DEF Settled
  <2>2. CASE ~HasRoomAfter(bm, n)
    BY <1>3, <1>4, <1>5, <2>2 DEF HasRoomAfter, Settled, Size
  <2> QED
    BY <1>2, <2>1, <2>2
<1>7. Cardinality(KeysAfter(bm, n)) <= MaxWindow
  <2>1. CASE n = 0
    <3>1. KeysAfter(bm, n) = Keys(bm)
      BY <2>1 DEF KeysAfter
    <3> QED
      BY <3>1 DEF Bounded, Size
  <2>2. CASE n # 0
    <3>1. n - 1 \in 0 .. L /\ n - 1 \in 0 .. n - 1 /\ n \in 1 .. L
      BY <1>2, <1>4, <2>2
    <3>2. HasRoomAfter(bm, n - 1) /\ KeysAfter(bm, n - 1) \in SUBSET SeqNrs
      BY <1>1, <1>2, <3>1, LetInType
    <3>3. bm.waiting[n] \in SeqNrs
      BY <1>4, <3>1
    <3>4. KeysAfter(bm, n) = KeysAfter(bm, n - 1) \cup {bm.waiting[n]}
      <4>1. 1 .. n = (1 .. n - 1) \cup {n}
        BY <3>1, <1>4
      <4> QED
        BY <4>1 DEF KeysAfter
    <3>5. Cardinality(KeysAfter(bm, n)) <= Cardinality(KeysAfter(bm, n - 1)) + 1
      BY <3>2, <3>3, <3>4, AddOne
    <3>6. Cardinality(KeysAfter(bm, n - 1)) \in Nat
      BY <3>2, SeqNrsFinite
    <3> QED
      BY <1>4, <1>5, <3>2, <3>5, <3>6 DEF HasRoomAfter
  <2> QED
    BY <2>1, <2>2
<1> QED
  BY <1>3, <1>6, <1>7 DEF ResolveNextSetter, Bounded, Size, n

\* Putting a packet into a map with room keeps it well-formed and bounded.
LEMMA PutBounded ==
    ASSUME NEW bm, Bounded(bm), NEW key \in SeqNrs, Size(bm) < bm.capacity
    PROVE  Bounded(Put(bm, key))
<1> DEFINE f == [k \in Keys(bm) \cup {key} |-> IF k = key THEN Fresh ELSE bm.map[k]]
<1>1. f \in [Keys(bm) \cup {key} -> 0 .. ResendTimesLimit]
  BY SendWindowAssumption DEF Bounded, IsPacketMap, Fresh
<1>2. DOMAIN f = Keys(bm) \cup {key}
  OBVIOUS
<1>3. Put(bm, key) = BM(f, bm.capacity, bm.waiting)
  BY DEF Put
<1> HIDE DEF f
<1>4. IsPacketMap(BM(f, bm.capacity, bm.waiting))
  BY <1>1, <1>2 DEF Bounded, IsPacketMap, BM, Keys
<1>5. Keys(BM(f, bm.capacity, bm.waiting)) = Keys(bm) \cup {key}
  BY <1>2 DEF Keys, BM
<1>6. Cardinality(Keys(bm) \cup {key}) <= Cardinality(Keys(bm)) + 1
  BY AddOne DEF Bounded, IsPacketMap
<1>7. Keys(bm) \in SUBSET SeqNrs /\ Keys(bm) \cup {key} \in SUBSET SeqNrs
  BY DEF Bounded, IsPacketMap
<1>8. Cardinality(Keys(bm)) \in Nat /\ Cardinality(Keys(bm) \cup {key}) \in Nat
  BY <1>7, SeqNrsFinite
<1>9. bm.capacity \in 1 .. MaxWindow /\ MaxWindow \in Nat
  BY SendWindowAssumption DEF Bounded, IsPacketMap
<1>10. Cardinality(Keys(bm) \cup {key}) <= MaxWindow
  BY <1>6, <1>8, <1>9 DEF Size
<1> QED
  BY <1>3, <1>4, <1>5, <1>10 DEF Bounded, Size

\* set(): a newcomer waits only behind a full map.
LEMMA BMSetSettles ==
    ASSUME NEW bm, Bounded(bm), NEW key \in SeqNrs
    PROVE  Bounded(BMSet(bm, key)) /\ Settled(BMSet(bm, key))
<1>1. CASE Size(bm) < bm.capacity
  BY <1>1, PutBounded, ResolveNextSetterSettles DEF BMSet
<1>2. CASE ~(Size(bm) < bm.capacity)
  <2> DEFINE full == BM(bm.map, bm.capacity, Append(bm.waiting, key))
  <2>1. Append(bm.waiting, key) \in Seq(SeqNrs)
    BY DEF Bounded, IsPacketMap
  <2>2. Keys(full) = Keys(bm) /\ full.capacity = bm.capacity
    BY DEF BM, Keys
  <2>3. IsPacketMap(full)
    BY <2>1 DEF Bounded, IsPacketMap, BM, Keys
  <2>4. Cardinality(Keys(bm)) \in Nat /\ bm.capacity \in Nat
    BY SeqNrsFinite DEF Bounded, IsPacketMap
  <2>5. Size(full) = Size(bm)
    BY <2>2 DEF Size
  <2>6. Size(bm) >= bm.capacity
    BY <1>2, <2>4 DEF Size
  <2> HIDE DEF full
  <2>7. Bounded(full) /\ Settled(full)
    BY <2>2, <2>3, <2>5, <2>6 DEF Bounded, Settled
  <2> QED
    BY <1>2, <2>7 DEF BMSet, full
<1> QED
  BY <1>1, <1>2

\* delete() leaves no setter waiting for a slot it freed.
LEMMA BMDeleteSettles ==
    ASSUME NEW bm, Bounded(bm), Settled(bm), NEW K
    PROVE  Bounded(BMDelete(bm, K)) /\ Settled(BMDelete(bm, K))
<1>1. CASE Keys(bm) \cap K = {}
  BY <1>1 DEF BMDelete
<1>2. CASE Keys(bm) \cap K # {}
  <2> DEFINE f == [k \in Keys(bm) \ K |-> bm.map[k]]
             left == BM(f, bm.capacity, bm.waiting)
  <2>1. f \in [Keys(bm) \ K -> 0 .. ResendTimesLimit] /\ DOMAIN f = Keys(bm) \ K
    BY DEF Bounded, IsPacketMap
  <2> HIDE DEF f
  <2>2. IsPacketMap(left) /\ Keys(left) = Keys(bm) \ K
    BY <2>1 DEF Bounded, IsPacketMap, BM, Keys
  <2>3. Keys(bm) \in SUBSET SeqNrs /\ Keys(bm) \ K \in SUBSET SeqNrs
    BY DEF Bounded, IsPacketMap
  <2>4. Cardinality(Keys(bm) \ K) <= Cardinality(Keys(bm))
    BY <2>3, SubsetNoLarger
  <2>5. /\ Cardinality(Keys(bm) \ K) \in Nat /\ Cardinality(Keys(bm)) \in Nat
        /\ MaxWindow \in Nat
    BY <2>3, SeqNrsFinite, SendWindowAssumption
  <2>6. Cardinality(Keys(bm) \ K) <= MaxWindow
    BY <2>4, <2>5 DEF Bounded, Size
  <2> HIDE DEF left
  <2>7. Bounded(left)
    BY <2>2, <2>6 DEF Bounded, Size
  <2>8. BMDelete(bm, K) = ResolveNextSetter(left)
    BY <1>2 DEF BMDelete, Without, left, f
  <2> QED
    BY <2>7, <2>8, ResolveNextSetterSettles
<1> QED
  BY <1>1, <1>2

\* updateCapacity() wakes whom the new capacity has room for.
LEMMA BMUpdateCapacitySettles ==
    ASSUME NEW bm, Bounded(bm), NEW c \in 1 .. MaxWindow
    PROVE  Bounded(BMUpdateCapacity(bm, c)) /\ Settled(BMUpdateCapacity(bm, c))
<1> DEFINE new == BM(bm.map, c, bm.waiting)
<1>1. Keys(new) = Keys(bm)
  BY DEF BM, Keys
<1>2. IsPacketMap(new)
  BY DEF Bounded, IsPacketMap, BM, Keys
<1> HIDE DEF new
<1>3. Bounded(new)
  BY <1>1, <1>2 DEF Bounded, Size
<1> QED
  BY <1>3, ResolveNextSetterSettles DEF BMUpdateCapacity, new

\* The window's reset() leaves no writer waiting for a slot it freed.
LEMMA ResetMapSettles ==
    ASSUME NEW bm, Bounded(bm)
    PROVE  Bounded(ResetMap(bm)) /\ Settled(ResetMap(bm))
<1>1. Keys(BMClear(bm)) = {}
  BY DEF BMClear, EmptyMap, BM, Keys
<1>2. IsPacketMap(BMClear(bm))
  BY DEF Bounded, IsPacketMap, BMClear, EmptyMap, BM, Keys
<1>3. Size(BMClear(bm)) = 0
  BY <1>1, FS_EmptySet DEF Size
<1>4. Bounded(BMClear(bm))
  BY <1>2, <1>3, SendWindowAssumption DEF Bounded
<1>5. MinWindow \in 1 .. MaxWindow
  BY SendWindowAssumption
<1> QED
  BY <1>4, <1>5, BMUpdateCapacitySettles DEF ResetMap

\* applyWindowSize computes a capacity of at least one packet, whatever the
\* peer advertises.
LEMMA WindowSizeInRange ==
    ASSUME NEW cc \in Nat, NEW remote \in Nat \cup {Undefined}
    PROVE  WindowSize(cc, remote) \in 1 .. MaxWindow
BY SendWindowAssumption DEF WindowSize, MaxOf, MinOf, Undefined

\* handleAck's deletions wake the writers they make room for.
LEMMA AfterAckSettles ==
    ASSUME NEW bm, Bounded(bm), Settled(bm), NEW newest, NEW sack
    PROVE  Bounded(AfterAck(bm, newest, sack)) /\ Settled(AfterAck(bm, newest, sack))
<1>1. Bounded(BMDelete(bm, sack)) /\ Settled(BMDelete(bm, sack))
  BY BMDeleteSettles
<1> QED
  BY <1>1, BMDeleteSettles DEF AfterAck

\* handleAck counts a natural number of packets.
LEMMA NewlyAckedType ==
    ASSUME NEW bm, Bounded(bm), Settled(bm), NEW newest, NEW sack
    PROVE  NewlyAcked(bm, newest, sack) \in Nat
<1> DEFINE after == BMDelete(bm, sack)
<1>1. Bounded(after)
  BY BMDeleteSettles
<1> HIDE DEF after
<1>2. CumulativelyAcked(newest, Keys(after)) \in SUBSET SeqNrs
  BY <1>1 DEF CumulativelyAcked, Bounded, IsPacketMap
<1>3. Keys(bm) \cap sack \in SUBSET SeqNrs
  BY DEF Bounded, IsPacketMap
<1>4. /\ Cardinality(CumulativelyAcked(newest, Keys(after))) \in Nat
      /\ Cardinality(Keys(bm) \cap sack) \in Nat
  BY <1>2, <1>3, SeqNrsFinite
<1> QED
  BY <1>4 DEF NewlyAcked, after

-----------------------------------------------------------------------------
(* The invariant *)

\* The initial window is empty.
LEMMA InitEstablishes == Init => IInv
<1> SUFFICES ASSUME Init PROVE IInv
  OBVIOUS
<1>1. /\ Keys(EmptyBlockingMap(MinWindow)) = {}
      /\ IsPacketMap(EmptyBlockingMap(MinWindow))
      /\ EmptyBlockingMap(MinWindow).waiting = <<>>
  BY SendWindowAssumption DEF EmptyBlockingMap, EmptyMap, BM, Keys, IsPacketMap
<1>2. Size(EmptyBlockingMap(MinWindow)) = 0
  BY <1>1, FS_EmptySet DEF Size
<1>3. MapOK
  BY <1>1, <1>2, SendWindowAssumption DEF Init, MapOK, Bounded, Settled
<1>4. TypeOK
  BY <1>1, SendWindowAssumption DEF Init, TypeOK, Undefined
<1> QED
  BY <1>3, <1>4 DEF IInv

\* handleAck, for whatever acknowledgement number, mask and advertised window.
LEMMA HandleAckPreserves ==
    ASSUME IInv, NEW ackNr \in SeqNrs, NEW sack, NEW remote \in Nat,
           HandleAck(ackNr, sack, remote)
    PROVE  IInv'
<1> DEFINE newest == LatestAfter(latest, ackNr)
           once   == AfterAck(packetMap, newest, sack)
<1>1. TypeOK /\ Bounded(packetMap) /\ Settled(packetMap)
  BY DEF IInv, MapOK
<1>2. newest \in SeqNrs \cup {Undefined}
  BY <1>1 DEF TypeOK, LatestAfter
<1> HIDE DEF newest
<1>3. Bounded(once) /\ Settled(once)
  BY <1>1, AfterAckSettles
<1>4. NewlyAcked(packetMap, newest, sack) \in Nat
  BY <1>1, NewlyAckedType
<1> HIDE DEF once
<1>5. PICK cc \in AfterUpdateRtt(ccWindow) :
         LET applied == ApplyWindowSize(once, cc, remote)
         IN  IF connState = "CLOSE_WAIT"
             THEN \E cc2 \in AfterUpdateRtt(cc) :
                     /\ ccWindow' = cc2
                     /\ packetMap' = ApplyWindowSize(AfterAck(applied, newest, sack), cc2, remote)
                     /\ totalAcked' = totalAcked + NewlyAcked(packetMap, newest, sack)
                                                 + NewlyAcked(applied, newest, sack)
             ELSE /\ ccWindow' = cc
                  /\ packetMap' = applied
                  /\ totalAcked' = totalAcked + NewlyAcked(packetMap, newest, sack)
  BY DEF HandleAck, newest, once
<1> DEFINE applied == ApplyWindowSize(once, cc, remote)
<1>6. cc \in 1 .. MaxCongestionWindow
  BY <1>1, SendWindowAssumption DEF TypeOK, AfterUpdateRtt
<1>7. WindowSize(cc, remote) \in 1 .. MaxWindow
  BY <1>6, WindowSizeInRange, SendWindowAssumption
<1>8. Bounded(applied) /\ Settled(applied)
  BY <1>3, <1>7, BMUpdateCapacitySettles DEF ApplyWindowSize
<1> HIDE DEF applied
<1>9. /\ MapOK'
      /\ ccWindow' \in 1 .. MaxCongestionWindow
      /\ totalAcked' \in Nat
  <2>1. CASE connState = "CLOSE_WAIT"
    <3>1. PICK cc2 \in AfterUpdateRtt(cc) :
             /\ ccWindow' = cc2
             /\ packetMap' = ApplyWindowSize(AfterAck(applied, newest, sack), cc2, remote)
             /\ totalAcked' = totalAcked + NewlyAcked(packetMap, newest, sack)
                                         + NewlyAcked(applied, newest, sack)
      BY <1>5, <2>1 DEF applied
    <3>2. cc2 \in 1 .. MaxCongestionWindow
      BY <1>6, SendWindowAssumption DEF AfterUpdateRtt
    <3>3. WindowSize(cc2, remote) \in 1 .. MaxWindow
      BY <3>2, WindowSizeInRange, SendWindowAssumption
    <3>4. /\ Bounded(AfterAck(applied, newest, sack))
          /\ Settled(AfterAck(applied, newest, sack))
      BY <1>8, AfterAckSettles
    <3>5. Bounded(packetMap') /\ Settled(packetMap')
      BY <3>1, <3>3, <3>4, BMUpdateCapacitySettles DEF ApplyWindowSize
    <3>6. NewlyAcked(applied, newest, sack) \in Nat
      BY <1>8, NewlyAckedType
    <3>7. totalAcked' \in Nat
      BY <1>1, <1>4, <3>1, <3>6 DEF TypeOK
    <3> QED
      BY <3>1, <3>2, <3>5, <3>7 DEF MapOK
  <2>2. CASE connState # "CLOSE_WAIT"
    <3>1. /\ ccWindow' = cc
          /\ packetMap' = applied
          /\ totalAcked' = totalAcked + NewlyAcked(packetMap, newest, sack)
      BY <1>5, <2>2 DEF applied
    <3>2. totalAcked' \in Nat
      BY <1>1, <1>4, <3>1 DEF TypeOK
    <3> QED
      BY <1>6, <1>8, <3>1, <3>2 DEF MapOK
  <2> QED
    BY <2>1, <2>2
<1>10. acked' \subseteq SeqNrs
  BY <1>1 DEF TypeOK, HandleAck, Bounded, IsPacketMap
<1>11. TypeOK'
  <2>1. IsPacketMap(packetMap')
    BY <1>9 DEF MapOK, Bounded
  <2>2. /\ latest' = newest /\ remoteWindow' = remote
        /\ connState' = connState /\ localSeqNr' = localSeqNr /\ written' = written
        /\ lost' = lost /\ discarded' = discarded
    BY DEF HandleAck, newest
  <2> QED
    BY <1>1, <1>2, <1>9, <1>10, <2>1, <2>2 DEF TypeOK
<1> QED
  BY <1>9, <1>11 DEF IInv

\* A retransmission changes a counter, not the packets in the window.
LEMMA ResendPreserves ==
    ASSUME IInv, NEW s \in SeqNrs, Resend(s)
    PROVE  IInv'
<1> DEFINE f == [packetMap.map EXCEPT ![s] = @ + 1]
<1>1. TypeOK /\ Bounded(packetMap) /\ Settled(packetMap)
  BY DEF IInv, MapOK
<1>2. /\ packetMap.map \in [Keys(packetMap) -> 0 .. ResendTimesLimit]
      /\ s \in Keys(packetMap)
      /\ packetMap.map[s] < ResendTimesLimit
  BY <1>1 DEF TypeOK, IsPacketMap, Resend
<1>3. f \in [Keys(packetMap) -> 0 .. ResendTimesLimit] /\ DOMAIN f = Keys(packetMap)
  BY <1>2, SendWindowAssumption
<1>4. packetMap' = BM(f, packetMap.capacity, packetMap.waiting)
  BY DEF Resend
<1> HIDE DEF f
<1>5. /\ Keys(packetMap') = Keys(packetMap)
      /\ packetMap'.capacity = packetMap.capacity
      /\ packetMap'.waiting = packetMap.waiting
  BY <1>3, <1>4 DEF BM, Keys
<1>6. IsPacketMap(packetMap')
  BY <1>1, <1>3, <1>4, <1>5 DEF TypeOK, IsPacketMap, BM, Keys
<1>7. MapOK'
  BY <1>1, <1>5, <1>6 DEF MapOK, Bounded, Settled, Size
<1>8. TypeOK'
  BY <1>1, <1>6 DEF TypeOK, Resend
<1> QED
  BY <1>7, <1>8 DEF IInv

\* Giving a packet up shrinks the window first and then frees the packet's slot.
LEMMA GiveUpPreserves ==
    ASSUME IInv, NEW s \in SeqNrs, GiveUp(s)
    PROVE  IInv'
<1> DEFINE cc == AfterPacketLoss(ccWindow)
           small == ApplyWindowSize(packetMap, cc, remoteWindow)
<1>1. TypeOK /\ Bounded(packetMap) /\ Settled(packetMap)
  BY DEF IInv, MapOK
<1>2. cc \in 1 .. MaxCongestionWindow
  <2>1. ccWindow \in 1 .. MaxCongestionWindow /\ MaxCongestionWindow \in Nat
    BY <1>1, SendWindowAssumption DEF TypeOK
  <2>2. (ccWindow + 1) \div 2 \in 1 .. MaxCongestionWindow
    BY <2>1
  <2> QED
    BY <2>1, <2>2 DEF AfterPacketLoss, MaxOf
<1> HIDE DEF cc
<1>3. WindowSize(cc, remoteWindow) \in 1 .. MaxWindow
  BY <1>1, <1>2, WindowSizeInRange, SendWindowAssumption DEF TypeOK
<1>4. Bounded(small) /\ Settled(small)
  BY <1>1, <1>3, BMUpdateCapacitySettles DEF ApplyWindowSize
<1> HIDE DEF small
<1>5. Bounded(packetMap') /\ Settled(packetMap')
  BY <1>4, BMDeleteSettles DEF GiveUp, small, cc
<1>6. TypeOK'
  BY <1>1, <1>2, <1>5 DEF TypeOK, GiveUp, Bounded, cc
<1> QED
  BY <1>5, <1>6 DEF IInv, MapOK

\* Every step of the window preserves the invariant.
LEMMA NextPreserves ==
    ASSUME IInv, [Next]_vars
    PROVE  IInv'
<1>1. TypeOK /\ Bounded(packetMap) /\ Settled(packetMap)
  BY DEF IInv, MapOK
<1>2. CASE WaitForAck
  <2>1. localSeqNr \in SeqNrs
    BY <1>1 DEF TypeOK
  <2>2. Bounded(packetMap') /\ Settled(packetMap')
    BY <1>1, <1>2, <2>1, BMSetSettles DEF WaitForAck
  <2>3. localSeqNr' \in SeqNrs
    BY <1>2, <2>1, SeqAddType DEF WaitForAck, SeqNrs
  <2>4. written' \in Nat
    BY <1>1, <1>2 DEF TypeOK, WaitForAck
  <2>5. TypeOK'
    BY <1>1, <1>2, <2>2, <2>3, <2>4 DEF TypeOK, WaitForAck, Bounded
  <2> QED
    BY <2>2, <2>5 DEF IInv, MapOK
<1>3. CASE IncomingAck
  <2>1. PICK n \in 0 .. SentCount, remote \in RemoteWindows :
           \E sack : HandleAck(SeqOf(n - 1), sack, remote)
    BY <1>3 DEF IncomingAck
  <2>2. FirstSeq \in Int /\ n - 1 \in Int
    BY SendWindowAssumption DEF SeqNrs
  <2>3. SeqOf(n - 1) \in SeqNrs
    BY <2>2, SeqAddType DEF SeqOf
  <2>4. remote \in Nat
    BY SendWindowAssumption
  <2> QED
    BY <2>1, <2>3, <2>4, HandleAckPreserves
<1>4. CASE \E s \in SeqNrs : Resend(s)
  BY <1>4, ResendPreserves
<1>5. CASE \E s \in SeqNrs : GiveUp(s)
  BY <1>5, GiveUpPreserves
<1>6. CASE Close \/ Release
  <2>1. packetMap' = packetMap
    BY <1>6 DEF Close, Release
  <2>2. TypeOK'
    BY <1>1, <1>6 DEF TypeOK, Close, Release
  <2> QED
    BY <1>1, <2>1, <2>2 DEF IInv, MapOK
<1>7. CASE Reset
  <2>1. Bounded(packetMap') /\ Settled(packetMap')
    BY <1>1, <1>7, ResetMapSettles DEF Reset
  <2>2. discarded' \subseteq SeqNrs
    BY <1>1, <1>7 DEF TypeOK, Reset, IsPacketMap
  <2>3. TypeOK'
    BY <1>1, <1>7, <2>1, <2>2, SendWindowAssumption DEF TypeOK, Reset, Bounded, Undefined
  <2> QED
    BY <2>1, <2>3 DEF IInv, MapOK
<1>8. CASE UNCHANGED vars
  <2>1. packetMap' = packetMap
    BY <1>8 DEF vars
  <2>2. TypeOK'
    BY <1>1, <1>8 DEF TypeOK, vars
  <2> QED
    BY <1>1, <2>1, <2>2 DEF IInv, MapOK
<1> QED
  BY <1>2, <1>3, <1>4, <1>5, <1>6, <1>7, <1>8 DEF Next, Gone

-----------------------------------------------------------------------------
(* Theorems *)

\* The invariant holds in every behaviour of the window.
THEOREM Invariance == Spec => []IInv
<1>1. IInv /\ [Next]_vars => IInv'
  BY NextPreserves
<1> QED
  BY <1>1, InitEstablishes, PTL DEF Spec

\* Whatever the bounds are, the window's state keeps its types; in particular
\* the capacity is never 0 and never above #MAX_WINDOW_SIZE.
THEOREM TypeCorrect == Spec => []TypeOK
<1>1. IInv => TypeOK
  BY DEF IInv
<1> QED
  BY <1>1, Invariance, PTL

\* No write() is left waiting while the window has room: every path that frees
\* a slot or raises the capacity wakes the writers it makes room for.
THEOREM NoForgottenWriter == Spec => []BlockedOnlyWhenFull
<1>1. IInv => BlockedOnlyWhenFull
  BY DEF IInv, MapOK, Settled, BlockedOnlyWhenFull
<1> QED
  BY <1>1, Invariance, PTL

\* At most #MAX_WINDOW_SIZE packets are unacknowledged at any time.
THEOREM BoundedInFlight == Spec => []InFlightBounded
<1>1. IInv => InFlightBounded
  BY DEF IInv, MapOK, Bounded, InFlightBounded
<1> QED
  BY <1>1, Invariance, PTL

-----------------------------------------------------------------------------
(* The order of packets, in connections shorter than half a round of the   *)
(* sequence numbers                                                        *)

\* The packets written fit into half a round: all are comparable.
ShortStream == MaxPackets <= HalfSeq

\* The numbers of the packets from the a-th to the one before the b-th.
Nums(a, b) == {SeqOf(i) : i \in a .. b - 1}

\* After w packets a map has let n of them in, and the rest waits in order.
InLine(bm, w) ==
    LET n == w - Len(bm.waiting) IN
    /\ n >= 0
    /\ \A j \in 1 .. Len(bm.waiting) : bm.waiting[j] = SeqOf(n + j - 1)
    /\ Keys(bm) \subseteq Nums(0, n)

\* A packet that was let in is in one place.
Placed ==
    /\ Keys(packetMap) \cup acked \cup lost \cup discarded = Nums(0, SentCount)
    /\ Keys(packetMap) \cap acked = {} /\ Keys(packetMap) \cap lost = {}
    /\ Keys(packetMap) \cap discarded = {}
    /\ acked \cap lost = {} /\ acked \cap discarded = {} /\ lost \cap discarded = {}

\* The newest acknowledgement is of a packet that was let in, and nothing up to
\* that packet is left.
Covered ==
    latest = Undefined \/ \E k \in 0 .. SentCount :
        latest = SeqOf(k - 1) /\ Keys(packetMap) \cap Nums(0, k) = {}

\* The inductive invariant, to be added to IInv.
OrderInv ==
    /\ InLine(packetMap, written)
    /\ localSeqNr = SeqOf(written) /\ written <= MaxPackets
    /\ Placed
    /\ Covered
    /\ AckedCountedOnce

\* Half a round, twice, is a round.
LEMMA TwoHalves ==
    /\ HalfSeq \in Nat /\ HalfSeq > 0 /\ HalfSeq + HalfSeq = SeqMod
    /\ SeqMod \in Nat
<1>1. SeqMod \in Nat /\ SeqMod > 3 /\ SeqMod % 2 = 0
  BY SeqModAssumption
<1>2. \A x \in Nat : x % 2 = 0 => x \div 2 \in Nat /\ (x \div 2) + (x \div 2) = x
  OBVIOUS
<1> QED
  BY <1>1, <1>2 DEF HalfSeq

\* The number of a packet, also of the one before the first.
LEMMA SeqOfWraps ==
    ASSUME NEW i \in -1 .. SeqMod
    PROVE  /\ SeqOf(i) \in SeqNrs
           /\ FirstSeq + i < 0 => SeqOf(i) = FirstSeq + i + SeqMod
           /\ FirstSeq + i >= 0 /\ FirstSeq + i < SeqMod => SeqOf(i) = FirstSeq + i
           /\ FirstSeq + i >= SeqMod => SeqOf(i) = FirstSeq + i - SeqMod
<1>1. SeqMod \in Nat /\ FirstSeq \in 0 .. SeqMod - 1 /\ FirstSeq + i \in Int /\ i \in Int
  BY SendWindowAssumption, SeqModAssumption DEF SeqNrs
<1>2. SeqOf(i) \in SeqNrs
  BY <1>1, SeqAddType DEF SeqOf
<1>3. SeqOf(i) = (FirstSeq + i) % SeqMod
  BY DEF SeqOf, SeqAdd
<1>4. /\ FirstSeq + i < 0 => FirstSeq + i + SeqMod \in SeqNrs
      /\ FirstSeq + i >= 0 /\ FirstSeq + i < SeqMod => FirstSeq + i \in SeqNrs
      /\ FirstSeq + i >= SeqMod => FirstSeq + i - SeqMod \in SeqNrs
  BY <1>1 DEF SeqNrs
<1> QED
  BY <1>1, <1>2, <1>3, <1>4, ModOneRound

\* The distance between two packets of a short stream.
LEMMA SeqDiffOf ==
    ASSUME ShortStream, NEW i \in -1 .. MaxPackets, NEW j \in -1 .. MaxPackets
    PROVE  /\ j <= i => SeqDiff(SeqOf(i), SeqOf(j)) = i - j \/ i - j >= SeqMod
           /\ i < j => SeqDiff(SeqOf(i), SeqOf(j)) = i - j + SeqMod \/ j - i >= SeqMod
           /\ SeqOf(i) \in SeqNrs /\ SeqOf(j) \in SeqNrs
<1>1. /\ SeqMod \in Nat /\ HalfSeq \in Nat /\ HalfSeq + HalfSeq = SeqMod /\ HalfSeq > 0
      /\ MaxPackets \in Nat /\ MaxPackets <= HalfSeq
      /\ FirstSeq \in 0 .. SeqMod - 1
  BY TwoHalves, SendWindowAssumption DEF SeqNrs, ShortStream
<1>2. i \in -1 .. SeqMod /\ j \in -1 .. SeqMod /\ i \in Int /\ j \in Int
  BY <1>1
<1> DEFINE a == SeqOf(i)
           b == SeqOf(j)
<1>3. /\ a \in SeqNrs
      /\ FirstSeq + i < 0 => a = FirstSeq + i + SeqMod
      /\ FirstSeq + i >= 0 /\ FirstSeq + i < SeqMod => a = FirstSeq + i
      /\ FirstSeq + i >= SeqMod => a = FirstSeq + i - SeqMod
  BY <1>2, SeqOfWraps
<1>4. /\ b \in SeqNrs
      /\ FirstSeq + j < 0 => b = FirstSeq + j + SeqMod
      /\ FirstSeq + j >= 0 /\ FirstSeq + j < SeqMod => b = FirstSeq + j
      /\ FirstSeq + j >= SeqMod => b = FirstSeq + j - SeqMod
  BY <1>2, SeqOfWraps
<1> HIDE DEF a, b
<1>5. SeqDiff(a, b) = IF b <= a THEN a - b ELSE a - b + SeqMod
  BY <1>3, <1>4, SeqDiffWraps
<1>6. a \in 0 .. SeqMod - 1 /\ b \in 0 .. SeqMod - 1
  BY <1>3, <1>4 DEF SeqNrs
<1>7. /\ j <= i => SeqDiff(a, b) = i - j \/ i - j >= SeqMod
      /\ i < j => SeqDiff(a, b) = i - j + SeqMod \/ j - i >= SeqMod
  BY <1>1, <1>2, <1>3, <1>4, <1>5, <1>6
<1> QED
  BY <1>3, <1>4, <1>7 DEF a, b

\* The code's comparisons order the packets of a short stream as they were
\* written: they have different numbers, an acknowledgement of the packet
\* before the k-th covers those before the k-th, and a packet is less than
\* every later one.
LEMMA ShortStreamOrder ==
    ASSUME ShortStream
    PROVE  /\ \A i, j \in 0 .. MaxPackets - 1 : SeqOf(i) = SeqOf(j) => i = j
           /\ \A k \in 0 .. MaxPackets, j \in 0 .. MaxPackets - 1 :
                 SeqGe(SeqOf(k - 1), SeqOf(j)) <=> j < k
           /\ \A i, j \in 0 .. MaxPackets - 1 : i < j => SeqLt(SeqOf(i), SeqOf(j))
<1>1. /\ SeqMod \in Nat /\ HalfSeq \in Nat /\ HalfSeq + HalfSeq = SeqMod /\ HalfSeq > 0
      /\ MaxPackets \in Nat /\ MaxPackets <= HalfSeq
  BY TwoHalves, SendWindowAssumption DEF ShortStream
<1>2. \A i \in SeqNrs : SeqDiff(i, i) = 0
  BY <1>1, SeqDiffWraps DEF SeqNrs
<1>3. ASSUME NEW i \in 0 .. MaxPackets - 1, NEW j \in 0 .. MaxPackets - 1, i < j
      PROVE  SeqLt(SeqOf(i), SeqOf(j)) /\ SeqOf(i) # SeqOf(j)
  <2>1. i \in -1 .. MaxPackets /\ j \in -1 .. MaxPackets /\ i \in Int /\ j \in Int
    BY <1>1
  <2>2. SeqDiff(SeqOf(j), SeqOf(i)) = j - i /\ SeqOf(i) \in SeqNrs
    BY <1>1, <1>3, <2>1, SeqDiffOf
  <2>3. SeqOf(i) # SeqOf(j)
    BY <1>2, <1>3, <2>1, <2>2
  <2> QED
    BY <1>1, <1>3, <2>1, <2>2, <2>3 DEF SeqLt
<1>4. ASSUME NEW k \in 0 .. MaxPackets, NEW j \in 0 .. MaxPackets - 1
      PROVE  SeqGe(SeqOf(k - 1), SeqOf(j)) <=> j < k
  <2>1. k - 1 \in -1 .. MaxPackets /\ j \in -1 .. MaxPackets /\ k \in Int /\ j \in Int
    BY <1>1
  <2>2. CASE j < k
    <3>1. SeqDiff(SeqOf(k - 1), SeqOf(j)) = k - 1 - j
      BY <1>1, <2>1, <2>2, SeqDiffOf
    <3>2. SeqDiff(SeqOf(k - 1), SeqOf(j)) < HalfSeq
      BY <1>1, <2>1, <2>2, <3>1
    <3> QED
      BY <2>2, <3>2 DEF SeqGe, SeqGt, SeqLt
  <2>3. CASE ~(j < k)
    <3>1. SeqDiff(SeqOf(k - 1), SeqOf(j)) = k - 1 - j + SeqMod /\ SeqOf(j) \in SeqNrs
      BY <1>1, <2>1, <2>3, SeqDiffOf
    <3>2. ~(SeqDiff(SeqOf(k - 1), SeqOf(j)) < HalfSeq)
      BY <1>1, <2>1, <2>3, <3>1
    <3>3. SeqOf(k - 1) # SeqOf(j)
      BY <1>1, <1>2, <3>1, <3>2
    <3> QED
      BY <2>3, <3>2, <3>3 DEF SeqGe, SeqGt, SeqLt
  <2> QED
    BY <2>2, <2>3
<1>5. ASSUME NEW i \in 0 .. MaxPackets - 1, NEW j \in 0 .. MaxPackets - 1,
             SeqOf(i) = SeqOf(j)
      PROVE  i = j
  <2>1. ~(i < j) /\ ~(j < i)
    BY <1>3, <1>5
  <2> QED
    BY <1>1, <2>1
<1> QED
  BY <1>3, <1>4, <1>5

\* A packet of a range.
LEMMA InNums ==
    ASSUME NEW a, NEW b, NEW k \in a .. b - 1
    PROVE  SeqOf(k) \in Nums(a, b)
BY DEF Nums

\* Two adjoining ranges of packets.
LEMMA NumsJoin ==
    ASSUME NEW a \in Int, NEW b \in Int, NEW c \in Int, a <= b, b <= c
    PROVE  Nums(a, b) \cup Nums(b, c) = Nums(a, c)
<1>1. \A i \in Int : i \in a .. c - 1 <=> i \in a .. b - 1 \/ i \in b .. c - 1
  OBVIOUS
<1>2. ASSUME NEW x PROVE x \in Nums(a, c) <=> x \in Nums(a, b) \/ x \in Nums(b, c)
  <2>1. x \in Nums(a, c) <=> \E i \in Int : i \in a .. c - 1 /\ x = SeqOf(i)
    BY DEF Nums
  <2>2. x \in Nums(a, b) <=> \E i \in Int : i \in a .. b - 1 /\ x = SeqOf(i)
    BY DEF Nums
  <2>3. x \in Nums(b, c) <=> \E i \in Int : i \in b .. c - 1 /\ x = SeqOf(i)
    BY DEF Nums
  <2> QED
    BY <1>1, <2>1, <2>2, <2>3, Zenon
<1> QED
  BY <1>2

\* Ranges that do not overlap have no number in common.
LEMMA NumsApart ==
    ASSUME ShortStream, NEW a \in Nat, NEW b \in Int, NEW c \in Nat, NEW d \in Int,
           b <= c, d <= MaxPackets, b <= MaxPackets
    PROVE  Nums(a, b) \cap Nums(c, d) = {}
<1>1. SUFFICES ASSUME NEW x \in Nums(a, b), x \in Nums(c, d) PROVE FALSE
  OBVIOUS
<1>2. PICK i \in a .. b - 1 : x = SeqOf(i)
  BY <1>1 DEF Nums
<1>3. PICK j \in c .. d - 1 : x = SeqOf(j)
  BY <1>1 DEF Nums
<1>4. i \in 0 .. MaxPackets - 1 /\ j \in 0 .. MaxPackets - 1 /\ i # j
  BY SendWindowAssumption
<1>5. SeqOf(i) = SeqOf(j)
  BY <1>2, <1>3
<1> QED
  BY <1>4, <1>5, ShortStreamOrder

\* From one map to another by deleting K and letting in the first who wait.
Moves(bm, r, K, w) ==
    /\ IsPacketMap(r)
    /\ InLine(r, w)
    /\ Len(r.waiting) <= Len(bm.waiting)
    /\ Keys(r) = (Keys(bm) \ K) \cup Nums(w - Len(bm.waiting), w - Len(r.waiting))

\* resolveNextSetter lets the packets in that come next.
LEMMA ResolveMoves ==
    ASSUME NEW bm, IsPacketMap(bm), NEW w \in Nat, InLine(bm, w)
    PROVE  Moves(bm, ResolveNextSetter(bm), {}, w)
<1> DEFINE n == AdmitCount(bm)
           L == Len(bm.waiting)
           r == LetIn(bm, n)
           s == w - L
<1>1. bm.waiting \in Seq(SeqNrs) /\ L \in Nat
  BY DEF IsPacketMap
<1>2. n \in 0 .. L
  BY AdmitCountStops
<1> HIDE DEF n
<1>3. /\ IsPacketMap(r)
      /\ r.waiting = SubSeq(bm.waiting, n + 1, L)
      /\ Keys(r) = KeysAfter(bm, n)
  BY <1>2, LetInType
<1> HIDE DEF r
<1>4. /\ s >= 0 /\ s \in Int
      /\ \A j \in 1 .. L : bm.waiting[j] = SeqOf(s + j - 1)
      /\ Keys(bm) \subseteq Nums(0, s)
  <2>1. s \in Int
    BY <1>1
  <2>2. /\ s >= 0
        /\ \A j \in 1 .. L : bm.waiting[j] = SeqOf(s + j - 1)
        /\ Keys(bm) \subseteq Nums(0, s)
    BY Zenon DEF InLine
  <2> QED
    BY <2>1, <2>2
<1>5. Len(r.waiting) = L - n
  BY <1>1, <1>2, <1>3
<1>6. \A j \in 1 .. L - n : r.waiting[j] = bm.waiting[n + j]
  BY <1>1, <1>2, <1>3
<1> HIDE DEF s, L
<1> DEFINE e == s + n
<1>0. e = s + n /\ e \in Int
  BY <1>2, <1>4
<1> HIDE DEF e
<1>7. {bm.waiting[i] : i \in 1 .. n} = Nums(s, e)
  <2>1. ASSUME NEW i \in 1 .. n PROVE bm.waiting[i] \in Nums(s, e)
    <3>1. i \in 1 .. L /\ s + i - 1 \in s .. e - 1
      BY <1>0, <1>1, <1>2, <1>4
    <3>2. bm.waiting[i] = SeqOf(s + i - 1)
      BY <1>4, <3>1
    <3> DEFINE k == s + i - 1
    <3> HIDE DEF k
    <3>3. SeqOf(k) \in Nums(s, e)
      BY <3>1, InNums DEF k
    <3> QED
      BY <3>2, <3>3 DEF k
  <2>2. ASSUME NEW k \in s .. e - 1 PROVE SeqOf(k) \in {bm.waiting[i] : i \in 1 .. n}
    <3>1. k - s + 1 \in 1 .. n /\ k - s + 1 \in 1 .. L /\ s + (k - s + 1) - 1 = k
      BY <1>0, <1>1, <1>2, <1>4
    <3>2. bm.waiting[k - s + 1] = SeqOf(k)
      BY <1>4, <3>1
    <3> QED
      BY <3>1, <3>2
  <2>3. \A x \in Nums(s, e) : \E k \in s .. e - 1 : x = SeqOf(k)
    BY DEF Nums
  <2>4. \A x \in Nums(s, e) : x \in {bm.waiting[i] : i \in 1 .. n}
    BY <2>2, <2>3, Zenon
  <2>5. \A x \in {bm.waiting[i] : i \in 1 .. n} : x \in Nums(s, e)
    BY <2>1
  <2> QED
    BY <2>4, <2>5, Zenon
<1>8. w - Len(r.waiting) = e
  BY <1>0, <1>1, <1>2, <1>5 DEF s
<1>9. Keys(r) = Keys(bm) \cup Nums(s, e)
  BY <1>3, <1>7 DEF KeysAfter
<1>10. InLine(r, w)
  <2>1. ASSUME NEW j \in 1 .. Len(r.waiting) PROVE r.waiting[j] = SeqOf(e + j - 1)
    <3>1. j \in 1 .. L - n /\ n + j \in 1 .. L /\ s + (n + j) - 1 = e + j - 1
      BY <1>0, <1>1, <1>2, <1>4, <1>5
    <3> QED
      BY <1>4, <1>6, <3>1
  <2>2. Nums(0, s) \cup Nums(s, e) = Nums(0, e)
    <3>1. 0 \in Int /\ e \in Int /\ 0 <= s /\ s <= e /\ s \in Int
      BY <1>0, <1>2, <1>4
    <3> QED
      BY <3>1, NumsJoin
  <2>3. Keys(r) \subseteq Nums(0, e)
    BY <1>4, <1>9, <2>2
  <2>4. e >= 0
    BY <1>0, <1>2, <1>4
  <2> QED
    BY <1>8, <2>1, <2>3, <2>4 DEF InLine
<1>11. Len(r.waiting) <= L
  BY <1>1, <1>2, <1>5
<1> QED
  BY <1>3, <1>8, <1>9, <1>10, <1>11 DEF Moves, ResolveNextSetter, r, n, s, L

\* delete().
LEMMA BMDeleteMoves ==
    ASSUME NEW bm, IsPacketMap(bm), NEW w \in Nat, InLine(bm, w), NEW K
    PROVE  Moves(bm, BMDelete(bm, K), K, w)
<1>1. CASE Keys(bm) \cap K = {}
  <2>1. BMDelete(bm, K) = bm
    BY <1>1 DEF BMDelete
  <2>2. Len(bm.waiting) \in Nat
    BY DEF IsPacketMap
  <2>3. Nums(w - Len(bm.waiting), w - Len(bm.waiting)) = {}
    BY <2>2 DEF Nums
  <2> QED
    BY <1>1, <2>1, <2>2, <2>3 DEF Moves
<1>2. CASE Keys(bm) \cap K # {}
  <2> DEFINE f == [k \in Keys(bm) \ K |-> bm.map[k]]
             left == BM(f, bm.capacity, bm.waiting)
             r == ResolveNextSetter(left)
  <2>1. f \in [Keys(bm) \ K -> 0 .. ResendTimesLimit] /\ DOMAIN f = Keys(bm) \ K
    BY DEF IsPacketMap
  <2> HIDE DEF f
  <2>2. IsPacketMap(left) /\ Keys(left) = Keys(bm) \ K /\ left.waiting = bm.waiting
    BY <2>1 DEF IsPacketMap, BM, Keys
  <2>3. BMDelete(bm, K) = r
    BY <1>2 DEF BMDelete, Without, f
  <2> HIDE DEF left
  <2>4. InLine(left, w)
    BY <2>2 DEF InLine
  <2>5. Moves(left, r, {}, w)
    BY <2>2, <2>4, ResolveMoves
  <2> HIDE DEF r
  <2> QED
    BY <2>2, <2>3, <2>5 DEF Moves
<1> QED
  BY <1>1, <1>2

\* updateCapacity().
LEMMA BMUpdateCapacityMoves ==
    ASSUME NEW bm, IsPacketMap(bm), NEW w \in Nat, InLine(bm, w), NEW c \in 1 .. MaxWindow
    PROVE  Moves(bm, BMUpdateCapacity(bm, c), {}, w)
<1> DEFINE new == BM(bm.map, c, bm.waiting)
           r == ResolveNextSetter(new)
<1>1. IsPacketMap(new) /\ Keys(new) = Keys(bm) /\ new.waiting = bm.waiting
  BY DEF IsPacketMap, BM, Keys
<1>2. BMUpdateCapacity(bm, c) = r
  BY DEF BMUpdateCapacity
<1> HIDE DEF new
<1>3. InLine(new, w)
  BY <1>1 DEF InLine
<1>4. Moves(new, r, {}, w)
  BY <1>1, <1>3, ResolveMoves
<1> HIDE DEF r
<1> QED
  BY <1>1, <1>2, <1>4 DEF Moves

\* Two moves in a row, where the second deletes nothing the first let in.
LEMMA MovesCompose ==
    ASSUME NEW bm, IsPacketMap(bm), NEW w \in Nat, InLine(bm, w),
           NEW r, NEW K, Moves(bm, r, K, w), NEW q, NEW J, Moves(r, q, J, w),
           J \cap Nums(w - Len(bm.waiting), w) = {}
    PROVE  Moves(bm, q, K \cup J, w)
<1> DEFINE a == w - Len(bm.waiting)
           b == w - Len(r.waiting)
           c == w - Len(q.waiting)
<1>1. Len(bm.waiting) \in Nat /\ Len(r.waiting) \in Nat /\ Len(q.waiting) \in Nat
  BY DEF Moves, IsPacketMap
<1>2. a \in Int /\ b \in Int /\ c \in Int /\ a <= b /\ b <= c /\ b <= w
  BY <1>1 DEF Moves
<1>3. Keys(r) = (Keys(bm) \ K) \cup Nums(a, b) /\ Keys(q) = (Keys(r) \ J) \cup Nums(b, c)
  BY DEF Moves
<1> HIDE DEF a, b, c
<1>4. Nums(a, b) \cup Nums(b, c) = Nums(a, c) /\ Nums(a, b) \cup Nums(b, w) = Nums(a, w)
  <2>1. w \in Int
    OBVIOUS
  <2>2. Nums(a, b) \cup Nums(b, w) = Nums(a, w)
    BY <1>2, <2>1, NumsJoin
  <2>3. Nums(a, b) \cup Nums(b, c) = Nums(a, c)
    BY <1>2, NumsJoin
  <2> QED
    BY <2>2, <2>3
<1>5. J \cap Nums(a, b) = {}
  BY <1>4 DEF a
<1>6. Keys(q) = (Keys(bm) \ (K \cup J)) \cup Nums(a, c)
  BY <1>3, <1>4, <1>5
<1>7. Len(q.waiting) <= Len(bm.waiting)
  BY <1>1 DEF Moves
<1> QED
  BY <1>6, <1>7 DEF Moves, a, c

\* A step that deletes D, for one reason, and lets the next ones in.
LEMMA DeletingStep ==
    ASSUME ShortStream, IInv, OrderInv, NEW D,
           Moves(packetMap, packetMap', D, written), written' = written,
           \/ /\ acked' = acked \cup (Keys(packetMap) \cap D)
              /\ lost' = lost /\ discarded' = discarded
           \/ /\ lost' = lost \cup (Keys(packetMap) \cap D)
              /\ acked' = acked /\ discarded' = discarded
           \/ /\ discarded' = discarded \cup (Keys(packetMap) \cap D)
              /\ acked' = acked /\ lost' = lost,
           \/ latest' = Undefined
           \/ \E k \in 0 .. SentCount :
                 latest' = SeqOf(k - 1) /\ (Keys(packetMap) \ D) \cap Nums(0, k) = {}
    PROVE  InLine(packetMap, written)' /\ Placed' /\ Covered'
<1> DEFINE S == SentCount
           T == written - Len(packetMap'.waiting)
           K == Keys(packetMap)
<1>1. /\ Len(packetMap.waiting) \in Nat /\ Len(packetMap'.waiting) \in Nat
      /\ written \in Nat /\ written <= MaxPackets /\ MaxPackets \in Nat
      /\ S = written - Len(packetMap.waiting)
  BY SendWindowAssumption DEF IInv, TypeOK, IsPacketMap, Moves, OrderInv, SentCount
<1>2. S \in Nat /\ T \in Nat /\ S <= T /\ T <= MaxPackets
  <2>1. S >= 0 /\ T >= 0
    BY <1>1 DEF OrderInv, InLine, Moves
  <2>2. Len(packetMap'.waiting) <= Len(packetMap.waiting)
    BY DEF Moves
  <2> QED
    BY <1>1, <2>1, <2>2
<1>3. SentCount' = T
  BY DEF SentCount
<1>4. Keys(packetMap') = (K \ D) \cup Nums(S, T)
  BY <1>1 DEF Moves
<1> HIDE DEF S, T, K
<1>5. Nums(0, S) \cup Nums(S, T) = Nums(0, T)
  <2>1. 0 \in Int /\ S \in Int /\ T \in Int /\ 0 <= S /\ S <= T
    BY <1>2
  <2> QED
    BY <2>1, NumsJoin
<1>6. ASSUME NEW k \in 0 .. S PROVE Nums(0, k) \cap Nums(S, T) = {}
  <2>1. 0 \in Nat /\ k \in Int /\ k <= S /\ k <= MaxPackets /\ T \in Int
    BY <1>1, <1>2
  <2> QED
    BY <1>2, <2>1, NumsApart
<1>7. Nums(0, S) \cap Nums(S, T) = {}
  BY <1>2, <1>6
<1>8. Placed'
  <2>1. /\ K \cup acked \cup lost \cup discarded = Nums(0, S)
        /\ K \cap acked = {} /\ K \cap lost = {} /\ K \cap discarded = {}
        /\ acked \cap lost = {} /\ acked \cap discarded = {} /\ lost \cap discarded = {}
    BY DEF OrderInv, Placed, K, S
  <2> DEFINE K1 == (K \ D) \cup Nums(S, T)
             a1 == acked'
             l1 == lost'
             d1 == discarded'
  <2>2. /\ K1 \cup a1 \cup l1 \cup d1 = Nums(0, T)
        /\ K1 \cap a1 = {} /\ K1 \cap l1 = {} /\ K1 \cap d1 = {}
        /\ a1 \cap l1 = {} /\ a1 \cap d1 = {} /\ l1 \cap d1 = {}
    <3>1. CASE /\ a1 = acked \cup (K \cap D) /\ l1 = lost /\ d1 = discarded
      BY <1>5, <1>7, <2>1, <3>1
    <3>2. CASE /\ l1 = lost \cup (K \cap D) /\ a1 = acked /\ d1 = discarded
      BY <1>5, <1>7, <2>1, <3>2
    <3>3. CASE /\ d1 = discarded \cup (K \cap D) /\ a1 = acked /\ l1 = lost
      BY <1>5, <1>7, <2>1, <3>3
    <3> QED
      BY <3>1, <3>2, <3>3 DEF K
  <2> QED
    BY <1>3, <1>4, <2>2 DEF Placed, Nums, SeqOf, SeqAdd
<1>9. Covered'
  <2>1. CASE latest' = Undefined
    BY <2>1 DEF Covered, Undefined
  <2>2. ASSUME NEW k \in 0 .. S, latest' = SeqOf(k - 1), (K \ D) \cap Nums(0, k) = {}
        PROVE  Covered'
    <3>1. Keys(packetMap') \cap Nums(0, k) = {}
      BY <1>4, <1>6, <2>2
    <3>2. k \in 0 .. T
      BY <1>2
    <3> QED
      BY <1>3, <2>2, <3>1, <3>2 DEF Covered, Nums, SeqOf, SeqAdd
  <2> QED
    BY <2>1, <2>2 DEF K, S
<1>10. InLine(packetMap, written)'
  BY DEF Moves, InLine, Nums, SeqOf, SeqAdd
<1> QED
  BY <1>8, <1>9, <1>10

\* write(): the packet enters an empty line, or goes to its end.
LEMMA WaitForAckOrders ==
    ASSUME ShortStream, IInv, OrderInv, WaitForAck
    PROVE  OrderInv'
<1> DEFINE w == written
           L == Len(packetMap.waiting)
           S == SentCount
           K == Keys(packetMap)
           key == localSeqNr
<1>1. /\ L \in Nat /\ w \in Nat /\ w + 1 <= MaxPackets /\ MaxPackets \in Nat
      /\ S = w - L /\ S \in Nat /\ key = SeqOf(w) /\ key \in SeqNrs
      /\ IsPacketMap(packetMap) /\ Settled(packetMap) /\ Bounded(packetMap)
      /\ packetMap.waiting \in Seq(SeqNrs)
  BY SendWindowAssumption
     DEF IInv, MapOK, TypeOK, IsPacketMap, OrderInv, InLine, SentCount, WaitForAck
<1>2. /\ packetMap' = BMSet(packetMap, key) /\ written' = w + 1
      /\ localSeqNr' = SeqAdd(key, 1)
      /\ latest' = latest /\ acked' = acked /\ lost' = lost /\ discarded' = discarded
      /\ connState' = connState /\ totalAcked' = totalAcked
  BY DEF WaitForAck
<1>3. localSeqNr' = SeqOf(w + 1)
  <2>1. /\ SeqMod \in Nat /\ HalfSeq \in Nat /\ HalfSeq + HalfSeq = SeqMod /\ HalfSeq > 0
        /\ MaxPackets <= HalfSeq /\ FirstSeq \in 0 .. SeqMod - 1
    BY TwoHalves, SendWindowAssumption DEF ShortStream, SeqNrs
  <2>2. w \in -1 .. SeqMod /\ w + 1 \in -1 .. SeqMod /\ 1 \in 0 .. SeqMod /\ w < SeqMod
    BY <1>1, <2>1
  <2> DEFINE a == SeqOf(w)
             b == SeqOf(w + 1)
  <2>3. /\ a \in SeqNrs
        /\ FirstSeq + w < SeqMod => a = FirstSeq + w
        /\ FirstSeq + w >= SeqMod => a = FirstSeq + w - SeqMod
    BY <1>1, <2>1, <2>2, SeqOfWraps
  <2>4. /\ FirstSeq + (w + 1) < SeqMod => b = FirstSeq + (w + 1)
        /\ FirstSeq + (w + 1) >= SeqMod => b = FirstSeq + (w + 1) - SeqMod
    BY <1>1, <2>1, <2>2, SeqOfWraps
  <2> HIDE DEF a, b
  <2>5. SeqAdd(a, 1) = IF a + 1 < SeqMod THEN a + 1 ELSE a + 1 - SeqMod
    BY <2>2, <2>3, SeqAddWraps
  <2>6. SeqAdd(a, 1) = b
    BY <1>1, <2>1, <2>3, <2>4, <2>5
  <2> QED
    BY <1>1, <1>2, <2>6 DEF a, b
<1>4. /\ \A j \in 1 .. L : packetMap.waiting[j] = SeqOf(S + j - 1)
      /\ K \subseteq Nums(0, S)
  BY <1>1 DEF OrderInv, InLine
<1> HIDE DEF K
<1>5. /\ K \cup acked \cup lost \cup discarded = Nums(0, S)
      /\ K \cap acked = {} /\ K \cap lost = {} /\ K \cap discarded = {}
      /\ acked \cap lost = {} /\ acked \cap discarded = {} /\ lost \cap discarded = {}
  BY DEF OrderInv, Placed, K
<1>6. CASE Size(packetMap) < packetMap.capacity
  <2> DEFINE put == Put(packetMap, key)
             r == ResolveNextSetter(put)
  <2>1. L = 0 /\ S = w
    <3>1. Size(packetMap) \in Nat /\ packetMap.capacity \in Nat
      BY <1>1, SeqNrsFinite DEF IsPacketMap, Size
    <3>2. packetMap.waiting = <<>>
      BY <1>1, <1>6, <3>1 DEF Settled
    <3> QED
      BY <1>1, <3>2
  <2>2. IsPacketMap(put)
    BY <1>1, <1>6, PutBounded DEF Bounded
  <2>3. Keys(put) = K \cup {SeqOf(w)} /\ put.waiting = packetMap.waiting
    BY <1>1 DEF Put, BM, Keys, K
  <2>4. Nums(0, w + 1) = Nums(0, w) \cup {SeqOf(w)}
    <3>1. 0 \in Int /\ w \in Int /\ w + 1 \in Int /\ 0 <= w /\ w <= w + 1
      BY <1>1
    <3>2. Nums(0, w) \cup Nums(w, w + 1) = Nums(0, w + 1)
      BY <3>1, NumsJoin
    <3>3. Nums(w, w + 1) = {SeqOf(w)}
      <4>1. w .. (w + 1) - 1 = {w}
        BY <1>1
      <4> QED
        BY <4>1 DEF Nums
    <3> QED
      BY <3>2, <3>3
  <2>5. SeqOf(w) \notin Nums(0, w)
    <3>1. 0 \in Nat /\ w \in Nat /\ w \in Int /\ w + 1 \in Int /\ w <= w /\ w <= MaxPackets
      BY <1>1
    <3>2. Nums(0, w) \cap Nums(w, w + 1) = {}
      BY <1>1, <3>1, NumsApart
    <3>3. w \in w .. (w + 1) - 1
      BY <1>1
    <3> QED
      BY <3>2, <3>3, InNums
  <2> HIDE DEF put
  <2>6. InLine(put, w + 1)
    <3>0. Len(put.waiting) = 0
      BY <2>1, <2>3
    <3>1. Len(put.waiting) = 0 /\ (w + 1) - Len(put.waiting) = w + 1 /\ w + 1 >= 0
      BY <1>1, <3>0
    <3>2. Keys(put) \subseteq Nums(0, w + 1)
      BY <1>4, <2>1, <2>3, <2>4
    <3>3. 1 .. Len(put.waiting) = {}
      BY <3>1
    <3> QED
      BY <3>1, <3>2, <3>3 DEF InLine
  <2>7. Moves(put, r, {}, w + 1)
    BY <1>1, <2>2, <2>6, ResolveMoves
  <2>8. packetMap' = r
    BY <1>2, <1>6 DEF BMSet, put
  <2> HIDE DEF r
  <2>9. Len(r.waiting) = 0
    BY <1>1, <2>1, <2>3, <2>7 DEF Moves, IsPacketMap
  <2>10. SentCount' = w + 1
    BY <1>1, <1>2, <2>8, <2>9 DEF SentCount
  <2>11. Keys(r) = K \cup {SeqOf(w)}
    <3>0. Len(put.waiting) = 0
      BY <2>1, <2>3
    <3>1. (w + 1) - Len(put.waiting) = w + 1 /\ (w + 1) - Len(r.waiting) = w + 1
      BY <1>1, <2>9, <3>0
    <3>2. Nums(w + 1, w + 1) = {}
      BY <1>1 DEF Nums
    <3> QED
      BY <2>3, <2>7, <3>1, <3>2 DEF Moves
  <2>12. Placed'
    <3> DEFINE K1 == K \cup {SeqOf(w)}
    <3>1. SeqOf(w) \notin acked \cup lost \cup discarded
      BY <1>5, <2>1, <2>5
    <3>2. /\ K1 \cup acked \cup lost \cup discarded = Nums(0, w + 1)
          /\ K1 \cap acked = {} /\ K1 \cap lost = {} /\ K1 \cap discarded = {}
      BY <1>5, <2>1, <2>4, <3>1
    <3> QED
      BY <1>2, <1>5, <2>8, <2>10, <2>11, <3>2 DEF Placed, Nums, SeqOf, SeqAdd
  <2>13. Covered'
    <3>1. CASE latest = Undefined
      BY <1>2, <3>1 DEF Covered, Undefined
    <3>2. ASSUME NEW k \in 0 .. S, latest = SeqOf(k - 1), K \cap Nums(0, k) = {}
          PROVE  Covered'
      <4>1. k \in 0 .. w + 1 /\ k \in Int /\ 0 \in Int /\ 0 <= k /\ k <= w /\ w \in Int
        BY <1>1, <2>1
      <4>2. Nums(0, k) \cup Nums(k, w) = Nums(0, w)
        BY <4>1, NumsJoin
      <4>3. (K \cup {SeqOf(w)}) \cap Nums(0, k) = {}
        BY <2>5, <3>2, <4>2
      <4> QED
        BY <1>2, <2>8, <2>10, <2>11, <3>2, <4>1, <4>3 DEF Covered, Nums, SeqOf, SeqAdd
    <3> QED
      BY <3>1, <3>2 DEF OrderInv, Covered, K
  <2>14. InLine(packetMap, written)'
    BY <1>2, <2>7, <2>8 DEF Moves, InLine, Nums, SeqOf, SeqAdd
  <2>15. (localSeqNr = SeqOf(written) /\ written <= MaxPackets)'
    BY <1>1, <1>2, <1>3 DEF SeqOf, SeqAdd
  <2>16. AckedCountedOnce'
    BY <1>2 DEF OrderInv, AckedCountedOnce
  <2> QED
    BY <2>12, <2>13, <2>14, <2>15, <2>16 DEF OrderInv
<1>7. CASE ~(Size(packetMap) < packetMap.capacity)
  <2> DEFINE ws == Append(packetMap.waiting, key)
  <2>1. packetMap' = BM(packetMap.map, packetMap.capacity, ws)
    BY <1>2, <1>7 DEF BMSet
  <2>2. Keys(packetMap') = K /\ packetMap'.waiting = ws
    BY <2>1 DEF BM, Keys, K
  <2>3. /\ Len(ws) = L + 1
        /\ \A j \in 1 .. L : ws[j] = packetMap.waiting[j]
        /\ ws[L + 1] = key
    BY <1>1
  <2> HIDE DEF ws
  <2>4. written' - Len(packetMap'.waiting) = S /\ SentCount' = S
    BY <1>1, <1>2, <2>2, <2>3 DEF SentCount
  <2>5. ASSUME NEW j \in 1 .. L + 1 PROVE ws[j] = SeqOf(S + j - 1)
    <3>1. CASE j \in 1 .. L
      BY <1>4, <2>3, <3>1
    <3>2. CASE j = L + 1
      <4>1. S + j - 1 = w
        BY <1>1, <3>2
      <4> QED
        BY <1>1, <2>3, <3>2, <4>1
    <3>3. j \in 1 .. L \/ j = L + 1
      BY <1>1
    <3> QED
      BY <3>1, <3>2, <3>3
  <2>6. InLine(packetMap, written)'
    <3>1. S >= 0
      BY <1>1
    <3>2. \A j \in 1 .. Len(packetMap'.waiting) : packetMap'.waiting[j] = SeqOf(S + j - 1)
      BY <2>2, <2>3, <2>5
    <3>3. Keys(packetMap') \subseteq Nums(0, S)
      BY <1>4, <2>2
    <3> HIDE DEF S
    <3> QED
      BY <2>4, <3>1, <3>2, <3>3 DEF InLine, Nums, SeqOf, SeqAdd
  <2>7. Placed'
    BY <1>2, <1>5, <2>2, <2>4 DEF Placed, Nums, SeqOf, SeqAdd
  <2>8. Covered'
    <3>1. latest = Undefined \/ \E k \in 0 .. S : latest = SeqOf(k - 1) /\ K \cap Nums(0, k) = {}
      BY DEF OrderInv, Covered, K
    <3> QED
      BY <1>2, <2>2, <2>4, <3>1 DEF Covered, Undefined, Nums, SeqOf, SeqAdd
  <2>9. (localSeqNr = SeqOf(written) /\ written <= MaxPackets)'
    BY <1>1, <1>2, <1>3 DEF SeqOf, SeqAdd
  <2>10. AckedCountedOnce'
    BY <1>2 DEF OrderInv, AckedCountedOnce
  <2> QED
    BY <2>6, <2>7, <2>8, <2>9, <2>10 DEF OrderInv
<1> QED
  BY <1>6, <1>7

\* What isPacketAcked covers: the packets up to the acknowledged one.
LEMMA CumulativeIs ==
    ASSUME ShortStream, NEW k \in 0 .. MaxPackets, NEW K \in SUBSET Nums(0, MaxPackets)
    PROVE  CumulativelyAcked(SeqOf(k - 1), K) = K \cap Nums(0, k)
<1>1. ASSUME NEW x \in K
      PROVE  x \in CumulativelyAcked(SeqOf(k - 1), K) <=> x \in Nums(0, k)
  <2>1. MaxPackets \in Nat /\ k \in Nat /\ k <= MaxPackets
    BY SendWindowAssumption
  <2>2. PICK j \in 0 .. MaxPackets - 1 : x = SeqOf(j)
    BY <1>1 DEF Nums
  <2>3. SeqOf(k - 1) # Undefined
    <3>1. FirstSeq \in Int /\ k - 1 \in Int
      BY <2>1, SendWindowAssumption DEF SeqNrs
    <3>2. SeqOf(k - 1) \in SeqNrs
      BY <3>1, SeqAddType DEF SeqOf
    <3> QED
      BY <3>2 DEF SeqNrs, Undefined
  <2>4. x \in CumulativelyAcked(SeqOf(k - 1), K) <=> SeqGe(SeqOf(k - 1), SeqOf(j))
    BY <1>1, <2>2, <2>3 DEF CumulativelyAcked
  <2>5. SeqGe(SeqOf(k - 1), SeqOf(j)) <=> j < k
    BY ShortStreamOrder
  <2>6. j < k => x \in Nums(0, k)
    <3>1. j < k => j \in 0 .. k - 1
      BY <2>1
    <3> QED
      BY <2>2, <3>1, InNums
  <2>7. ASSUME x \in Nums(0, k) PROVE j < k
    <3>1. PICK i \in 0 .. k - 1 : x = SeqOf(i)
      BY <2>7 DEF Nums
    <3>2. i \in 0 .. MaxPackets - 1 /\ i < k
      BY <2>1
    <3>3. SeqOf(i) = SeqOf(j)
      BY <2>2, <3>1
    <3> QED
      BY <3>2, <3>3, ShortStreamOrder
  <2> QED
    BY <2>4, <2>5, <2>6, <2>7
<1>2. CumulativelyAcked(SeqOf(k - 1), K) \subseteq K
  BY DEF CumulativelyAcked
<1> QED
  BY <1>1, <1>2

\* handleAck, with an acknowledgement of packets that were let in.
LEMMA HandleAckOrders ==
    ASSUME ShortStream, IInv, OrderInv, NEW n \in 0 .. SentCount,
           NEW sack \in SUBSET {SeqOf(i) : i \in n + 1 .. SentCount - 1},
           NEW remote \in Nat, HandleAck(SeqOf(n - 1), sack, remote)
    PROVE  OrderInv'
<1> DEFINE w == written
           S == SentCount
           M == MaxPackets
           bm == packetMap
           newest == LatestAfter(latest, SeqOf(n - 1))
           left == BMDelete(bm, sack)
           C == CumulativelyAcked(newest, Keys(left))
           once == BMDelete(left, C)
           D == sack \cup C
<1>1. /\ w \in Nat /\ M \in Nat /\ w <= M /\ Len(bm.waiting) \in Nat
      /\ S = w - Len(bm.waiting) /\ S \in Nat /\ S <= w
      /\ IsPacketMap(bm) /\ InLine(bm, w) /\ Bounded(bm) /\ Settled(bm)
      /\ Keys(bm) \subseteq Nums(0, S)
  <2>1. w \in Nat /\ M \in Nat /\ w <= M /\ InLine(bm, w) /\ S = w - Len(bm.waiting)
    BY SendWindowAssumption DEF IInv, TypeOK, OrderInv, SentCount
  <2>2. IsPacketMap(bm) /\ Bounded(bm) /\ Settled(bm)
    BY DEF IInv, MapOK, TypeOK
  <2>3. Len(bm.waiting) \in Nat
    BY <2>2 DEF IsPacketMap
  <2>4. w - Len(bm.waiting) >= 0 /\ Keys(bm) \subseteq Nums(0, w - Len(bm.waiting))
    BY <2>1 DEF InLine
  <2> HIDE DEF w, S, M
  <2>5. S \in Nat /\ S <= w
    BY <2>1, <2>3, <2>4
  <2> QED
    BY <2>1, <2>2, <2>3, <2>4, <2>5
<1>2. PICK k \in 0 .. S : newest = SeqOf(k - 1)
  <2>1. CASE newest = SeqOf(n - 1)
    BY <2>1
  <2>2. CASE newest # SeqOf(n - 1)
    <3>1. newest = latest /\ latest # Undefined
      BY <2>2 DEF LatestAfter
    <3> QED
      BY <3>1 DEF OrderInv, Covered
  <2> QED
    BY <2>1, <2>2
<1>3. OrderInv /\ Covered /\ Placed /\ AckedCountedOnce
  BY DEF OrderInv
<1>4. /\ latest' = newest
      /\ acked' = acked \cup (Keys(bm) \ Keys(once))
      /\ connState' = connState /\ localSeqNr' = localSeqNr /\ written' = w
      /\ lost' = lost /\ discarded' = discarded
      /\ connState \in {"CONNECTED", "CLOSE_WAIT"}
  BY DEF HandleAck, AfterAck, InTable
<1>5. PICK cc \in AfterUpdateRtt(ccWindow) :
         LET applied == ApplyWindowSize(once, cc, remote)
         IN  IF connState = "CLOSE_WAIT"
             THEN \E cc2 \in AfterUpdateRtt(cc) :
                     /\ packetMap' = ApplyWindowSize(AfterAck(applied, newest, sack), cc2, remote)
                     /\ totalAcked' = totalAcked + NewlyAcked(bm, newest, sack)
                                                 + NewlyAcked(applied, newest, sack)
             ELSE /\ packetMap' = applied
                  /\ totalAcked' = totalAcked + NewlyAcked(bm, newest, sack)
  BY DEF HandleAck, AfterAck
<1>6. NewlyAcked(bm, newest, sack) = Cardinality(Keys(bm) \cap sack) + Cardinality(C)
  BY DEF NewlyAcked
<1> DEFINE applied == ApplyWindowSize(once, cc, remote)
<1> HIDE DEF newest, left, C, once, applied, S, w, M
\* Ranges of packets.
<1>7. /\ Nums(0, k) \subseteq Nums(0, S)
      /\ Nums(0, w) \subseteq Nums(0, M)
      /\ Nums(0, S) \cap Nums(S, w) = {}
      /\ sack \subseteq Nums(0, S)
  <2>1. 0 \in Int /\ k \in Int /\ S \in Int /\ w \in Int /\ M \in Int
        /\ 0 <= k /\ k <= S /\ 0 <= w /\ w <= M
    BY <1>1
  <2>2. Nums(0, k) \cup Nums(k, S) = Nums(0, S)
    BY <2>1, NumsJoin
  <2>3. Nums(0, w) \cup Nums(w, M) = Nums(0, M)
    BY <2>1, NumsJoin
  <2>4. Nums(0, S) \cap Nums(S, w) = {}
    <3>1. 0 \in Nat /\ S <= S /\ w <= MaxPackets /\ S <= MaxPackets
      BY <1>1 DEF M
    <3> QED
      BY <1>1, <2>1, <3>1, NumsApart
  <2>5. sack \subseteq Nums(0, S)
    <3>1. n + 1 .. S - 1 \subseteq 0 .. S - 1
      BY <1>1 DEF S
    <3>2. sack \subseteq {SeqOf(i) : i \in n + 1 .. S - 1}
      BY DEF S
    <3> QED
      BY <3>1, <3>2 DEF Nums
  <2> QED
    BY <2>2, <2>3, <2>4, <2>5
\* The selectively acknowledged packets go first ...
<1>8. Moves(bm, left, sack, w)
  BY <1>1, BMDeleteMoves DEF left
<1>9. IsPacketMap(left) /\ InLine(left, w) /\ Keys(left) \subseteq Nums(0, w)
  <2>1. IsPacketMap(left) /\ InLine(left, w) /\ Len(left.waiting) \in Nat
    BY <1>8 DEF Moves, IsPacketMap
  <2> DEFINE m == w - Len(left.waiting)
  <2>2. m \in Int /\ 0 <= m /\ m <= w /\ Keys(left) \subseteq Nums(0, m)
    BY <1>1, <2>1 DEF InLine
  <2> HIDE DEF m
  <2>3. Nums(0, m) \cup Nums(m, w) = Nums(0, w)
    <3>1. 0 \in Int /\ w \in Int
      BY <1>1
    <3> QED
      BY <2>2, <3>1, NumsJoin
  <2> QED
    BY <2>1, <2>2, <2>3
\* ... then those up to the newest acknowledgement.
<1>10. C = Keys(left) \cap Nums(0, k)
  <2>1. k \in 0 .. MaxPackets
    BY <1>1 DEF M
  <2>2. Keys(left) \in SUBSET Nums(0, MaxPackets)
    BY <1>7, <1>9 DEF M
  <2> QED
    BY <1>2, <2>1, <2>2, CumulativeIs DEF C
<1>11. C = (Keys(bm) \ sack) \cap Nums(0, k)
  <2> DEFINE m == w - Len(left.waiting)
  <2>1. m \in Int /\ S <= m /\ m <= w /\ S \in Int /\ w \in Int
    BY <1>1, <1>8 DEF Moves, IsPacketMap
  <2>2. Keys(left) = (Keys(bm) \ sack) \cup Nums(S, m)
    BY <1>1, <1>8 DEF Moves
  <2> HIDE DEF m
  <2>3. Nums(S, m) \cup Nums(m, w) = Nums(S, w)
    BY <2>1, NumsJoin
  <2> QED
    BY <1>7, <1>10, <2>2, <2>3
<1>12. Moves(bm, once, D, w)
  <2>1. Moves(left, once, C, w)
    BY <1>1, <1>9, BMDeleteMoves DEF once
  <2>2. C \cap Nums(S, w) = {}
    BY <1>7, <1>10
  <2> QED
    BY <1>1, <1>8, <2>1, <2>2, MovesCompose
<1>13. IsPacketMap(once) /\ InLine(once, w)
  BY <1>12 DEF Moves
<1>14. ASSUME NEW q, Moves(bm, q, D, w)
       PROVE  /\ Keys(bm) \ Keys(q) = Keys(bm) \cap D
              /\ Keys(q) \cap sack = {} /\ Keys(q) \cap Nums(0, k) = {}
              /\ Keys(q) \subseteq Nums(0, w)
              /\ IsPacketMap(q) /\ InLine(q, w)
  <2> DEFINE m == w - Len(q.waiting)
  <2>1. m \in Int /\ S <= m /\ m <= w /\ S \in Int /\ w \in Int /\ 0 \in Int /\ 0 <= S
    BY <1>1, <1>14 DEF Moves, IsPacketMap
  <2>2. Keys(q) = (Keys(bm) \ D) \cup Nums(S, m) /\ IsPacketMap(q) /\ InLine(q, w)
    BY <1>1, <1>14 DEF Moves
  <2> HIDE DEF m
  <2>3. Nums(S, m) \cup Nums(m, w) = Nums(S, w) /\ Nums(0, S) \cup Nums(S, w) = Nums(0, w)
    <3>1. Nums(S, m) \cup Nums(m, w) = Nums(S, w)
      BY <2>1, NumsJoin
    <3>2. Nums(0, S) \cup Nums(S, w) = Nums(0, w)
      <4>1. S <= w
        BY <1>1
      <4> QED
        BY <2>1, <4>1, NumsJoin
    <3> QED
      BY <3>1, <3>2
  <2>4. Keys(bm) \cap Nums(S, w) = {} /\ sack \cap Nums(S, w) = {}
        /\ Nums(0, k) \cap Nums(S, w) = {}
    BY <1>1, <1>7
  <2>5. (Keys(bm) \ D) \cap Nums(0, k) = {}
    BY <1>11
  <2> QED
    BY <1>1, <2>2, <2>3, <2>4, <2>5
<1>15. ASSUME NEW q, Moves(bm, q, D, w), NEW c \in AfterUpdateRtt(ccWindow) \cup AfterUpdateRtt(cc)
       PROVE  Moves(bm, ApplyWindowSize(q, c, remote), D, w)
  <2>1. c \in Nat
    BY SendWindowAssumption DEF AfterUpdateRtt, IInv, TypeOK
  <2>2. WindowSize(c, remote) \in 1 .. MaxWindow
    BY <2>1, WindowSizeInRange
  <2>3. IsPacketMap(q) /\ InLine(q, w)
    BY <1>14, <1>15
  <2> DEFINE p == ApplyWindowSize(q, c, remote)
             E == {}
  <2>4. Moves(q, p, E, w)
    BY <1>1, <2>2, <2>3, BMUpdateCapacityMoves DEF ApplyWindowSize
  <2>5. E \cap Nums(w - Len(bm.waiting), w) = {} /\ D \cup E = D
    OBVIOUS
  <2> HIDE DEF p, E, D
  <2>6. Moves(bm, p, D \cup E, w)
    BY <1>1, <1>15, <2>4, <2>5, MovesCompose
  <2> QED
    BY <2>5, <2>6 DEF p
<1>16. Moves(bm, applied, D, w)
  BY <1>12, <1>15 DEF applied
\* The second call of CS_CLOSE_WAIT finds nothing left to do.
<1>17. AfterAck(applied, newest, sack) = applied /\ NewlyAcked(applied, newest, sack) = 0
  <2>1. /\ Keys(applied) \cap sack = {} /\ Keys(applied) \cap Nums(0, k) = {}
        /\ Keys(applied) \subseteq Nums(0, w)
    BY <1>14, <1>16
  <2>2. BMDelete(applied, sack) = applied
    BY <2>1 DEF BMDelete
  <2>3. CumulativelyAcked(newest, Keys(applied)) = {}
    <3>1. k \in 0 .. MaxPackets
      BY <1>1 DEF M
    <3>2. Keys(applied) \in SUBSET Nums(0, MaxPackets)
      BY <1>7, <2>1 DEF M
    <3> QED
      BY <1>2, <2>1, <3>1, <3>2, CumulativeIs
  <2>4. BMDelete(applied, {}) = applied
    BY DEF BMDelete
  <2>5. Cardinality({}) = 0
    BY FS_EmptySet
  <2>6. AfterAck(applied, newest, sack) = applied
    BY <2>2, <2>3, <2>4 DEF AfterAck
  <2>7. NewlyAcked(applied, newest, sack) = 0 + 0
    BY <2>1, <2>2, <2>3, <2>5, Zenon DEF NewlyAcked
  <2> QED
    BY <2>6, <2>7
<1>18. /\ Moves(bm, packetMap', D, w)
       /\ totalAcked' = totalAcked + (Cardinality(Keys(bm) \cap sack) + Cardinality(C))
  <2>0. /\ totalAcked \in Nat /\ Cardinality(Keys(bm) \cap sack) + Cardinality(C) \in Nat
    <3>1. Keys(bm) \cap sack \in SUBSET SeqNrs /\ C \in SUBSET SeqNrs
      BY <1>1, <1>11 DEF IsPacketMap
    <3>2. Cardinality(Keys(bm) \cap sack) \in Nat /\ Cardinality(C) \in Nat
      BY <3>1, SeqNrsFinite
    <3> QED
      BY <3>2 DEF IInv, TypeOK
  <2>1. CASE connState = "CLOSE_WAIT"
    <3>1. PICK cc2 \in AfterUpdateRtt(cc) :
             /\ packetMap' = ApplyWindowSize(AfterAck(applied, newest, sack), cc2, remote)
             /\ totalAcked' = totalAcked + NewlyAcked(bm, newest, sack)
                                         + NewlyAcked(applied, newest, sack)
      BY <1>5, <2>1 DEF applied
    <3>2. packetMap' = ApplyWindowSize(applied, cc2, remote)
      BY <1>17, <3>1
    <3>3. totalAcked' = totalAcked + (Cardinality(Keys(bm) \cap sack) + Cardinality(C))
      BY <1>6, <1>17, <2>0, <3>1
    <3> HIDE DEF D
    <3>4. Moves(bm, packetMap', D, w)
      BY <1>15, <1>16, <3>2
    <3> QED
      BY <3>3, <3>4
  <2>2. CASE connState # "CLOSE_WAIT"
    BY <1>5, <1>6, <1>16, <2>2 DEF applied
  <2> QED
    BY <2>1, <2>2
<1>19. acked' = acked \cup (Keys(bm) \cap D)
  BY <1>4, <1>12, <1>14
<1>20. InLine(packetMap, written)' /\ Placed' /\ Covered'
  <2>1. latest' = SeqOf(k - 1) /\ (Keys(bm) \ D) \cap Nums(0, k) = {} /\ k \in 0 .. SentCount
    BY <1>2, <1>4, <1>11 DEF S
  <2>2. written' = written /\ lost' = lost /\ discarded' = discarded
    BY <1>4 DEF w
  <2> HIDE DEF D
  <2>3. Moves(packetMap, packetMap', D, written)
    BY <1>18 DEF w
  <2> QED
    BY <1>19, <2>1, <2>2, <2>3, DeletingStep
<1>21. AckedCountedOnce'
  <2>1. totalAcked = Cardinality(acked)
    BY <1>3, <1>4 DEF AckedCountedOnce
  <2> DEFINE X == Keys(bm) \cap sack
             Y == X \cup C
  <2>2. X \in SUBSET SeqNrs /\ C \in SUBSET SeqNrs /\ acked \in SUBSET SeqNrs /\ Y \in SUBSET SeqNrs
    BY <1>1, <1>11 DEF IsPacketMap, IInv, TypeOK
  <2>3. /\ IsFiniteSet(X) /\ IsFiniteSet(C) /\ IsFiniteSet(acked) /\ IsFiniteSet(Y)
        /\ Cardinality(X) \in Nat /\ Cardinality(C) \in Nat /\ Cardinality(acked) \in Nat
    BY <2>2, SeqNrsFinite
  <2>4. X \cap C = {} /\ acked \cap Y = {} /\ acked' = acked \cup Y
    BY <1>3, <1>11, <1>19 DEF Placed
  <2>5. totalAcked' = totalAcked + (Cardinality(X) + Cardinality(C))
    BY <1>18
  <2>6. Cardinality({}) = 0
    BY FS_EmptySet
  <2>7. Cardinality(Y) = Cardinality(X) + Cardinality(C) - Cardinality(X \cap C)
    <3> HIDE DEF X
    <3> QED
      BY <2>3, FS_Union
  <2> HIDE DEF X, Y
  <2>8. Cardinality(acked \cup Y) = Cardinality(acked) + Cardinality(Y) - Cardinality(acked \cap Y)
    BY <2>3, FS_Union
  <2>9. Cardinality(acked') = Cardinality(acked) + (Cardinality(X) + Cardinality(C))
    <3>1. Cardinality(X \cap C) = 0 /\ Cardinality(acked \cap Y) = 0
      BY <2>4, <2>6
    <3>2. Cardinality(Y) = Cardinality(X) + Cardinality(C)
      BY <2>3, <2>7, <3>1
    <3>3. Cardinality(acked \cup Y) = Cardinality(acked) + Cardinality(Y)
      BY <2>3, <2>8, <3>1, <3>2
    <3> QED
      BY <2>4, <3>2, <3>3
  <2>10. totalAcked' = Cardinality(acked')
    BY <2>1, <2>5, <2>9
  <2> QED
    BY <2>10 DEF AckedCountedOnce
<1>22. (localSeqNr = SeqOf(written) /\ written <= MaxPackets)'
  BY <1>4 DEF OrderInv, SeqOf, SeqAdd, w
<1> QED
  BY <1>20, <1>21, <1>22 DEF OrderInv

\* resend() at the limit: the window shrinks, and the packet is forgotten.
LEMMA GiveUpOrders ==
    ASSUME ShortStream, IInv, OrderInv, NEW s \in SeqNrs, GiveUp(s)
    PROVE  OrderInv'
<1> DEFINE w == written
           S == SentCount
           bm == packetMap
           cc == AfterPacketLoss(ccWindow)
           small == ApplyWindowSize(bm, cc, remoteWindow)
           D == {s}
           E == {}
<1>1. w \in Nat /\ InLine(bm, w) /\ IsPacketMap(bm) /\ w <= MaxPackets /\ S = w - Len(bm.waiting)
  BY DEF IInv, TypeOK, OrderInv, SentCount
<1>2. Len(bm.waiting) \in Nat
  BY <1>1 DEF IsPacketMap
<1>3. w - Len(bm.waiting) >= 0 /\ Keys(bm) \subseteq Nums(0, w - Len(bm.waiting))
  BY <1>1 DEF InLine
<1>4. WindowSize(cc, remoteWindow) \in 1 .. MaxWindow
  <2>1. ccWindow \in Nat /\ remoteWindow \in Nat \cup {Undefined}
    BY SendWindowAssumption DEF IInv, TypeOK
  <2>2. (ccWindow + 1) \div 2 \in Nat
    BY <2>1
  <2>3. cc \in Nat
    BY <2>2 DEF AfterPacketLoss, MaxOf
  <2> HIDE DEF cc
  <2> QED
    BY <2>1, <2>3, WindowSizeInRange
<1>5. /\ s \in Keys(bm) /\ packetMap' = BMDelete(small, {s}) /\ lost' = lost \cup {s}
      /\ connState' = connState /\ localSeqNr' = localSeqNr /\ latest' = latest
      /\ totalAcked' = totalAcked /\ written' = w /\ acked' = acked /\ discarded' = discarded
  BY DEF GiveUp
<1> HIDE DEF w, S, cc, small, E, D
<1>6. S \in Nat /\ S <= w /\ w <= MaxPackets
  BY <1>1, <1>2, <1>3
<1>7. D \cap Nums(w - Len(bm.waiting), w) = {}
  <2>1. 0 \in Nat /\ S \in Int /\ S <= S /\ w \in Int /\ S <= MaxPackets
    BY <1>1, <1>6, SendWindowAssumption
  <2>2. Nums(0, S) \cap Nums(S, w) = {}
    BY <1>6, <2>1, NumsApart
  <2> QED
    BY <1>1, <1>3, <1>5, <2>2 DEF D
<1>8. Moves(bm, small, E, w)
  BY <1>1, <1>4, BMUpdateCapacityMoves DEF small, ApplyWindowSize, E
<1>9. Moves(small, packetMap', D, w)
  <2>1. IsPacketMap(small) /\ InLine(small, w)
    BY <1>8 DEF Moves
  <2> QED
    BY <1>1, <1>5, <2>1, BMDeleteMoves DEF D
<1>10. Moves(bm, packetMap', D, w)
  <2>1. E \cup D = D
    BY DEF E
  <2>2. Moves(bm, packetMap', E \cup D, w)
    BY <1>1, <1>7, <1>8, <1>9, MovesCompose
  <2> QED
    BY <2>1, <2>2
<1>11. InLine(packetMap, written)' /\ Placed' /\ Covered'
  <2>1. lost' = lost \cup (Keys(packetMap) \cap D) /\ acked' = acked /\ discarded' = discarded
    BY <1>5 DEF D
  <2>2. \/ latest' = Undefined
        \/ \E k \in 0 .. SentCount :
              latest' = SeqOf(k - 1) /\ (Keys(packetMap) \ D) \cap Nums(0, k) = {}
    BY <1>5 DEF OrderInv, Covered
  <2>3. Moves(packetMap, packetMap', D, written) /\ written' = written
    BY <1>5, <1>10 DEF w
  <2> QED
    BY <2>1, <2>2, <2>3, DeletingStep
<1>12. AckedCountedOnce'
  BY <1>5 DEF OrderInv, AckedCountedOnce
<1>13. (localSeqNr = SeqOf(written) /\ written <= MaxPackets)'
  BY <1>5 DEF OrderInv, SeqOf, SeqAdd, w
<1> QED
  BY <1>11, <1>12, <1>13 DEF OrderInv

\* reset(): everything inside is thrown away, and the next ones are let in.
LEMMA ResetOrders ==
    ASSUME ShortStream, IInv, OrderInv, Reset
    PROVE  OrderInv'
<1> DEFINE w == written
           bm == packetMap
           D == Keys(packetMap)
           empty == BMClear(bm)
<1>1. w \in Nat /\ InLine(bm, w) /\ IsPacketMap(bm)
  BY DEF IInv, TypeOK, OrderInv
<1>2. /\ packetMap' = BMUpdateCapacity(empty, MinWindow) /\ latest' = Undefined
      /\ connState' = "RESET" /\ discarded' = discarded \cup D
      /\ localSeqNr' = localSeqNr /\ written' = w /\ acked' = acked /\ lost' = lost
  BY DEF Reset, ResetMap
<1>3. IsPacketMap(empty) /\ Keys(empty) = {} /\ empty.waiting = bm.waiting
  BY <1>1 DEF IsPacketMap, BMClear, BM, Keys, EmptyMap
<1> HIDE DEF empty, w, D
<1>4. InLine(empty, w)
  BY <1>1, <1>3 DEF InLine
<1>5. Moves(empty, packetMap', {}, w)
  <2>1. MinWindow \in 1 .. MaxWindow
    BY SendWindowAssumption
  <2> QED
    BY <1>1, <1>2, <1>3, <1>4, <2>1, BMUpdateCapacityMoves
<1>6. Moves(bm, packetMap', D, w)
  BY <1>3, <1>5 DEF Moves, D
<1>7. InLine(packetMap, written)' /\ Placed' /\ Covered'
  <2>1. discarded' = discarded \cup (Keys(packetMap) \cap D) /\ acked' = acked /\ lost' = lost
    BY <1>2 DEF D
  <2>2. Moves(packetMap, packetMap', D, written) /\ written' = written
    BY <1>2, <1>6 DEF w
  <2> QED
    BY <1>2, <2>1, <2>2, DeletingStep
<1>8. AckedCountedOnce'
  BY <1>2 DEF AckedCountedOnce
<1>9. (localSeqNr = SeqOf(written) /\ written <= MaxPackets)'
  BY <1>2 DEF OrderInv, SeqOf, SeqAdd, w
<1> QED
  BY <1>7, <1>8, <1>9 DEF OrderInv

\* A step that moves no packet.
LEMMA StillOrders ==
    ASSUME OrderInv, Keys(packetMap') = Keys(packetMap),
           packetMap'.waiting = packetMap.waiting,
           UNCHANGED <<localSeqNr, latest, totalAcked, written, acked, lost, discarded>>,
           connState' # "RESET" => connState # "RESET"
    PROVE  OrderInv'
<1>1. SentCount' = SentCount
  BY DEF SentCount
<1>2. InLine(packetMap, written)'
  BY DEF OrderInv, InLine, Nums, SeqOf, SeqAdd
<1>3. Placed'
  BY <1>1 DEF OrderInv, Placed, Nums, SeqOf, SeqAdd
<1>4. Covered'
  BY <1>1 DEF OrderInv, Covered, Undefined, Nums, SeqOf, SeqAdd
<1>5. AckedCountedOnce'
  BY DEF OrderInv, AckedCountedOnce
<1>6. (localSeqNr = SeqOf(written) /\ written <= MaxPackets)'
  BY DEF OrderInv, SeqOf, SeqAdd
<1> QED
  BY <1>2, <1>3, <1>4, <1>5, <1>6 DEF OrderInv

\* The order of packets holds at the start.
LEMMA InitOrders ==
    ASSUME Init
    PROVE  OrderInv
<1>1. /\ packetMap.waiting = <<>> /\ Keys(packetMap) = {} /\ written = 0
      /\ SentCount = 0 /\ Len(packetMap.waiting) = 0
  <2>1. packetMap.waiting = <<>> /\ Keys(packetMap) = {} /\ written = 0
    BY DEF Init, EmptyBlockingMap, EmptyMap, BM, Keys
  <2>2. Len(packetMap.waiting) = 0
    BY <2>1
  <2>3. SentCount = 0 - 0
    BY <2>1, <2>2, Zenon DEF SentCount
  <2> QED
    BY <2>1, <2>2, <2>3
<1>2. Nums(0, 0) = {}
  BY DEF Nums
<1>3. InLine(packetMap, written)
  BY <1>1, <1>2 DEF InLine
<1>4. Placed
  BY <1>1, <1>2 DEF Placed, Init
<1>5. Covered
  BY DEF Covered, Init
<1>6. AckedCountedOnce
  BY FS_EmptySet DEF AckedCountedOnce, Init
<1>7. localSeqNr = SeqOf(written) /\ written <= MaxPackets
  <2>1. FirstSeq \in 0 .. SeqMod - 1 /\ SeqMod \in Nat
    BY SendWindowAssumption, TwoHalves DEF SeqNrs
  <2>2. SeqOf(0) = FirstSeq
    BY <2>1 DEF SeqOf, SeqAdd
  <2> QED
    BY <1>1, <2>2, SendWindowAssumption DEF Init
<1> QED
  BY <1>3, <1>4, <1>5, <1>6, <1>7 DEF OrderInv

\* Every step of the window preserves the order.
LEMMA NextOrders ==
    ASSUME ShortStream, IInv, OrderInv, [Next]_vars
    PROVE  OrderInv'
<1>1. CASE WaitForAck
  BY <1>1, WaitForAckOrders
<1>2. CASE IncomingAck
  <2>1. PICK n \in 0 .. SentCount, remote \in RemoteWindows :
           \E sack \in SUBSET {SeqOf(i) : i \in n + 1 .. SentCount - 1} :
               HandleAck(SeqOf(n - 1), sack, remote)
    BY <1>2 DEF IncomingAck
  <2>2. remote \in Nat
    BY SendWindowAssumption
  <2> QED
    BY <2>1, <2>2, HandleAckOrders
<1>3. ASSUME NEW s \in SeqNrs, Resend(s) PROVE OrderInv'
  <2>1. Keys(packetMap') = Keys(packetMap) /\ packetMap'.waiting = packetMap.waiting
    BY <1>3 DEF Resend, BM, Keys
  <2> QED
    BY <1>3, <2>1, StillOrders DEF Resend
<1>4. CASE \E s \in SeqNrs : GiveUp(s)
  BY <1>4, GiveUpOrders
<1>5. CASE Close \/ Release
  BY <1>5, StillOrders DEF Close, Release
<1>6. CASE Reset
  BY <1>6, ResetOrders
<1>7. CASE UNCHANGED vars
  BY <1>7, StillOrders DEF vars
<1> QED
  BY <1>1, <1>2, <1>3, <1>4, <1>5, <1>6, <1>7 DEF Next, Gone

-----------------------------------------------------------------------------
(* Theorems about the order of packets *)

\* In a short stream the order holds in every behaviour of the window.
THEOREM OrderInvariance ==
    ASSUME ShortStream
    PROVE  Spec => [](IInv /\ OrderInv)
<1>1. Init => IInv /\ OrderInv
  BY InitEstablishes, InitOrders
<1>2. IInv /\ OrderInv /\ [Next]_vars => (IInv /\ OrderInv)'
  BY NextPreserves, NextOrders
<1> QED
  BY <1>1, <1>2, PTL DEF Spec

\* The waiting packets are the youngest ones.
LEMMA BlockedAreLast ==
    ASSUME IInv, OrderInv
    PROVE  /\ Blocked = Nums(SentCount, written)
           /\ SentCount \in Nat /\ written \in Nat /\ SentCount <= written
           /\ Keys(packetMap) \subseteq Nums(0, SentCount)
           /\ SentCount = written - Len(packetMap.waiting)
           /\ Len(packetMap.waiting) \in Nat
           /\ \A j \in 1 .. Len(packetMap.waiting) :
                 packetMap.waiting[j] = SeqOf(SentCount + j - 1)
<1> DEFINE w == written
           S == SentCount
           L == Len(packetMap.waiting)
           ws == packetMap.waiting
<1>1. L \in Nat /\ w \in Nat /\ S = w - L
  BY DEF IInv, TypeOK, IsPacketMap, SentCount
<1>2. /\ S >= 0 /\ \A j \in 1 .. L : ws[j] = SeqOf(S + j - 1)
      /\ Keys(packetMap) \subseteq Nums(0, S)
  BY <1>1 DEF OrderInv, InLine
<1>3. Blocked = {ws[j] : j \in 1 .. L}
  BY DEF Blocked
<1> HIDE DEF w, S, L, ws
<1>4. ASSUME NEW j \in 1 .. L PROVE ws[j] \in Nums(S, w)
  <2>1. S + j - 1 \in S .. w - 1
    BY <1>1
  <2> QED
    BY <1>2, <2>1, InNums
<1>5. ASSUME NEW x \in Nums(S, w) PROVE \E j \in 1 .. L : x = ws[j]
  <2>1. PICK i \in S .. w - 1 : x = SeqOf(i)
    BY DEF Nums
  <2> DEFINE j == i - S + 1
  <2>2. j \in 1 .. L /\ S + j - 1 = i
    BY <1>1
  <2> HIDE DEF j
  <2>3. ws[j] = SeqOf(S + j - 1)
    BY <1>2, <2>2
  <2> QED
    BY <2>1, <2>2, <2>3
<1>6. Blocked = Nums(S, w)
  BY <1>3, <1>4, <1>5
<1>7. S \in Nat /\ S <= w
  BY <1>1, <1>2
<1> QED
  BY <1>1, <1>2, <1>6, <1>7, Zenon DEF w, S, L, ws

\* Every packet handed to the window, in a connection that writes at most half
\* a round of sequence numbers, is in one place only: no acknowledgement,
\* retransmission limit, capacity change or reset of utp_send_window.ts loses
\* a packet or leaves it in two places.
THEOREM EveryPacketPlaced ==
    ASSUME ShortStream
    PROVE  Spec => []EveryPacketInOnePlace
<1>1. ASSUME IInv, OrderInv PROVE EveryPacketInOnePlace
  <2> DEFINE S == SentCount
             w == written
             K == Keys(packetMap)
             places == <<K, Blocked, acked, lost, discarded>>
  <2>1. /\ Blocked = Nums(S, w) /\ S \in Nat /\ w \in Nat /\ S <= w
        /\ w <= MaxPackets /\ MaxPackets \in Nat
    BY <1>1, BlockedAreLast, SendWindowAssumption DEF OrderInv
  <2>2. /\ K \cup acked \cup lost \cup discarded = Nums(0, S)
        /\ K \cap acked = {} /\ K \cap lost = {} /\ K \cap discarded = {}
        /\ acked \cap lost = {} /\ acked \cap discarded = {} /\ lost \cap discarded = {}
    BY <1>1 DEF OrderInv, Placed
  <2> HIDE DEF S, w, K
  <2>3. Nums(0, S) \cup Nums(S, w) = Nums(0, w) /\ Nums(0, S) \cap Nums(S, w) = {}
    <3>1. 0 \in Int /\ 0 \in Nat /\ S \in Int /\ w \in Int /\ 0 <= S /\ S <= S /\ S <= MaxPackets
      BY <2>1
    <3>2. Nums(0, S) \cup Nums(S, w) = Nums(0, w)
      BY <2>1, <3>1, NumsJoin
    <3>3. Nums(0, S) \cap Nums(S, w) = {}
      BY <1>1, <2>1, <3>1, NumsApart
    <3> QED
      BY <3>2, <3>3
  <2>4. K \cup Blocked \cup acked \cup lost \cup discarded = Nums(0, w)
    BY <2>1, <2>2, <2>3
  <2>5. Blocked \cap K = {} /\ Blocked \cap acked = {} /\ Blocked \cap lost = {}
        /\ Blocked \cap discarded = {}
    BY <2>1, <2>2, <2>3
  <2>6. /\ places[1] = K /\ places[2] = Blocked /\ places[3] = acked
        /\ places[4] = lost /\ places[5] = discarded
    OBVIOUS
  <2> HIDE DEF places
  <2>7. \A p \in 1 .. 5 : p = 1 \/ p = 2 \/ p = 3 \/ p = 4 \/ p = 5
    OBVIOUS
  <2>8. UNION {places[p] : p \in 1 .. 5} = K \cup Blocked \cup acked \cup lost \cup discarded
    <3>1. 1 \in 1 .. 5 /\ 2 \in 1 .. 5 /\ 3 \in 1 .. 5 /\ 4 \in 1 .. 5 /\ 5 \in 1 .. 5
      OBVIOUS
    <3>2. \A x : x \in UNION {places[p] : p \in 1 .. 5} <=> \E p \in 1 .. 5 : x \in places[p]
      OBVIOUS
    <3>3. \A x : (\E p \in 1 .. 5 : x \in places[p])
                   <=> x \in K \cup Blocked \cup acked \cup lost \cup discarded
      BY <2>6, <2>7, <3>1, Zenon
    <3> QED
      BY <3>2, <3>3
  <2>9. ASSUME NEW p \in 1 .. 5, NEW q \in 1 .. 5, p # q PROVE places[p] \cap places[q] = {}
    BY <2>2, <2>5, <2>6, <2>7, <2>9
  <2> QED
    BY <2>4, <2>8, <2>9 DEF EveryPacketInOnePlace, Nums, places, w, K
<1> QED
  BY <1>1, OrderInvariance, PTL

\* #totalAckedPackets counts every acknowledged packet once, also when
\* handleAck runs twice for one packet in CS_CLOSE_WAIT.
THEOREM CountedOnce ==
    ASSUME ShortStream
    PROVE  Spec => []AckedCountedOnce
<1>1. IInv /\ OrderInv => AckedCountedOnce
  BY DEF OrderInv
<1> QED
  BY <1>1, OrderInvariance, PTL

\* handleAck leaves nothing behind that the newest acknowledgement covers, and
\* no packet so covered waits.
THEOREM NothingAckedLingers ==
    ASSUME ShortStream
    PROVE  Spec => []NoAckedPacketLingers
<1>1. ASSUME IInv, OrderInv PROVE NoAckedPacketLingers
  <2> DEFINE S == SentCount
             w == written
             K == Keys(packetMap)
  <2>1. /\ Blocked = Nums(S, w) /\ S \in Nat /\ w \in Nat /\ S <= w
        /\ w <= MaxPackets /\ MaxPackets \in Nat /\ K \subseteq Nums(0, S)
    BY <1>1, BlockedAreLast, SendWindowAssumption DEF OrderInv
  <2>2. latest = Undefined \/ \E k \in 0 .. S : latest = SeqOf(k - 1) /\ K \cap Nums(0, k) = {}
    BY <1>1 DEF OrderInv, Covered
  <2> HIDE DEF S, w, K
  <2>3. ASSUME NEW k \in 0 .. S, latest = SeqOf(k - 1), K \cap Nums(0, k) = {},
               NEW s \in K \cup Blocked, SeqGe(latest, s)
        PROVE  FALSE
    <3>1. PICK i \in 0 .. w - 1 : s = SeqOf(i)
      BY <2>1 DEF Nums
    <3>2. k \in 0 .. MaxPackets /\ i \in 0 .. MaxPackets - 1
      BY <2>1
    <3>3. i < k
      BY <1>1, <2>3, <3>1, <3>2, ShortStreamOrder
    <3>4. i \in 0 .. k - 1
      BY <2>1, <3>3
    <3>5. s \in Nums(0, k)
      BY <3>1, <3>4, InNums
    <3>6. s \in Nums(S, w)
      BY <2>1, <2>3, <3>5
    <3>7. Nums(0, k) \cap Nums(S, w) = {}
      <4>1. 0 \in Nat /\ k \in Int /\ w \in Int /\ k <= S /\ k <= MaxPackets
        BY <2>1
      <4> QED
        BY <1>1, <2>1, <4>1, NumsApart
    <3> QED
      BY <3>5, <3>6, <3>7
  <2> QED
    BY <2>2, <2>3 DEF NoAckedPacketLingers, K
<1> QED
  BY <1>1, OrderInvariance, PTL

\* blocking_map.ts lets packets in by number: what waits is younger, by the
\* code's own comparison, than what is inside, and waits in order.
THEOREM AdmittedInOrder ==
    ASSUME ShortStream
    PROVE  Spec => []AdmissionInOrder
<1>1. ASSUME IInv, OrderInv PROVE AdmissionInOrder
  <2> DEFINE S == SentCount
             w == written
             K == Keys(packetMap)
             L == Len(packetMap.waiting)
             ws == packetMap.waiting
  <2>1. /\ Blocked = Nums(S, w) /\ S \in Nat /\ w \in Nat /\ S <= w /\ K \subseteq Nums(0, S)
        /\ S = w - L /\ L \in Nat /\ w <= MaxPackets /\ MaxPackets \in Nat
        /\ \A j \in 1 .. L : ws[j] = SeqOf(S + j - 1)
    BY <1>1, BlockedAreLast, SendWindowAssumption DEF OrderInv
  <2> HIDE DEF S, w, K, L, ws
  <2>2. ASSUME NEW s \in K, NEW x \in Blocked PROVE SeqLt(s, x)
    <3>1. PICK i \in 0 .. S - 1 : s = SeqOf(i)
      BY <2>1 DEF Nums
    <3>2. PICK j \in S .. w - 1 : x = SeqOf(j)
      BY <2>1 DEF Nums
    <3>3. i \in 0 .. MaxPackets - 1 /\ j \in 0 .. MaxPackets - 1 /\ i < j
      BY <2>1
    <3> QED
      BY <1>1, <3>1, <3>2, <3>3, ShortStreamOrder
  <2>3. ASSUME NEW i \in 1 .. L, NEW j \in 1 .. L, i < j PROVE SeqLt(ws[i], ws[j])
    <3> DEFINE a == S + i - 1
               b == S + j - 1
    <3>1. ws[i] = SeqOf(a) /\ ws[j] = SeqOf(b)
      BY <2>1
    <3>2. a \in 0 .. MaxPackets - 1 /\ b \in 0 .. MaxPackets - 1 /\ a < b
      BY <2>1, <2>3
    <3> HIDE DEF a, b
    <3> QED
      BY <1>1, <3>1, <3>2, ShortStreamOrder
  <2> QED
    BY <2>2, <2>3 DEF AdmissionInOrder, K, L, ws
<1> QED
  BY <1>1, OrderInvariance, PTL

-----------------------------------------------------------------------------
(* What one step does to the packets of the window, for connections of any *)
(* length                                                                  *)

\* r comes from bm by letting waiting setters in and dropping keys: what stays
\* keeps its resend count, and what is new starts from none.
Follows(bm, r) ==
    /\ IsPacketMap(r)
    /\ Len(r.waiting) <= Len(bm.waiting)
    /\ \A k \in Keys(r) : r.map[k] = Fresh \/ (k \in Keys(bm) /\ r.map[k] = bm.map[k])

\* One such move after another is one.
LEMMA FollowsTwice ==
    ASSUME NEW bm, IsPacketMap(bm), NEW r, Follows(bm, r), NEW q, Follows(r, q)
    PROVE  Follows(bm, q)
<1>1. Len(bm.waiting) \in Nat /\ Len(r.waiting) \in Nat /\ Len(q.waiting) \in Nat
  BY DEF Follows, IsPacketMap
<1>2. Len(q.waiting) <= Len(bm.waiting)
  BY <1>1 DEF Follows
<1> QED
  BY <1>2 DEF Follows

\* resolveNextSetter lets in who waits, and drops nobody.
LEMMA ResolveFollows ==
    ASSUME NEW bm, IsPacketMap(bm)
    PROVE  Follows(bm, ResolveNextSetter(bm)) /\ Keys(bm) \subseteq Keys(ResolveNextSetter(bm))
<1> DEFINE n == AdmitCount(bm)
           r == LetIn(bm, n)
           f == [k \in KeysAfter(bm, n) |->
                    IF \E i \in 1 .. n : bm.waiting[i] = k THEN Fresh ELSE bm.map[k]]
<1>1. n \in 0 .. Len(bm.waiting)
  BY AdmitCountStops
<1> HIDE DEF n
<1>2. IsPacketMap(r) /\ r.waiting = SubSeq(bm.waiting, n + 1, Len(bm.waiting))
      /\ Keys(r) = KeysAfter(bm, n)
  BY <1>1, LetInType
<1>3. Len(r.waiting) <= Len(bm.waiting)
  <2>1. bm.waiting \in Seq(SeqNrs) /\ Len(bm.waiting) \in Nat
    BY DEF IsPacketMap
  <2> QED
    BY <1>1, <1>2, <2>1
<1>4. r.map = f
  BY DEF LetIn, BM
<1>5. \A k \in KeysAfter(bm, n) : f[k] = Fresh \/ (k \in Keys(bm) /\ f[k] = bm.map[k])
  BY DEF KeysAfter
<1> HIDE DEF f, r
<1>6. Follows(bm, r)
  BY <1>2, <1>3, <1>4, <1>5 DEF Follows
<1>7. Keys(bm) \subseteq Keys(r)
  BY <1>2 DEF KeysAfter
<1> QED
  BY <1>6, <1>7 DEF ResolveNextSetter, r, n

\* delete() drops only what it is told to.
LEMMA BMDeleteFollows ==
    ASSUME NEW bm, IsPacketMap(bm), NEW K
    PROVE  Follows(bm, BMDelete(bm, K)) /\ Keys(bm) \ K \subseteq Keys(BMDelete(bm, K))
<1>1. CASE Keys(bm) \cap K = {}
  <2>1. BMDelete(bm, K) = bm /\ Len(bm.waiting) \in Nat
    BY <1>1 DEF BMDelete, IsPacketMap
  <2> QED
    BY <2>1 DEF Follows
<1>2. CASE Keys(bm) \cap K # {}
  <2> DEFINE f == [k \in Keys(bm) \ K |-> bm.map[k]]
             left == BM(f, bm.capacity, bm.waiting)
  <2>1. f \in [Keys(bm) \ K -> 0 .. ResendTimesLimit] /\ DOMAIN f = Keys(bm) \ K
        /\ \A k \in Keys(bm) \ K : f[k] = bm.map[k]
    BY DEF IsPacketMap
  <2> HIDE DEF f
  <2>2. IsPacketMap(left) /\ Keys(left) = Keys(bm) \ K /\ left.waiting = bm.waiting /\ left.map = f
    BY <2>1 DEF IsPacketMap, BM, Keys
  <2>3. BMDelete(bm, K) = ResolveNextSetter(left)
    BY <1>2 DEF BMDelete, Without, f
  <2> HIDE DEF left
  <2>4. Follows(left, ResolveNextSetter(left)) /\ Keys(left) \subseteq Keys(ResolveNextSetter(left))
    BY <2>2, ResolveFollows
  <2>5. Follows(bm, left)
    <3>1. Len(bm.waiting) \in Nat
      BY DEF IsPacketMap
    <3> QED
      BY <2>1, <2>2, <3>1 DEF Follows
  <2>6. Follows(bm, ResolveNextSetter(left))
    BY <2>4, <2>5, FollowsTwice
  <2> QED
    BY <2>2, <2>3, <2>4, <2>6
<1> QED
  BY <1>1, <1>2

\* updateCapacity() drops nobody.
LEMMA BMUpdateCapacityFollows ==
    ASSUME NEW bm, IsPacketMap(bm), NEW c \in 1 .. MaxWindow
    PROVE  Follows(bm, BMUpdateCapacity(bm, c)) /\ Keys(bm) \subseteq Keys(BMUpdateCapacity(bm, c))
<1> DEFINE new == BM(bm.map, c, bm.waiting)
<1>1. IsPacketMap(new) /\ Keys(new) = Keys(bm) /\ new.waiting = bm.waiting /\ new.map = bm.map
  BY DEF IsPacketMap, BM, Keys
<1>2. BMUpdateCapacity(bm, c) = ResolveNextSetter(new)
  BY DEF BMUpdateCapacity
<1> HIDE DEF new
<1>3. Follows(new, ResolveNextSetter(new)) /\ Keys(new) \subseteq Keys(ResolveNextSetter(new))
  BY <1>1, ResolveFollows
<1> QED
  BY <1>1, <1>2, <1>3 DEF Follows

\* set() drops nobody and makes at most the newcomer wait.
LEMMA BMSetFollows ==
    ASSUME NEW bm, Bounded(bm), NEW key \in SeqNrs
    PROVE  LET r == BMSet(bm, key)
           IN  /\ Len(r.waiting) <= Len(bm.waiting) + 1
               /\ Keys(bm) \subseteq Keys(r)
               /\ \A k \in Keys(r) : r.map[k] = Fresh \/ (k \in Keys(bm) /\ r.map[k] = bm.map[k])
<1>0. IsPacketMap(bm) /\ Len(bm.waiting) \in Nat /\ bm.waiting \in Seq(SeqNrs)
  BY DEF Bounded, IsPacketMap
<1>1. CASE Size(bm) < bm.capacity
  <2> DEFINE put == Put(bm, key)
             r == ResolveNextSetter(put)
  <2>1. IsPacketMap(put)
    BY <1>1, PutBounded DEF Bounded
  <2>2. /\ put.waiting = bm.waiting /\ Keys(put) = Keys(bm) \cup {key}
        /\ \A k \in Keys(put) : put.map[k] = IF k = key THEN Fresh ELSE bm.map[k]
    BY DEF Put, BM, Keys
  <2>3. BMSet(bm, key) = r
    BY <1>1 DEF BMSet
  <2> HIDE DEF put
  <2>4. Follows(put, r) /\ Keys(put) \subseteq Keys(r)
    BY <2>1, ResolveFollows
  <2> HIDE DEF r
  <2>5. Len(r.waiting) \in Nat /\ Len(r.waiting) <= Len(bm.waiting)
    BY <2>2, <2>4 DEF Follows, IsPacketMap
  <2>6. \A k \in Keys(r) : r.map[k] = Fresh \/ (k \in Keys(bm) /\ r.map[k] = bm.map[k])
    BY <2>2, <2>4 DEF Follows
  <2> QED
    BY <1>0, <2>2, <2>3, <2>4, <2>5, <2>6
<1>2. CASE ~(Size(bm) < bm.capacity)
  <2>1. BMSet(bm, key) = BM(bm.map, bm.capacity, Append(bm.waiting, key))
    BY <1>2 DEF BMSet
  <2>2. Len(Append(bm.waiting, key)) = Len(bm.waiting) + 1
    BY <1>0
  <2>3. /\ BMSet(bm, key).map = bm.map /\ Keys(BMSet(bm, key)) = Keys(bm)
        /\ BMSet(bm, key).waiting = Append(bm.waiting, key)
    BY <2>1 DEF BM, Keys
  <2> QED
    BY <1>0, <2>2, <2>3
<1> QED
  BY <1>1, <1>2

\* handleAck's deletions concern what is selectively acknowledged or not newer
\* than the newest cumulative acknowledgement.
LEMMA AfterAckFollows ==
    ASSUME NEW bm, IsPacketMap(bm), NEW newest, NEW sack
    PROVE  /\ Follows(bm, AfterAck(bm, newest, sack))
           /\ \A k \in Keys(bm) \ Keys(AfterAck(bm, newest, sack)) :
                 k \in sack \/ (newest # Undefined /\ SeqGe(newest, k))
<1> DEFINE left == BMDelete(bm, sack)
           C == CumulativelyAcked(newest, Keys(left))
           r == BMDelete(left, C)
<1>1. Follows(bm, left) /\ Keys(bm) \ sack \subseteq Keys(left)
  BY BMDeleteFollows
<1>2. AfterAck(bm, newest, sack) = r
  BY DEF AfterAck
<1>3. \A k \in C : newest # Undefined /\ SeqGe(newest, k)
  BY DEF CumulativelyAcked
<1> HIDE DEF left, C
<1>4. Follows(left, r) /\ Keys(left) \ C \subseteq Keys(r)
  <2>1. IsPacketMap(left)
    BY <1>1 DEF Follows
  <2> QED
    BY <2>1, BMDeleteFollows
<1> HIDE DEF r
<1>5. Follows(bm, r)
  BY <1>1, <1>4, FollowsTwice
<1> QED
  BY <1>1, <1>2, <1>3, <1>4, <1>5

\* An ACK: the packets it acknowledges are covered by it or by a newer one.
LEMMA HandleAckFollows ==
    ASSUME IInv, NEW ackNr, NEW sack, NEW remote \in Nat, HandleAck(ackNr, sack, remote)
    PROVE  /\ Follows(packetMap, packetMap')
           /\ \A s \in acked' : \/ s \in acked \/ s \in sack
                                \/ latest' # Undefined /\ SeqGe(latest', s)
<1> DEFINE newest == LatestAfter(latest, ackNr)
           once == AfterAck(packetMap, newest, sack)
<1>1. IsPacketMap(packetMap) /\ ccWindow \in Nat
  BY SendWindowAssumption DEF IInv, TypeOK
<1>2. latest' = newest /\ acked' = acked \cup (Keys(packetMap) \ Keys(once))
  BY DEF HandleAck
<1>3. /\ Follows(packetMap, once)
      /\ \A k \in Keys(packetMap) \ Keys(once) :
            k \in sack \/ (newest # Undefined /\ SeqGe(newest, k))
  BY <1>1, AfterAckFollows
<1>4. \A s \in acked' : \/ s \in acked \/ s \in sack
                        \/ latest' # Undefined /\ SeqGe(latest', s)
  BY <1>2, <1>3
<1>5. PICK cc \in AfterUpdateRtt(ccWindow) :
         LET applied == ApplyWindowSize(once, cc, remote)
         IN  IF connState = "CLOSE_WAIT"
             THEN \E cc2 \in AfterUpdateRtt(cc) :
                     packetMap' = ApplyWindowSize(AfterAck(applied, newest, sack), cc2, remote)
             ELSE packetMap' = applied
  BY DEF HandleAck
<1> DEFINE applied == ApplyWindowSize(once, cc, remote)
           twice == AfterAck(applied, newest, sack)
<1> HIDE DEF once, newest
<1>6. cc \in Nat
  BY <1>1, SendWindowAssumption DEF AfterUpdateRtt
<1>7. Follows(once, applied)
  <2>1. WindowSize(cc, remote) \in 1 .. MaxWindow
    BY <1>6, WindowSizeInRange
  <2>2. IsPacketMap(once)
    BY <1>3 DEF Follows
  <2> QED
    BY <2>1, <2>2, BMUpdateCapacityFollows DEF ApplyWindowSize
<1> HIDE DEF applied
<1>8. Follows(packetMap, applied) /\ IsPacketMap(applied)
  BY <1>1, <1>3, <1>7, FollowsTwice DEF Follows
<1>9. CASE connState # "CLOSE_WAIT"
  BY <1>4, <1>5, <1>8, <1>9 DEF applied
<1>10. CASE connState = "CLOSE_WAIT"
  <2>1. PICK cc2 \in AfterUpdateRtt(cc) : packetMap' = ApplyWindowSize(twice, cc2, remote)
    BY <1>5, <1>10 DEF applied
  <2>2. cc2 \in Nat
    BY <1>6, SendWindowAssumption DEF AfterUpdateRtt
  <2>3. Follows(applied, twice)
    BY <1>8, AfterAckFollows
  <2> HIDE DEF twice
  <2>4. Follows(twice, packetMap')
    <3>1. WindowSize(cc2, remote) \in 1 .. MaxWindow
      BY <2>2, WindowSizeInRange
    <3>2. IsPacketMap(twice)
      BY <2>3 DEF Follows
    <3>3. Follows(twice, ApplyWindowSize(twice, cc2, remote))
      BY <3>1, <3>2, BMUpdateCapacityFollows DEF ApplyWindowSize
    <3> QED
      BY <2>1, <3>3
  <2>5. Follows(packetMap, twice)
    BY <1>1, <1>8, <2>3, FollowsTwice
  <2>6. Follows(packetMap, packetMap')
    BY <1>1, <2>4, <2>5, FollowsTwice
  <2> QED
    BY <1>4, <2>6
<1> QED
  BY <1>9, <1>10

\* resend() at the limit.
LEMMA GiveUpFollows ==
    ASSUME IInv, NEW s \in SeqNrs, GiveUp(s)
    PROVE  Follows(packetMap, packetMap')
<1> DEFINE cc == AfterPacketLoss(ccWindow)
           small == ApplyWindowSize(packetMap, cc, remoteWindow)
<1>1. IsPacketMap(packetMap) /\ ccWindow \in Nat /\ remoteWindow \in Nat \cup {Undefined}
  BY SendWindowAssumption DEF IInv, TypeOK
<1>2. cc \in Nat
  <2>1. (ccWindow + 1) \div 2 \in Nat
    BY <1>1
  <2> QED
    BY <2>1 DEF AfterPacketLoss, MaxOf
<1> HIDE DEF cc
<1>3. Follows(packetMap, small)
  <2>1. WindowSize(cc, remoteWindow) \in 1 .. MaxWindow
    BY <1>1, <1>2, WindowSizeInRange
  <2> QED
    BY <1>1, <2>1, BMUpdateCapacityFollows DEF ApplyWindowSize
<1>4. packetMap' = BMDelete(small, {s})
  BY DEF GiveUp, cc
<1> HIDE DEF small
<1>5. Follows(small, packetMap')
  BY <1>3, <1>4, BMDeleteFollows DEF Follows
<1> QED
  BY <1>1, <1>3, <1>5, FollowsTwice
=============================================================================
