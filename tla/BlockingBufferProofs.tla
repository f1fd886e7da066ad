------------------------ MODULE BlockingBufferProofs ------------------------
(***************************************************************************)
(* What BlockingBuffer guarantees for every set of readers, every buffer   *)
(* size and every set of payload sizes: no reader is stranded, the end of  *)
(* the stream is reported at the end only, and the totals settle.          *)
(***************************************************************************)
EXTENDS BlockingBuffer, FiniteSetTheorems, TLAPS

\* The bytes that the inner buffer has given out and that totalBytesRead does
\* not count yet: one pair for each byte of a reader that awaits the inner read.
InTransit(readers, bytes) ==
    {x \in Readers \X (1 .. BufSize) : readers[x[1]] = "reading" /\ x[2] <= bytes[x[1]]}

\* The bytes of a write() that totalBytesWritten does not count yet.
Uncounted == IF writer = "written" THEN writeSize ELSE 0

\* Every byte written is counted as read, in the buffer, or on its way.
BytesAccountedFor ==
    /\ IsFiniteSet(InTransit(reader, taken))
    /\ totalBytesWritten + Uncounted
          = totalBytesRead + length + Cardinality(InTransit(reader, taken))
    /\ totalBytesWritten + Uncounted <= MaxBytes

\* The queue holds each waiting reader once, and nobody else.
WaitersQueuedIn(readers, queue) ==
    /\ \A k \in 1 .. Len(queue) : readers[queue[k]] = "waiting"
    /\ \A r \in Readers : readers[r] = "waiting" => \E k \in 1 .. Len(queue) : queue[k] = r
    /\ \A j, k \in 1 .. Len(queue) : queue[j] = queue[k] => j = k

WaitersQueued == WaitersQueuedIn(reader, readResolvers)

\* drain() comes after the last write(), and a closed buffer is empty.
ClosedIsFinal ==
    /\ closed => closedForWriting /\ length = 0
    /\ closedForWriting => writer = "idle"
    /\ \A r \in Readers : reader[r] = "eof" => closedForWriting /\ length = 0
    /\ writer = "serving" => reader[served] = "reading"

\* The inductive invariant.
BufferIInv ==
    BufferTypeOK /\ BytesAccountedFor /\ WaitersQueued /\ ClosedIsFinal /\ NoReaderStranded

ReaderStates == {"new", "waiting", "reading", "done", "eof"}

-----------------------------------------------------------------------------
(* Bytes on their way to a reader *)

\* The n bytes of one reader are n pairs.
LEMMA BytesOfOne ==
    ASSUME NEW r, NEW n \in Nat
    PROVE  /\ IsFiniteSet({r} \X (1 .. n))
           /\ Cardinality({r} \X (1 .. n)) = n
<1> DEFINE f == [b \in 1 .. n |-> <<r, b>>]
<1>1. f \in Bijection(1 .. n, {r} \X (1 .. n))
  <2>1. f \in [1 .. n -> {r} \X (1 .. n)]
    OBVIOUS
  <2>2. \A a, b \in 1 .. n : f[a] = f[b] => a = b
    OBVIOUS
  <2>3. \A x \in {r} \X (1 .. n) : \E b \in 1 .. n : f[b] = x
    OBVIOUS
  <2> HIDE DEF f
  <2>4. f \in Injection(1 .. n, {r} \X (1 .. n))
    BY <2>1, <2>2 DEF Injection, IsInjective
  <2> QED
    BY <2>1, <2>3, <2>4 DEF Bijection, Surjection
<1>2. ExistsBijection(1 .. n, {r} \X (1 .. n))
  BY <1>1 DEF ExistsBijection
<1> QED
  BY <1>2, FS_CountingElements, FS_NatBijection

\* Adding them to a set that has none of them adds n to its size.
LEMMA AddBytesOfOne ==
    ASSUME NEW T, NEW N, NEW r, NEW n \in Nat, IsFiniteSet(T),
           N = {r} \X (1 .. n), T \cap N = {}
    PROVE  /\ IsFiniteSet(T \cup N)
           /\ Cardinality(T \cup N) = Cardinality(T) + n
<1>1. IsFiniteSet(N) /\ Cardinality(N) = n
  BY BytesOfOne
<1>2. Cardinality(T) \in Nat
  BY FS_CardinalityType
<1>3. Cardinality(T \cap N) = 0
  BY FS_EmptySet
<1>4. IsFiniteSet(T \cup N) /\ Cardinality(T \cup N) = Cardinality(T) + Cardinality(N) - Cardinality(T \cap N)
  BY <1>1, FS_Union
<1> QED
  BY <1>1, <1>2, <1>3, <1>4

\* A reader that gets bytes from the inner buffer puts them in transit.
LEMMA TransitGrows ==
    ASSUME NEW rd, NEW tk, NEW rd2, NEW tk2, NEW r \in Readers,
           IsFiniteSet(InTransit(rd, tk)),
           rd[r] # "reading", rd2[r] = "reading", tk2[r] \in 0 .. BufSize,
           \A s \in Readers \ {r} : rd2[s] = rd[s] /\ tk2[s] = tk[s]
    PROVE  /\ IsFiniteSet(InTransit(rd2, tk2))
           /\ Cardinality(InTransit(rd2, tk2)) = Cardinality(InTransit(rd, tk)) + tk2[r]
<1> DEFINE n == tk2[r]
           N == {r} \X (1 .. n)
           T == InTransit(rd, tk)
<1>1. n \in Nat /\ BufSize \in Nat
  BY BufferAssumption
<1>2. InTransit(rd2, tk2) = T \cup N
  BY <1>1 DEF InTransit
<1>3. T \cap N = {} /\ N = {r} \X (1 .. n) /\ IsFiniteSet(T)
  BY DEF InTransit
<1> HIDE DEF n, N, T
<1>4. IsFiniteSet(T \cup N) /\ Cardinality(T \cup N) = Cardinality(T) + n
  BY <1>1, <1>3, AddBytesOfOne
<1> QED
  BY <1>2, <1>4 DEF n, T

\* A reader whose read ends takes its bytes out of transit.
LEMMA TransitShrinks ==
    ASSUME NEW rd, NEW tk, NEW rd2, NEW r \in Readers,
           IsFiniteSet(InTransit(rd, tk)),
           tk[r] \in 0 .. BufSize,
           rd[r] = "reading", rd2[r] # "reading",
           \A s \in Readers \ {r} : rd2[s] = rd[s]
    PROVE  /\ IsFiniteSet(InTransit(rd2, tk))
           /\ Cardinality(InTransit(rd, tk)) = Cardinality(InTransit(rd2, tk)) + tk[r]
<1> DEFINE N == {r} \X (1 .. tk[r])
<1>1. tk[r] \in Nat /\ BufSize \in Nat
  BY BufferAssumption
<1>2. InTransit(rd, tk) = InTransit(rd2, tk) \cup N
  BY <1>1 DEF InTransit
<1>3. InTransit(rd2, tk) \cap N = {}
  BY DEF InTransit
<1>4. N = {r} \X (1 .. tk[r])
  OBVIOUS
<1> HIDE DEF N
<1>5. IsFiniteSet(InTransit(rd2, tk))
  BY <1>2, FS_Subset
<1> QED
  <2>1. /\ IsFiniteSet(InTransit(rd2, tk) \cup N)
        /\ Cardinality(InTransit(rd2, tk) \cup N) = Cardinality(InTransit(rd2, tk)) + tk[r]
    BY <1>1, <1>3, <1>4, <1>5, AddBytesOfOne, Zenon
  <2> QED
    BY <1>2, <1>5, <2>1, Zenon

\* The bytes in transit depend only on which readers await them.
LEMMA TransitSame ==
    ASSUME NEW rd, NEW tk, NEW rd2,
           \A s \in Readers : rd2[s] = "reading" <=> rd[s] = "reading"
    PROVE  InTransit(rd2, tk) = InTransit(rd, tk)
BY DEF InTransit

-----------------------------------------------------------------------------
(* The turn of write()'s loop *)

\* A turn serves the reader that has waited longest, or ends write() because
\* nobody waits or nothing is left; bytes move from the buffer into transit.
LEMMA ServeOrReturnServes ==
    ASSUME BufferTypeOK,
           NEW readers \in [Readers -> ReaderStates],
           IsFiniteSet(InTransit(readers, taken)),
           WaitersQueuedIn(readers, readResolvers),
           ServeOrReturn(readers)
    PROVE  /\ reader' \in [Readers -> ReaderStates]
           /\ taken' \in [Readers -> 0 .. BufSize]
           /\ readResolvers' \in Seq(Readers)
           /\ length' \in 0 .. length
           /\ writer' \in {"idle", "serving"}
           /\ served' \in Readers \cup {NoReader}
           /\ served' = NoReader <=> writer' # "serving"
           /\ writer' = "serving" => reader'[served'] = "reading"
           /\ writer' = "idle" => readResolvers' = <<>> \/ length' = 0
           /\ \A r \in Readers : reader'[r] = "eof" => readers[r] = "eof"
           /\ WaitersQueuedIn(reader', readResolvers')
           /\ IsFiniteSet(InTransit(reader', taken'))
           /\ Cardinality(InTransit(reader', taken')) + length'
                 = Cardinality(InTransit(readers, taken)) + length
<1>1. /\ length \in Nat /\ readResolvers \in Seq(Readers) /\ taken \in [Readers -> 0 .. BufSize]
      /\ BufSize \in Nat /\ NoReader \notin Readers /\ MaxBytes \in Nat
  BY BufferAssumption DEF BufferTypeOK
<1>2. Cardinality(InTransit(readers, taken)) \in Nat
  BY FS_CardinalityType
<1>3. CASE readResolvers # <<>> /\ length > 0
  <2> DEFINE r == Head(readResolvers)
             n == Least(length, BufSize)
  <2>1. /\ writer' = "serving" /\ served' = r
        /\ taken' = [taken EXCEPT ![r] = n] /\ length' = length - n
        /\ reader' = [readers EXCEPT ![r] = "reading"]
        /\ readResolvers' = Tail(readResolvers)
    BY <1>3 DEF ServeOrReturn, Take
  <2>2. n \in 0 .. BufSize /\ n \in 0 .. length
    BY <1>1 DEF Least
  <2>3. /\ Len(readResolvers) \in Nat /\ 1 \in 1 .. Len(readResolvers)
        /\ r = readResolvers[1] /\ r \in Readers
    BY <1>1, <1>3
  <2>4. readers[r] = "waiting"
    BY <2>3 DEF WaitersQueuedIn
  <2> HIDE DEF r, n
  <2>5. /\ Tail(readResolvers) \in Seq(Readers)
        /\ Len(Tail(readResolvers)) = Len(readResolvers) - 1
        /\ \A k \in 1 .. Len(Tail(readResolvers)) : Tail(readResolvers)[k] = readResolvers[k + 1]
    BY <1>1, <1>3
  <2>6. reader' \in [Readers -> ReaderStates] /\ taken' \in [Readers -> 0 .. BufSize]
    BY <1>1, <2>1, <2>2, <2>3 DEF ReaderStates
  <2>7. /\ reader'[r] = "reading" /\ taken'[r] = n
        /\ \A s \in Readers \ {r} : reader'[s] = readers[s] /\ taken'[s] = taken[s]
    BY <1>1, <2>1, <2>2, <2>3
  <2>8. WaitersQueuedIn(reader', Tail(readResolvers))
    <3> DEFINE q == Tail(readResolvers)
    <3>1. ASSUME NEW k \in 1 .. Len(q)
          PROVE  k + 1 \in 1 .. Len(readResolvers) /\ q[k] = readResolvers[k + 1] /\ q[k] # r /\ q[k] \in Readers
      BY <1>1, <2>3, <2>5 DEF WaitersQueuedIn
    <3>2. ASSUME NEW k \in 1 .. Len(q)
          PROVE  reader'[q[k]] = "waiting"
      BY <2>7, <3>1 DEF WaitersQueuedIn
    <3>3. ASSUME NEW s \in Readers, reader'[s] = "waiting"
          PROVE  \E k \in 1 .. Len(q) : q[k] = s
      <4>1. s # r /\ readers[s] = "waiting"
        BY <2>7, <3>3
      <4>2. PICK j \in 1 .. Len(readResolvers) : readResolvers[j] = s
        BY <4>1 DEF WaitersQueuedIn
      <4>3. j - 1 \in 1 .. Len(q) /\ q[j - 1] = s
        BY <2>3, <2>5, <4>1, <4>2
      <4> QED
        BY <4>3
    <3>4. ASSUME NEW j \in 1 .. Len(q), NEW k \in 1 .. Len(q), q[j] = q[k]
          PROVE  j = k
      <4>1. j + 1 = k + 1
        BY <3>1, <3>4 DEF WaitersQueuedIn
      <4> QED
        BY <4>1
    <3> QED
      BY <3>2, <3>3, <3>4 DEF WaitersQueuedIn
  <2>9. /\ IsFiniteSet(InTransit(reader', taken'))
        /\ Cardinality(InTransit(reader', taken')) = Cardinality(InTransit(readers, taken)) + n
    <3>1. readers[r] # "reading"
      BY <2>4
    <3>2. taken'[r] \in 0 .. BufSize
      BY <2>2, <2>7
    <3>3. /\ IsFiniteSet(InTransit(reader', taken'))
          /\ Cardinality(InTransit(reader', taken')) = Cardinality(InTransit(readers, taken)) + taken'[r]
      BY <2>3, <2>7, <3>1, <3>2, TransitGrows
    <3> QED
      BY <2>7, <3>3
  <2> QED
    BY <1>1, <1>2, <2>1, <2>2, <2>3, <2>4, <2>5, <2>6, <2>7, <2>8, <2>9
<1>4. CASE ~(readResolvers # <<>> /\ length > 0)
  <2>1. /\ writer' = "idle" /\ served' = NoReader /\ reader' = readers
        /\ length' = length /\ readResolvers' = readResolvers /\ taken' = taken
    BY <1>4 DEF ServeOrReturn
  <2> QED
    BY <1>1, <1>2, <1>4, <2>1
<1> QED
  BY <1>3, <1>4

-----------------------------------------------------------------------------
(* The invariant *)

LEMMA BufferInitEstablishes == BufferInit => BufferIInv
<1> SUFFICES ASSUME BufferInit PROVE BufferIInv
  OBVIOUS
<1>1. BufferTypeOK
  <2>1. closed \in BOOLEAN /\ closedForWriting \in BOOLEAN
    BY DEF BufferInit
  <2>2. reader \in [Readers -> ReaderStates] /\ taken \in [Readers -> 0 .. BufSize]
    BY BufferAssumption DEF BufferInit, ReaderStates
  <2>3. served = NoReader /\ writer = "idle" /\ readResolvers = <<>>
        /\ length = 0 /\ writeSize = 0 /\ totalBytesWritten = 0 /\ totalBytesRead = 0
    BY DEF BufferInit
  <2> QED
    BY <2>1, <2>2, <2>3, BufferAssumption DEF BufferTypeOK, ReaderStates
<1>2. InTransit(reader, taken) = {}
  BY DEF BufferInit, InTransit
<1>3. BytesAccountedFor
  <2>1. IsFiniteSet(InTransit(reader, taken)) /\ Cardinality(InTransit(reader, taken)) = 0
    BY <1>2, FS_EmptySet
  <2>2. Uncounted = 0 /\ length = 0 /\ totalBytesWritten = 0 /\ totalBytesRead = 0
    BY DEF Uncounted, BufferInit
  <2> QED
    BY <2>1, <2>2, BufferAssumption DEF BytesAccountedFor
<1>4. WaitersQueued /\ ClosedIsFinal /\ NoReaderStranded
  BY DEF BufferInit, WaitersQueued, WaitersQueuedIn, ClosedIsFinal, NoReaderStranded
<1> QED
  BY <1>1, <1>3, <1>4 DEF BufferIInv

\* What the invariant says of the state before a step, without definitions to
\* expand.
LEMMA BufferFacts ==
    ASSUME BufferIInv
    PROVE  /\ length \in Nat /\ totalBytesWritten \in Nat /\ totalBytesRead \in Nat
           /\ writeSize \in Nat /\ MaxBytes \in Nat /\ BufSize \in Nat
           /\ reader \in [Readers -> ReaderStates]
           /\ taken \in [Readers -> 0 .. BufSize]
           /\ readResolvers \in Seq(Readers)
           /\ IsFiniteSet(InTransit(reader, taken))
           /\ Cardinality(InTransit(reader, taken)) \in Nat
<1>1. IsFiniteSet(InTransit(reader, taken))
  BY DEF BufferIInv, BytesAccountedFor
<1> QED
  BY <1>1, FS_CardinalityType, BufferAssumption DEF BufferIInv, BufferTypeOK, ReaderStates

\* WriteStarts puts the payload into the buffer before it counts it.
LEMMA WriteStartsPreserves ==
    ASSUME BufferIInv, NEW n \in ChunkSizes, WriteStarts(n)
    PROVE  BufferIInv'
<1>1. n \in Nat
  BY BufferAssumption
<1>2. InTransit(reader', taken') = InTransit(reader, taken)
  BY DEF WriteStarts
<1>3. BytesAccountedFor'
  <2>1. /\ IsFiniteSet(InTransit(reader, taken))
        /\ totalBytesWritten = totalBytesRead + length + Cardinality(InTransit(reader, taken))
    BY BufferFacts DEF BufferIInv, BytesAccountedFor, Uncounted, WriteStarts
  <2>2. /\ totalBytesWritten' = totalBytesWritten /\ totalBytesRead' = totalBytesRead
        /\ length' = length + n /\ Uncounted' = n
        /\ totalBytesWritten + n <= MaxBytes
    BY DEF Uncounted, WriteStarts
  <2>3. totalBytesWritten' + Uncounted'
          = totalBytesRead' + length' + Cardinality(InTransit(reader, taken))
    <3> DEFINE c == Cardinality(InTransit(reader, taken))
    <3>1. totalBytesRead \in Nat /\ length \in Nat /\ c \in Nat
      BY BufferFacts
    <3>2. totalBytesWritten = totalBytesRead + length + c
      BY <2>1
    <3> HIDE DEF c
    <3>3. totalBytesWritten + n = totalBytesRead + (length + n) + c
      BY <1>1, <3>1, <3>2
    <3> QED
      BY <2>2, <3>3, Zenon DEF c
  <2> QED
    BY <1>2, <2>1, <2>2, <2>3 DEF BytesAccountedFor
<1>4. length' \in 0 .. MaxBytes /\ writeSize' \in 0 .. MaxBytes
  <2> DEFINE c == Cardinality(InTransit(reader, taken))
  <2>1. /\ totalBytesWritten = totalBytesRead + length + c
        /\ totalBytesWritten + n <= MaxBytes
    BY BufferFacts DEF BufferIInv, BytesAccountedFor, Uncounted, WriteStarts
  <2>2. /\ totalBytesRead \in Nat /\ length \in Nat /\ c \in Nat
        /\ MaxBytes \in Nat
    BY BufferFacts
  <2> HIDE DEF c
  <2>3. length + n \in 0 .. MaxBytes /\ n \in 0 .. MaxBytes
    BY <1>1, <2>1, <2>2
  <2> QED
    BY <2>3 DEF WriteStarts
<1>5. BufferTypeOK'
  BY <1>4 DEF BufferIInv, BufferTypeOK, WriteStarts
<1>6. WaitersQueued'
  BY DEF BufferIInv, WaitersQueued, WriteStarts
<1>7. ClosedIsFinal' /\ NoReaderStranded'
  BY DEF BufferIInv, ClosedIsFinal, NoReaderStranded, WriteStarts
<1> QED
  BY <1>3, <1>5, <1>6, <1>7 DEF BufferIInv

\* The end of the inner write counts the payload and turns the loop.
LEMMA WriteResumesPreserves ==
    ASSUME BufferIInv, WriteResumes
    PROVE  BufferIInv'
<1> USE DEF WriteResumes
<1>1. /\ BufferTypeOK /\ WaitersQueuedIn(reader, readResolvers)
      /\ ~closedForWriting /\ ~closed /\ \A r \in Readers : reader[r] # "eof"
  BY DEF BufferIInv, WaitersQueued, ClosedIsFinal
<1>2. /\ length \in Nat /\ totalBytesWritten \in Nat /\ totalBytesRead \in Nat
      /\ writeSize \in Nat /\ MaxBytes \in Nat
      /\ reader \in [Readers -> ReaderStates]
      /\ IsFiniteSet(InTransit(reader, taken))
      /\ Cardinality(InTransit(reader, taken)) \in Nat
  BY BufferFacts
<1> DEFINE T == InTransit(reader, taken)
           U == InTransit(reader', taken')
<1>3. /\ reader' \in [Readers -> ReaderStates]
      /\ taken' \in [Readers -> 0 .. BufSize]
      /\ readResolvers' \in Seq(Readers)
      /\ length' \in 0 .. length
      /\ writer' \in {"idle", "serving"}
      /\ served' \in Readers \cup {NoReader}
      /\ served' = NoReader <=> writer' # "serving"
      /\ writer' = "serving" => reader'[served'] = "reading"
      /\ writer' = "idle" => readResolvers' = <<>> \/ length' = 0
      /\ \A r \in Readers : reader'[r] = "eof" => reader[r] = "eof"
      /\ WaitersQueuedIn(reader', readResolvers')
      /\ IsFiniteSet(U)
      /\ Cardinality(U) + length' = Cardinality(T) + length
  BY <1>1, <1>2, ServeOrReturnServes
<1>4. Cardinality(U) \in Nat
  BY <1>3, FS_CardinalityType
<1>5. /\ totalBytesWritten + writeSize = totalBytesRead + length + Cardinality(T)
      /\ totalBytesWritten + writeSize <= MaxBytes
  BY DEF BufferIInv, BytesAccountedFor, Uncounted
<1> HIDE DEF T, U
<1>6. /\ totalBytesWritten' = totalBytesRead' + length' + Cardinality(U)
      /\ totalBytesWritten' \in 0 .. MaxBytes /\ length' \in 0 .. MaxBytes
  <2>1. totalBytesWritten' = totalBytesWritten + writeSize /\ totalBytesRead' = totalBytesRead
    OBVIOUS
  <2>2. length' \in 0 .. length /\ Cardinality(U) + length' = Cardinality(T) + length
    BY <1>3
  <2>3. Cardinality(T) \in Nat
    BY <1>2 DEF T
  <2> HIDE DEF WriteResumes
  <2> QED
    BY <1>2, <1>4, <1>5, <2>1, <2>2, <2>3
<1>7. BytesAccountedFor'
  BY <1>2, <1>3, <1>6 DEF BytesAccountedFor, Uncounted, U
<1>8. BufferTypeOK'
  BY <1>1, <1>3, <1>6 DEF BufferTypeOK, ReaderStates
<1>9. WaitersQueued' /\ ClosedIsFinal' /\ NoReaderStranded'
  BY <1>1, <1>3 DEF WaitersQueued, ClosedIsFinal, NoReaderStranded
<1> QED
  BY <1>7, <1>8, <1>9 DEF BufferIInv

\* The reader that was served is done, its bytes are counted, and the loop turns.
LEMMA ServeResumesPreserves ==
    ASSUME BufferIInv, ServeResumes
    PROVE  BufferIInv'
<1> USE DEF ServeResumes
<1> DEFINE done == [reader EXCEPT ![served] = "done"]
           T == InTransit(reader, taken)
           D == InTransit(done, taken)
           U == InTransit(reader', taken')
<1>1. /\ BufferTypeOK /\ WaitersQueuedIn(reader, readResolvers)
      /\ ~closedForWriting /\ ~closed /\ \A r \in Readers : reader[r] # "eof"
      /\ served \in Readers /\ reader[served] = "reading"
  BY DEF BufferIInv, BufferTypeOK, WaitersQueued, ClosedIsFinal
<1>2. /\ length \in Nat /\ totalBytesWritten \in Nat /\ totalBytesRead \in Nat
      /\ MaxBytes \in Nat
      /\ reader \in [Readers -> ReaderStates]
      /\ taken[served] \in 0 .. BufSize /\ taken[served] \in Nat
      /\ IsFiniteSet(T) /\ Cardinality(T) \in Nat
  BY <1>1, BufferFacts
<1>3. done \in [Readers -> ReaderStates] /\ done[served] = "done"
      /\ \A s \in Readers \ {served} : done[s] = reader[s]
  BY <1>1, <1>2 DEF ReaderStates
<1> HIDE DEF done
<1>4. IsFiniteSet(D) /\ Cardinality(T) = Cardinality(D) + taken[served]
  <2>1. done[served] # "reading"
    BY <1>3
  <2> QED
    BY <1>1, <1>2, <1>3, <2>1, TransitShrinks
<1>5. WaitersQueuedIn(done, readResolvers)
  <2>1. \A k \in 1 .. Len(readResolvers) : readResolvers[k] \in Readers
    BY <1>1 DEF BufferTypeOK
  <2> QED
    BY <1>1, <1>3, <2>1 DEF WaitersQueuedIn
<1>6. /\ reader' \in [Readers -> ReaderStates]
      /\ taken' \in [Readers -> 0 .. BufSize]
      /\ readResolvers' \in Seq(Readers)
      /\ length' \in 0 .. length
      /\ writer' \in {"idle", "serving"}
      /\ served' \in Readers \cup {NoReader}
      /\ served' = NoReader <=> writer' # "serving"
      /\ writer' = "serving" => reader'[served'] = "reading"
      /\ writer' = "idle" => readResolvers' = <<>> \/ length' = 0
      /\ \A r \in Readers : reader'[r] = "eof" => done[r] = "eof"
      /\ WaitersQueuedIn(reader', readResolvers')
      /\ IsFiniteSet(U)
      /\ Cardinality(U) + length' = Cardinality(D) + length
  <2>1. ServeOrReturn(done)
    BY DEF done
  <2> QED
    BY <1>1, <1>3, <1>4, <1>5, <2>1, ServeOrReturnServes
<1>7. Cardinality(U) \in Nat /\ Cardinality(D) \in Nat
  BY <1>4, <1>6, FS_CardinalityType
<1>8. /\ totalBytesWritten = totalBytesRead + length + Cardinality(T)
      /\ totalBytesWritten <= MaxBytes
  BY <1>2 DEF BufferIInv, BytesAccountedFor, Uncounted
<1> HIDE DEF T, D, U
<1>9. /\ totalBytesWritten' = totalBytesRead' + length' + Cardinality(U)
      /\ totalBytesWritten' \in 0 .. MaxBytes /\ length' \in 0 .. MaxBytes
      /\ totalBytesRead' \in 0 .. MaxBytes
  <2>1. totalBytesWritten' = totalBytesWritten /\ totalBytesRead' = totalBytesRead + taken[served]
    OBVIOUS
  <2>2. length' \in 0 .. length /\ Cardinality(U) + length' = Cardinality(D) + length
    BY <1>6
  <2> HIDE DEF ServeResumes
  <2> QED
    BY <1>2, <1>4, <1>7, <1>8, <2>1, <2>2
<1>10. BytesAccountedFor'
  BY <1>6, <1>8, <1>9 DEF BytesAccountedFor, Uncounted, U
<1>11. BufferTypeOK'
  BY <1>1, <1>6, <1>9 DEF BufferTypeOK, ReaderStates
<1>12. WaitersQueued' /\ ClosedIsFinal' /\ NoReaderStranded'
  BY <1>1, <1>3, <1>6 DEF WaitersQueued, ClosedIsFinal, NoReaderStranded
<1> QED
  BY <1>10, <1>11, <1>12 DEF BufferIInv

\* A read that ends at once takes nothing: the buffer is closed, or empty and
\* drained.
LEMMA ReadEofPreserves ==
    ASSUME BufferIInv, NEW r \in Readers, ReadClosed(r) \/ ReadDrained(r)
    PROVE  BufferIInv'
<1>1. /\ reader[r] = "new" /\ reader' = [reader EXCEPT ![r] = "eof"]
      /\ closed' \in BOOLEAN
      /\ closedForWriting /\ length = 0
      /\ UNCHANGED <<length, readResolvers, closedForWriting, totalBytesWritten,
                     totalBytesRead, writer, writeSize, served, taken>>
  BY DEF ReadClosed, ReadDrained, BufferIInv, ClosedIsFinal, BufferTypeOK
<1>2. reader \in [Readers -> ReaderStates] /\ readResolvers \in Seq(Readers)
  BY BufferFacts
<1>3. /\ reader' \in [Readers -> ReaderStates]
      /\ \A s \in Readers : reader'[s] = IF s = r THEN "eof" ELSE reader[s]
  BY <1>1, <1>2 DEF ReaderStates
<1>4. InTransit(reader', taken) = InTransit(reader, taken)
  BY <1>1, <1>3, TransitSame
<1>5. BytesAccountedFor'
  BY <1>1, <1>4 DEF BufferIInv, BytesAccountedFor, Uncounted
<1>6. BufferTypeOK'
  <2>1. closedForWriting' \in BOOLEAN
    BY <1>1 DEF BufferIInv, BufferTypeOK
  <2>2. closed' \in BOOLEAN
    BY <1>1
  <2>3. BufferTypeOK
    BY DEF BufferIInv
  <2> QED
    BY <1>1, <1>3, <2>1, <2>2, <2>3 DEF BufferTypeOK, ReaderStates
<1>7. WaitersQueued'
  BY <1>1, <1>2, <1>3 DEF BufferIInv, WaitersQueued, WaitersQueuedIn
<1>8. ClosedIsFinal' /\ NoReaderStranded'
  BY <1>1, <1>3 DEF BufferIInv, BufferTypeOK, ClosedIsFinal, NoReaderStranded
<1> QED
  BY <1>5, <1>6, <1>7, <1>8 DEF BufferIInv

\* read() takes bytes before anyone counts them.
LEMMA ReadBytesPreserves ==
    ASSUME BufferIInv, NEW r \in Readers, ReadBytes(r)
    PROVE  BufferIInv'
<1> DEFINE n == Least(length, BufSize)
           T == InTransit(reader, taken)
           U == InTransit(reader', taken')
<1>1. /\ reader[r] = "new" /\ ~closed /\ length > 0
      /\ reader' = [reader EXCEPT ![r] = "reading"]
      /\ taken' = [taken EXCEPT ![r] = n] /\ length' = length - n
      /\ UNCHANGED <<readResolvers, closed, closedForWriting, totalBytesWritten,
                     totalBytesRead, writer, writeSize, served>>
  BY DEF ReadBytes, Take
<1>2. /\ length \in Nat /\ totalBytesWritten \in Nat /\ totalBytesRead \in Nat
      /\ MaxBytes \in Nat /\ BufSize \in Nat
      /\ reader \in [Readers -> ReaderStates] /\ taken \in [Readers -> 0 .. BufSize]
      /\ readResolvers \in Seq(Readers)
      /\ IsFiniteSet(T) /\ Cardinality(T) \in Nat
  BY BufferFacts
<1>3. n \in 0 .. BufSize /\ n \in 0 .. length
  BY <1>2 DEF Least
<1> HIDE DEF n
<1>4. /\ reader' \in [Readers -> ReaderStates] /\ taken' \in [Readers -> 0 .. BufSize]
      /\ reader'[r] = "reading" /\ taken'[r] = n
      /\ \A s \in Readers \ {r} : reader'[s] = reader[s] /\ taken'[s] = taken[s]
  BY <1>1, <1>2, <1>3 DEF ReaderStates
<1>5. IsFiniteSet(U) /\ Cardinality(U) = Cardinality(T) + n
  <2>1. reader[r] # "reading" /\ taken'[r] \in 0 .. BufSize
    BY <1>1, <1>3, <1>4
  <2>2. IsFiniteSet(InTransit(reader, taken))
    BY <1>2
  <2>3. IsFiniteSet(U) /\ Cardinality(U) = Cardinality(T) + taken'[r]
    BY <1>4, <2>1, <2>2, TransitGrows
  <2> QED
    BY <1>4, <2>3
<1> HIDE DEF T, U
<1>6. totalBytesWritten + Uncounted = totalBytesRead + length + Cardinality(T)
      /\ totalBytesWritten + Uncounted <= MaxBytes
  BY DEF BufferIInv, BytesAccountedFor, T
<1>7. Uncounted' = Uncounted
  BY <1>1 DEF Uncounted
<1>8. BytesAccountedFor'
  <2>1. totalBytesRead + length + Cardinality(T) = totalBytesRead + length' + Cardinality(U)
    BY <1>1, <1>2, <1>3, <1>5
  <2> QED
    BY <1>1, <1>5, <1>6, <1>7, <2>1 DEF BytesAccountedFor, U
<1>9. length' \in 0 .. MaxBytes
  BY <1>1, <1>2, <1>3 DEF BufferIInv, BufferTypeOK
<1>10. BufferTypeOK'
  BY <1>1, <1>4, <1>9 DEF BufferIInv, BufferTypeOK, ReaderStates
<1>11. WaitersQueued'
  BY <1>1, <1>2, <1>4 DEF BufferIInv, WaitersQueued, WaitersQueuedIn
<1>12. ClosedIsFinal'
  BY <1>1, <1>2, <1>3, <1>4 DEF BufferIInv, BufferTypeOK, ClosedIsFinal
<1>13. NoReaderStranded'
  BY <1>1 DEF BufferIInv, NoReaderStranded
<1> QED
  BY <1>8, <1>10, <1>11, <1>12, <1>13 DEF BufferIInv

\* The end of read()'s own await counts its bytes.
LEMMA ReadResumesPreserves ==
    ASSUME BufferIInv, NEW r \in Readers, ReadResumes(r)
    PROVE  BufferIInv'
<1> DEFINE T == InTransit(reader, taken)
           U == InTransit(reader', taken)
<1>1. /\ reader[r] = "reading" /\ served # r
      /\ totalBytesRead' = totalBytesRead + taken[r]
      /\ reader' = [reader EXCEPT ![r] = "done"]
      /\ UNCHANGED <<length, readResolvers, closed, closedForWriting, totalBytesWritten,
                     writer, writeSize, served, taken>>
  BY DEF ReadResumes
<1>2. /\ length \in Nat /\ totalBytesWritten \in Nat /\ totalBytesRead \in Nat
      /\ MaxBytes \in Nat
      /\ reader \in [Readers -> ReaderStates] /\ readResolvers \in Seq(Readers)
      /\ taken[r] \in 0 .. BufSize /\ taken[r] \in Nat
      /\ IsFiniteSet(T) /\ Cardinality(T) \in Nat
  BY BufferFacts
<1>3. /\ reader' \in [Readers -> ReaderStates] /\ reader'[r] = "done"
      /\ \A s \in Readers \ {r} : reader'[s] = reader[s]
  BY <1>1, <1>2 DEF ReaderStates
<1>4. IsFiniteSet(U) /\ Cardinality(T) = Cardinality(U) + taken[r]
  <2>1. reader[r] = "reading" /\ reader'[r] # "reading" /\ taken[r] \in 0 .. BufSize
    BY <1>1, <1>2, <1>3
  <2>2. IsFiniteSet(InTransit(reader, taken))
    BY <1>2
  <2> QED
    BY <1>3, <2>1, <2>2, TransitShrinks
<1>5. Cardinality(U) \in Nat
  BY <1>4, FS_CardinalityType
<1> HIDE DEF T, U
<1>6. totalBytesWritten + Uncounted = totalBytesRead + length + Cardinality(T)
      /\ totalBytesWritten + Uncounted <= MaxBytes
  BY DEF BufferIInv, BytesAccountedFor, T
<1>7. Uncounted' = Uncounted
  BY <1>1 DEF Uncounted
<1>8. totalBytesRead + length + Cardinality(T) = totalBytesRead' + length + Cardinality(U)
  <2>1. totalBytesRead' = totalBytesRead + taken[r]
    BY <1>1
  <2>2. totalBytesRead \in Nat /\ length \in Nat /\ taken[r] \in Nat
    BY <1>2
  <2>3. Cardinality(T) = Cardinality(U) + taken[r]
    BY <1>4
  <2> QED
    BY <1>5, <2>1, <2>2, <2>3
<1>9. BytesAccountedFor'
  BY <1>1, <1>4, <1>6, <1>7, <1>8 DEF BytesAccountedFor, U
<1>10. totalBytesRead' \in 0 .. MaxBytes
  <2>1. totalBytesRead' \in Nat
    BY <1>1, <1>2
  <2>2. totalBytesRead' + length + Cardinality(U) <= MaxBytes
    BY <1>6, <1>8
  <2> QED
    BY <1>2, <1>5, <2>1, <2>2
<1>11. BufferTypeOK'
  BY <1>1, <1>3, <1>10 DEF BufferIInv, BufferTypeOK, ReaderStates
<1>12. WaitersQueued'
  BY <1>1, <1>2, <1>3 DEF BufferIInv, WaitersQueued, WaitersQueuedIn
<1>13. ClosedIsFinal' /\ NoReaderStranded'
  BY <1>1, <1>3 DEF BufferIInv, BufferTypeOK, ClosedIsFinal, NoReaderStranded
<1> QED
  BY <1>9, <1>11, <1>12, <1>13 DEF BufferIInv

\* A read that finds nothing joins the end of the queue.
LEMMA ReadWaitsPreserves ==
    ASSUME BufferIInv, NEW r \in Readers, ReadWaits(r)
    PROVE  BufferIInv'
<1>1. /\ reader[r] = "new" /\ ~closed /\ length = 0 /\ ~closedForWriting
      /\ reader' = [reader EXCEPT ![r] = "waiting"]
      /\ readResolvers' = Append(readResolvers, r)
      /\ UNCHANGED <<length, closed, closedForWriting, totalBytesWritten,
                     totalBytesRead, writer, writeSize, served, taken>>
  BY DEF ReadWaits
<1>2. reader \in [Readers -> ReaderStates] /\ readResolvers \in Seq(Readers)
  BY BufferFacts
<1>3. /\ reader' \in [Readers -> ReaderStates]
      /\ \A s \in Readers : reader'[s] = IF s = r THEN "waiting" ELSE reader[s]
  BY <1>1, <1>2 DEF ReaderStates
<1>4. InTransit(reader', taken) = InTransit(reader, taken)
  BY <1>1, <1>3, TransitSame
<1>5. BytesAccountedFor'
  BY <1>1, <1>4 DEF BufferIInv, BytesAccountedFor, Uncounted
<1>6. /\ readResolvers' \in Seq(Readers)
      /\ Len(readResolvers) \in Nat /\ Len(readResolvers') = Len(readResolvers) + 1
      /\ readResolvers'[Len(readResolvers) + 1] = r
      /\ \A k \in 1 .. Len(readResolvers) : readResolvers'[k] = readResolvers[k]
  BY <1>1, <1>2
<1>7. BufferTypeOK'
  BY <1>1, <1>3, <1>6 DEF BufferIInv, BufferTypeOK, ReaderStates
<1>8. WaitersQueued'
  <2> DEFINE L == Len(readResolvers)
  <2>1. WaitersQueuedIn(reader, readResolvers)
    BY DEF BufferIInv, WaitersQueued
  <2>2. \A k \in 1 .. L : readResolvers[k] # r /\ readResolvers[k] \in Readers
    BY <1>1, <1>2, <2>1 DEF WaitersQueuedIn
  <2> HIDE DEF L
  <2>3. ASSUME NEW k \in 1 .. L + 1
        PROVE  reader'[readResolvers'[k]] = "waiting"
    BY <1>3, <1>6, <2>1, <2>2 DEF WaitersQueuedIn, L
  <2>4. ASSUME NEW s \in Readers, reader'[s] = "waiting"
        PROVE  \E k \in 1 .. L + 1 : readResolvers'[k] = s
    <3>1. CASE s = r
      BY <1>6, <3>1 DEF L
    <3>2. CASE s # r
      <4>1. PICK k \in 1 .. L : readResolvers[k] = s
        BY <1>3, <2>1, <2>4, <3>2 DEF WaitersQueuedIn, L
      <4> QED
        BY <1>6, <4>1 DEF L
    <3> QED
      BY <3>1, <3>2
  <2>5. ASSUME NEW j \in 1 .. L + 1, NEW k \in 1 .. L + 1, readResolvers'[j] = readResolvers'[k]
        PROVE  j = k
    BY <1>6, <2>1, <2>2, <2>5 DEF WaitersQueuedIn, L
  <2> QED
    BY <1>6, <2>3, <2>4, <2>5 DEF WaitersQueued, WaitersQueuedIn, L
<1>9. ClosedIsFinal' /\ NoReaderStranded'
  BY <1>1, <1>3 DEF BufferIInv, BufferTypeOK, ClosedIsFinal, NoReaderStranded
<1> QED
  BY <1>5, <1>7, <1>8, <1>9 DEF BufferIInv

\* drain() of an empty buffer ends every waiting read; otherwise nobody waits.
LEMMA DrainPreserves ==
    ASSUME BufferIInv, Drain
    PROVE  BufferIInv'
<1>1. /\ writer = "idle" /\ ~closed /\ ~closedForWriting
      /\ closedForWriting' = TRUE /\ closed' = (length = 0)
      /\ UNCHANGED <<length, totalBytesWritten, totalBytesRead, writer, writeSize, served, taken>>
  BY DEF Drain
<1>2. reader \in [Readers -> ReaderStates] /\ readResolvers \in Seq(Readers)
  BY BufferFacts
<1>3. \A r \in Readers : reader[r] # "eof"
  BY <1>1 DEF BufferIInv, ClosedIsFinal
<1>4. WaitersQueuedIn(reader, readResolvers)
  BY DEF BufferIInv, WaitersQueued
<1>5. /\ readResolvers' = <<>>
      /\ reader' \in [Readers -> ReaderStates]
      /\ \A r \in Readers : \/ reader'[r] = reader[r] /\ reader[r] # "waiting"
                            \/ reader'[r] = "eof" /\ reader[r] = "waiting" /\ length = 0
  <2>1. CASE length = 0
    <3>1. /\ reader' = [r \in Readers |-> IF reader[r] = "waiting" THEN "eof" ELSE reader[r]]
          /\ readResolvers' = <<>>
      BY <2>1 DEF Drain, ResolveWaiting
    <3> QED
      BY <1>2, <2>1, <3>1 DEF ReaderStates
  <2>2. CASE length # 0
    <3>1. reader' = reader /\ readResolvers' = readResolvers
      BY <2>2 DEF Drain
    <3>2. readResolvers = <<>>
      BY <1>1, <2>2 DEF BufferIInv, NoReaderStranded
    <3>3. ~ \E k \in 1 .. Len(readResolvers) : TRUE
      BY <3>2
    <3>4. \A r \in Readers : reader[r] # "waiting"
      BY <1>4, <3>3 DEF WaitersQueuedIn
    <3> QED
      BY <1>2, <3>1, <3>2, <3>4
  <2> QED
    BY <2>1, <2>2
<1>6. InTransit(reader', taken) = InTransit(reader, taken)
  BY <1>5, TransitSame
<1>7. BytesAccountedFor'
  BY <1>1, <1>6 DEF BufferIInv, BytesAccountedFor, Uncounted
<1>8. BufferTypeOK'
  <2>1. closed' \in BOOLEAN /\ closedForWriting' \in BOOLEAN
    BY <1>1
  <2>2. BufferTypeOK
    BY DEF BufferIInv
  <2>3. readResolvers' \in Seq(Readers)
    BY <1>5
  <2>4. /\ length' = length /\ totalBytesWritten' = totalBytesWritten
        /\ totalBytesRead' = totalBytesRead /\ writer' = writer /\ writeSize' = writeSize
        /\ served' = served /\ taken' = taken
    BY <1>1
  <2> QED
    BY <1>5, <2>1, <2>2, <2>3, <2>4 DEF BufferTypeOK, ReaderStates
<1>9. WaitersQueued'
  BY <1>5 DEF WaitersQueued, WaitersQueuedIn
<1>10. ClosedIsFinal'
  BY <1>1, <1>3, <1>5 DEF ClosedIsFinal
<1>11. NoReaderStranded'
  BY <1>5 DEF NoReaderStranded
<1> QED
  BY <1>7, <1>8, <1>9, <1>10, <1>11 DEF BufferIInv

\* Every step keeps the invariant.
LEMMA BufferNextPreserves == BufferIInv /\ [BufferNext]_bufVars => BufferIInv'
<1> SUFFICES ASSUME BufferIInv, [BufferNext]_bufVars PROVE BufferIInv'
  OBVIOUS
<1>1. CASE \E n \in ChunkSizes : WriteStarts(n)
  BY <1>1, WriteStartsPreserves
<1>2. CASE WriteResumes
  BY <1>2, WriteResumesPreserves
<1>3. CASE ServeResumes
  BY <1>3, ServeResumesPreserves
<1>4. CASE \E r \in Readers : ReadClosed(r) \/ ReadDrained(r)
  BY <1>4, ReadEofPreserves
<1>5. CASE \E r \in Readers : ReadBytes(r)
  BY <1>5, ReadBytesPreserves
<1>6. CASE \E r \in Readers : ReadResumes(r)
  BY <1>6, ReadResumesPreserves
<1>7. CASE \E r \in Readers : ReadWaits(r)
  BY <1>7, ReadWaitsPreserves
<1>8. CASE Drain
  BY <1>8, DrainPreserves
<1>9. CASE UNCHANGED bufVars
  BY <1>9 DEF bufVars, BufferIInv, BufferTypeOK, BytesAccountedFor, Uncounted, InTransit,
              WaitersQueued, WaitersQueuedIn, ClosedIsFinal, NoReaderStranded
<1> QED
  BY <1>1, <1>2, <1>3, <1>4, <1>5, <1>6, <1>7, <1>8, <1>9 DEF BufferNext

-----------------------------------------------------------------------------
(* The theorems *)

\* Whatever reads, writes and drain() do in each other's awaits, the state of
\* the buffer is well formed, readResolvers holds the waiting readers, and
\* every byte written is in the buffer, counted as read, or on its way.
THEOREM BufferInvariance == BufferSpec => []BufferIInv
BY BufferInitEstablishes, BufferNextPreserves, PTL DEF BufferSpec

\* The variables of the buffer keep their types.
THEOREM BufferTypeCorrect == BufferSpec => []BufferTypeOK
<1>1. BufferIInv => BufferTypeOK
  BY DEF BufferIInv
<1> QED
  BY <1>1, BufferInvariance, PTL

\* When no write() is in progress, a reader waits only for an empty buffer that
\* is not drained: neither write()'s loop nor drain() leaves one behind.
THEOREM ReadersAreServed == BufferSpec => []NoReaderStranded
<1>1. BufferIInv => NoReaderStranded
  BY DEF BufferIInv
<1> QED
  BY <1>1, BufferInvariance, PTL

\* read() returns null only after the last byte has been given out.
THEOREM EofIsTheEnd == BufferSpec => []EofOnlyAtEnd
<1>1. BufferIInv => EofOnlyAtEnd
  BY DEF BufferIInv, ClosedIsFinal, EofOnlyAtEnd
<1> QED
  BY <1>1, BufferInvariance, PTL

\* totalBytesWritten and totalBytesRead agree about what the buffer holds
\* whenever no call is in progress: no byte is counted twice or never.
THEOREM TotalsAgree == BufferSpec => []TotalsSettle
<1>1. ASSUME BufferIInv, writer = "idle", \A r \in Readers : reader[r] # "reading"
      PROVE  totalBytesWritten = totalBytesRead + length
  <2>1. InTransit(reader, taken) = {}
    BY <1>1 DEF InTransit
  <2>2. Cardinality(InTransit(reader, taken)) = 0
    BY <2>1, FS_EmptySet
  <2>3. totalBytesWritten + 0 = totalBytesRead + length + 0
    BY <1>1, <2>2 DEF BufferIInv, BytesAccountedFor, Uncounted
  <2> QED
    BY <1>1, <2>3, BufferFacts
<1>2. BufferIInv => TotalsSettle
  BY <1>1 DEF TotalsSettle
<1> QED
  BY <1>2, BufferInvariance, PTL
=============================================================================
