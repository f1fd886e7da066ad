---------------------------- MODULE BlockingBuffer ----------------------------
(***************************************************************************)
(* blocking_buffer.ts: the receive buffer between the connection, which    *)
(* writes payloads and in the end calls drain(), and the application,      *)
(* whose reads wait while the buffer is empty.  write() and read() both    *)
(* await the inner Buffer after it has changed, and the other one may run  *)
(* in between; those gaps are states here.                                 *)
(*                                                                         *)
(* The receive loop finishes one write() before it starts the next or      *)
(* calls drain().  The inner Buffer is the library's (std/io): it is       *)
(* modelled by how many bytes it holds.                                    *)
(***************************************************************************)
EXTENDS Naturals, Sequences

CONSTANTS
    Readers,     \* the reads the application makes, possibly at the same time
    BufSize,     \* bytes a read asks for
    ChunkSizes,  \* payload sizes
    MaxBytes,    \* bound: bytes written in one behaviour
    NoReader

ASSUME BufferAssumption ==
    /\ BufSize \in Nat \ {0}
    /\ ChunkSizes \subseteq Nat \ {0}
    /\ MaxBytes \in Nat
    /\ NoReader \notin Readers

VARIABLES
    length,            \* bytes in the inner buffer
    readResolvers,     \* readers that wait, in order
    closed,
    closedForWriting,
    totalBytesWritten,
    totalBytesRead,
    writer,            \* write(): "idle", "written" (awaits the inner write),
                       \* "serving" (awaits the inner read for a waiting reader)
    writeSize,         \* bytes of the write in progress
    served,            \* the reader being served, or NoReader
    reader,            \* read() by reader: "new", "waiting", "reading" (awaits the
                       \* inner read), "done", "eof"
    taken              \* bytes the inner buffer gave to each reader

bufVars == <<length, readResolvers, closed, closedForWriting, totalBytesWritten,
             totalBytesRead, writer, writeSize, served, reader, taken>>

Least(a, b) == IF a < b THEN a ELSE b

BufferTypeOK ==
    /\ length \in 0 .. MaxBytes
    /\ readResolvers \in Seq(Readers)
    /\ closed \in BOOLEAN /\ closedForWriting \in BOOLEAN
    /\ totalBytesWritten \in 0 .. MaxBytes
    /\ totalBytesRead \in 0 .. MaxBytes
    /\ writer \in {"idle", "written", "serving"}
    /\ writeSize \in 0 .. MaxBytes
    /\ served \in Readers \cup {NoReader}
    /\ served = NoReader <=> writer # "serving"
    /\ reader \in [Readers -> {"new", "waiting", "reading", "done", "eof"}]
    /\ taken \in [Readers -> 0 .. BufSize]

BufferInit ==
    /\ length = 0
    /\ readResolvers = <<>>
    /\ closed = FALSE /\ closedForWriting = FALSE
    /\ totalBytesWritten = 0 /\ totalBytesRead = 0
    /\ writer = "idle" /\ writeSize = 0 /\ served = NoReader
    /\ reader = [r \in Readers |-> "new"]
    /\ taken = [r \in Readers |-> 0]

\* The inner buffer gives reader r what it has, up to BufSize bytes.
Take(r) ==
    /\ taken' = [taken EXCEPT ![r] = Least(length, BufSize)]
    /\ length' = length - Least(length, BufSize)

-----------------------------------------------------------------------------
(* write() *)

\* The connection writes only while it is CONNECTED, before drain().
WriteStarts(n) ==
    /\ writer = "idle"
    /\ ~closedForWriting /\ ~closed
    /\ totalBytesWritten + n <= MaxBytes
    /\ length' = length + n
    /\ writeSize' = n
    /\ writer' = "written"
    /\ UNCHANGED <<readResolvers, closed, closedForWriting, totalBytesWritten,
                   totalBytesRead, served, reader, taken>>

\* One turn of write()'s loop over readResolvers: the first waiting reader is
\* served if there are bytes left, else write() returns.  readers are the
\* readers as the turn finds them.
ServeOrReturn(readers) ==
    IF readResolvers # <<>> /\ length > 0
    THEN LET r == Head(readResolvers)
         IN  /\ writer' = "serving"
             /\ served' = r
             /\ Take(r)
             /\ reader' = [readers EXCEPT ![r] = "reading"]
             /\ readResolvers' = Tail(readResolvers)
    ELSE /\ writer' = "idle"
         /\ served' = NoReader
         /\ reader' = readers
         /\ UNCHANGED <<length, readResolvers, taken>>

WriteResumes ==
    /\ writer = "written"
    /\ totalBytesWritten' = totalBytesWritten + writeSize
    /\ ServeOrReturn(reader)
    /\ UNCHANGED <<closed, closedForWriting, totalBytesRead, writeSize>>

\* The loop of write() runs once (`if` for `while`).
ServeResumesOnce ==
    /\ writer = "serving"
    /\ totalBytesRead' = totalBytesRead + taken[served]
    /\ reader' = [reader EXCEPT ![served] = "done"]
    /\ writer' = "idle" /\ served' = NoReader
    /\ UNCHANGED <<closed, closedForWriting, totalBytesWritten, writeSize, length, readResolvers, taken>>

\* Bytes handed to a waiting reader are not counted as read.
ServeResumesUncounted ==
    /\ writer = "serving"
    /\ ServeOrReturn([reader EXCEPT ![served] = "done"])
    /\ UNCHANGED <<closed, closedForWriting, totalBytesWritten, totalBytesRead, writeSize>>

\* The loop's await ends: the reader is resolved, and the loop turns again.
ServeResumes ==
    /\ writer = "serving"
    /\ totalBytesRead' = totalBytesRead + taken[served]
    /\ ServeOrReturn([reader EXCEPT ![served] = "done"])
    /\ UNCHANGED <<closed, closedForWriting, totalBytesWritten, writeSize>>

-----------------------------------------------------------------------------
(* read() *)

\* A read on a closed buffer returns null at once.
ReadClosed(r) ==
    /\ reader[r] = "new"
    /\ closed
    /\ reader' = [reader EXCEPT ![r] = "eof"]
    /\ UNCHANGED <<length, readResolvers, closed, closedForWriting, totalBytesWritten,
                   totalBytesRead, writer, writeSize, served, taken>>

ReadBytes(r) ==
    /\ reader[r] = "new"
    /\ ~closed /\ length > 0
    /\ Take(r)
    /\ reader' = [reader EXCEPT ![r] = "reading"]
    /\ UNCHANGED <<readResolvers, closed, closedForWriting, totalBytesWritten,
                   totalBytesRead, writer, writeSize, served>>

\* read()'s own await ends.
ReadResumes(r) ==
    /\ reader[r] = "reading" /\ served # r
    /\ totalBytesRead' = totalBytesRead + taken[r]
    /\ reader' = [reader EXCEPT ![r] = "done"]
    /\ UNCHANGED <<length, readResolvers, closed, closedForWriting, totalBytesWritten,
                   writer, writeSize, served, taken>>

\* An empty buffer is taken for the end of the stream.
ReadEmptyIsEof(r) ==
    /\ reader[r] = "new"
    /\ ~closed /\ length = 0
    /\ reader' = [reader EXCEPT ![r] = "eof"]
    /\ UNCHANGED <<length, readResolvers, closed, closedForWriting, totalBytesWritten,
                   totalBytesRead, writer, writeSize, served, taken>>

\* The buffer is empty and stays so: end of the stream.
ReadDrained(r) ==
    /\ reader[r] = "new"
    /\ ~closed /\ length = 0 /\ closedForWriting
    /\ closed' = TRUE
    /\ reader' = [reader EXCEPT ![r] = "eof"]
    /\ UNCHANGED <<length, readResolvers, closedForWriting, totalBytesWritten,
                   totalBytesRead, writer, writeSize, served, taken>>

ReadWaits(r) ==
    /\ reader[r] = "new"
    /\ ~closed /\ length = 0 /\ ~closedForWriting
    /\ reader' = [reader EXCEPT ![r] = "waiting"]
    /\ readResolvers' = Append(readResolvers, r)
    /\ UNCHANGED <<length, closed, closedForWriting, totalBytesWritten,
                   totalBytesRead, writer, writeSize, served, taken>>

-----------------------------------------------------------------------------
(* drain() *)

\* A waiting reader is not resolved when the buffer is drained.
ResolveNobody == UNCHANGED <<readResolvers, reader>>

\* All waiting readers get null.
ResolveWaiting ==
    /\ reader' = [r \in Readers |-> IF reader[r] = "waiting" THEN "eof" ELSE reader[r]]
    /\ readResolvers' = <<>>

Drain ==
    /\ writer = "idle"
    /\ ~closed /\ ~closedForWriting
    /\ closedForWriting' = TRUE
    /\ closed' = (length = 0)
    /\ IF length = 0 THEN ResolveWaiting ELSE UNCHANGED <<readResolvers, reader>>
    /\ UNCHANGED <<length, totalBytesWritten, totalBytesRead, writer, writeSize, served, taken>>

BufferNext ==
    \/ \E n \in ChunkSizes : WriteStarts(n)
    \/ WriteResumes
    \/ ServeResumes
    \/ \E r \in Readers : ReadClosed(r)
    \/ \E r \in Readers : ReadBytes(r)
    \/ \E r \in Readers : ReadResumes(r)
    \/ \E r \in Readers : ReadDrained(r)
    \/ \E r \in Readers : ReadWaits(r)
    \/ Drain

\* Awaits of the inner buffer end.
BufferSpec ==
    /\ BufferInit
    /\ [][BufferNext]_bufVars
    /\ WF_bufVars(WriteResumes) /\ WF_bufVars(ServeResumes)
    /\ \A r \in Readers : WF_bufVars(ReadResumes(r))

-----------------------------------------------------------------------------
(* Properties *)

\* No reader is stranded: when no write is in progress, a reader waits only if
\* there is nothing to read and drain() has not been called.
NoReaderStranded ==
    writer = "idle" /\ readResolvers # <<>> => length = 0 /\ ~closedForWriting

\* No read reports the end while bytes are left or still to be given out.
EofOnlyAtEnd ==
    (\E r \in Readers : reader[r] = "eof") => length = 0 /\ closedForWriting /\ writer = "idle"

\* Once no call is in progress the two totals differ by what the buffer holds.
TotalsSettle ==
    writer = "idle" /\ (\A r \in Readers : reader[r] # "reading")
        => totalBytesWritten = totalBytesRead + length

\* Once the stream is drained, every read that waits or comes later ends.
ReadsEndAfterDrain ==
    \A r \in Readers : (closedForWriting /\ reader[r] \in {"waiting", "reading"})
                           ~> reader[r] \in {"done", "eof"}
=============================================================================
