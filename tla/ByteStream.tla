------------------------------ MODULE ByteStream ------------------------------
(***************************************************************************)
(* What one direction of a connection promises its two applications: the   *)
(* reader gets chunks that the writer wrote, each once, in order and       *)
(* without a gap, and meets the end of the stream after the last of them.  *)
(* A chunk is its position in the stream.                                  *)
(*                                                                         *)
(* The promise has two grades.  A reader that does not know where the      *)
(* stream starts may begin with any chunk; and where MayCutShort is TRUE   *)
(* the end may be reported too early.                                      *)
(***************************************************************************)
EXTENDS Naturals, Sequences

CONSTANT MayCutShort  \* the end may be reported before all chunks are delivered

VARIABLES
    knowsStart,    \* the reader knows where the stream starts
    writtenCount,  \* chunks written so far
    delivered,     \* chunks handed to the reader's buffer
    ended,         \* the writer has closed its side
    eof            \* the reader is told that nothing follows

streamVars == <<knowsStart, writtenCount, delivered, ended, eof>>

StreamInit ==
    /\ knowsStart \in BOOLEAN
    /\ writtenCount = 0
    /\ delivered = <<>>
    /\ ended = FALSE
    /\ eof = FALSE

\* The chunks that may be the first to be delivered.
Starts ==
    IF delivered # <<>> THEN {delivered[1]}
    ELSE IF knowsStart THEN {1} ELSE 1 .. writtenCount

Stretch(first, last) == [i \in 1 .. last - first + 1 |-> first + i - 1]

StreamWrite ==
    /\ ~ended
    /\ writtenCount' = writtenCount + 1
    /\ UNCHANGED <<knowsStart, delivered, ended, eof>>

\* Some of the chunks that come next are delivered.
StreamDeliver ==
    /\ ~eof
    /\ \E first \in Starts :
       \E last \in first + Len(delivered) .. writtenCount : delivered' = Stretch(first, last)
    /\ UNCHANGED <<knowsStart, writtenCount, ended, eof>>

StreamEnd ==
    /\ ~ended
    /\ ended' = TRUE
    /\ UNCHANGED <<knowsStart, writtenCount, delivered, eof>>

\* The end is reported, possibly together with the last chunks.
StreamEof ==
    /\ ended /\ ~eof
    /\ eof' = TRUE
    /\ \E first \in Starts :
       \E last \in first + Len(delivered) - 1 .. writtenCount :
          /\ last = writtenCount \/ MayCutShort
          /\ delivered' = Stretch(first, last)
    /\ UNCHANGED <<knowsStart, writtenCount, ended>>

StreamNext == StreamWrite \/ StreamDeliver \/ StreamEnd \/ StreamEof

StreamSpec == StreamInit /\ [][StreamNext]_streamVars
=============================================================================
