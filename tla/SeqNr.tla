-------------------------------- MODULE SeqNr --------------------------------
(***************************************************************************)
(* The wrap-safe arithmetic on packet sequence numbers (`Seq` in           *)
(* utilt.ts).  The code works modulo 2^16 with the mask 0xFFFF and splits  *)
(* the circle at 0x8000; here the modulus is the parameter SeqMod.         *)
(***************************************************************************)
EXTENDS Integers

CONSTANT SeqMod   \* 65536 in the code

ASSUME SeqModAssumption == SeqMod \in Nat /\ SeqMod > 3 /\ SeqMod % 2 = 0

SeqNrs == 0 .. SeqMod - 1

HalfSeq == SeqMod \div 2   \* 0x8000

SeqAdd(a, n) == (a + n) % SeqMod

\* The forward distance from b to a.
SeqDiff(a, b) == (a - b) % SeqMod

SeqLt(a, b) == a # b /\ SeqDiff(b, a) < HalfSeq

SeqLe(a, b) == a = b \/ SeqLt(a, b)

SeqGt(a, b) == SeqLt(b, a)

SeqGe(a, b) == a = b \/ SeqGt(a, b)
=============================================================================
