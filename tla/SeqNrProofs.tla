----------------------------- MODULE SeqNrProofs -----------------------------
(***************************************************************************)
(* Facts about the wrap-safe arithmetic of SeqNr, for every even modulus,  *)
(* and about sets of sequence numbers, that the proofs about the           *)
(* components share.                                                       *)
(***************************************************************************)
EXTENDS SeqNr, FiniteSetTheorems, WellFoundedInduction, TLAPS

\* Every non-empty set of naturals has a least element.
LEMMA LeastNat ==
    ASSUME NEW S \in SUBSET Nat, S # {}
    PROVE  \E n \in S : \A m \in S : n <= m
<1>1. PICK x \in S : \A y \in S : ~(<<y, x>> \in OpToRel(<, Nat))
  BY NatLessThanWellFounded, WFMin, Zenon
<1>2. \A y \in S : ~(y < x)
  BY <1>1 DEF OpToRel
<1> QED
  BY <1>2

\* Every non-empty set of sequence numbers has a greatest element.
LEMMA GreatestSeqNr ==
    ASSUME NEW K \in SUBSET SeqNrs, K # {}
    PROVE  \E k \in K : \A j \in K : j <= k
<1> DEFINE S == {SeqMod - k : k \in K}
<1>1. SeqMod \in Nat /\ \A k \in K : k \in Nat /\ k < SeqMod
  BY SeqModAssumption DEF SeqNrs
<1>2. S \in SUBSET Nat /\ S # {}
  BY <1>1
<1>3. PICK n \in S : \A m \in S : n <= m
  <2> HIDE DEF S
  <2> QED
    BY <1>2, LeastNat
<1>4. PICK k \in K : n = SeqMod - k
  BY <1>3
<1>5. ASSUME NEW j \in K PROVE j <= k
  <2>1. SeqMod - j \in S
    OBVIOUS
  <2>2. SeqMod - k <= SeqMod - j
    BY <1>3, <1>4, <2>1
  <2> QED
    BY <1>1, <2>2
<1> QED
  BY <1>5

\* Sets of sequence numbers are finite.
LEMMA SeqNrsFinite ==
    ASSUME NEW K \in SUBSET SeqNrs
    PROVE  IsFiniteSet(K) /\ Cardinality(K) \in Nat
<1>1. IsFiniteSet(SeqNrs)
  BY FS_Interval, SeqModAssumption DEF SeqNrs
<1>2. IsFiniteSet(K)
  BY <1>1, FS_Subset
<1> QED
  BY <1>2, FS_CardinalityType

\* Adding an element to a set of sequence numbers adds at most one to its size.
LEMMA AddOne ==
    ASSUME NEW K \in SUBSET SeqNrs, NEW s \in SeqNrs
    PROVE  Cardinality(K \cup {s}) <= Cardinality(K) + 1
<1>1. IsFiniteSet(K) /\ Cardinality(K) \in Nat
  BY SeqNrsFinite
<1>2. CASE s \in K
  <2>1. K \cup {s} = K
    BY <1>2
  <2>2. Cardinality(K \cup {s}) = Cardinality(K)
    BY <2>1, Zenon
  <2> QED
    BY <1>1, <2>2
<1>3. CASE s \notin K
  <2>1. Cardinality(K \cup {s}) = Cardinality(K) + 1
    BY <1>1, <1>3, FS_AddElement
  <2> QED
    BY <1>1, <2>1
<1> QED
  BY <1>2, <1>3

\* A subset is no larger.
LEMMA SubsetNoLarger ==
    ASSUME NEW K \in SUBSET SeqNrs, NEW L \in SUBSET K
    PROVE  Cardinality(L) <= Cardinality(K)
<1>1. IsFiniteSet(K)
  BY SeqNrsFinite
<1> QED
  BY <1>1, FS_Subset

-----------------------------------------------------------------------------
(* Arithmetic modulo SeqMod *)

\* The remainder of a number less than one round away from the sequence numbers.
LEMMA ModOneRound ==
    ASSUME NEW x \in Int
    PROVE  /\ x \in SeqNrs => x % SeqMod = x
           /\ x - SeqMod \in SeqNrs => x % SeqMod = x - SeqMod
           /\ x + SeqMod \in SeqNrs => x % SeqMod = x + SeqMod
<1>1. CASE x \in SeqNrs
  BY <1>1, SeqModAssumption DEF SeqNrs
<1>2. CASE x - SeqMod \in SeqNrs
  BY <1>2, SeqModAssumption DEF SeqNrs
<1>3. CASE x + SeqMod \in SeqNrs
  BY <1>3, SeqModAssumption DEF SeqNrs
<1> QED
  BY <1>1, <1>2, <1>3, SeqModAssumption DEF SeqNrs

\* SeqAdd stays within the sequence numbers.
LEMMA SeqAddType ==
    ASSUME NEW a \in Int, NEW n \in Int
    PROVE  SeqAdd(a, n) \in SeqNrs
<1>1. SeqMod \in Nat /\ SeqMod > 0
  BY SeqModAssumption
<1>2. a + n \in Int
  OBVIOUS
<1> QED
  BY <1>1, <1>2 DEF SeqAdd, SeqNrs

\* Adding less than a round wraps at most once.
LEMMA SeqAddWraps ==
    ASSUME NEW a \in SeqNrs, NEW n \in 0 .. SeqMod
    PROVE  SeqAdd(a, n) = IF a + n < SeqMod THEN a + n ELSE a + n - SeqMod
<1>1. SeqMod \in Nat /\ a \in Int /\ n \in Int /\ a + n \in Int
  BY SeqModAssumption DEF SeqNrs
<1>2. CASE a + n < SeqMod
  <2>1. a + n \in SeqNrs
    BY <1>1, <1>2 DEF SeqNrs
  <2> QED
    BY <1>1, <1>2, <2>1, ModOneRound DEF SeqAdd
<1>3. CASE ~(a + n < SeqMod)
  <2>1. (a + n) - SeqMod \in SeqNrs
    BY <1>1, <1>3 DEF SeqNrs
  <2> QED
    BY <1>1, <1>3, <2>1, ModOneRound DEF SeqAdd
<1> QED
  BY <1>2, <1>3

\* The forward distance from b to a.
LEMMA SeqDiffWraps ==
    ASSUME NEW a \in SeqNrs, NEW b \in SeqNrs
    PROVE  /\ SeqDiff(a, b) = IF b <= a THEN a - b ELSE a - b + SeqMod
           /\ SeqDiff(a, b) \in SeqNrs
<1>1. SeqMod \in Nat /\ a \in Int /\ b \in Int /\ a - b \in Int
  BY SeqModAssumption DEF SeqNrs
<1>2. CASE b <= a
  <2>1. a - b \in SeqNrs
    BY <1>1, <1>2 DEF SeqNrs
  <2> QED
    BY <1>1, <1>2, <2>1, ModOneRound DEF SeqDiff
<1>3. CASE ~(b <= a)
  <2>1. (a - b) + SeqMod \in SeqNrs
    BY <1>1, <1>3 DEF SeqNrs
  <2> QED
    BY <1>1, <1>3, <2>1, ModOneRound DEF SeqDiff
<1> QED
  BY <1>2, <1>3

\* Going the forward distance from b to a leads to a.
LEMMA SeqAddSeqDiff ==
    ASSUME NEW a \in SeqNrs, NEW b \in SeqNrs
    PROVE  SeqAdd(b, SeqDiff(a, b)) = a
<1>1. SeqMod \in Nat /\ a \in Nat /\ b \in Nat /\ a < SeqMod /\ b < SeqMod
  BY SeqModAssumption DEF SeqNrs
<1>2. SeqDiff(a, b) = (IF b <= a THEN a - b ELSE a - b + SeqMod) /\ SeqDiff(a, b) \in 0 .. SeqMod
  BY <1>1, SeqDiffWraps DEF SeqNrs
<1>3. SeqAdd(b, SeqDiff(a, b)) = IF b + SeqDiff(a, b) < SeqMod THEN b + SeqDiff(a, b)
                                ELSE b + SeqDiff(a, b) - SeqMod
  BY <1>2, SeqAddWraps
<1> QED
  BY <1>1, <1>2, <1>3

\* The forward distance to a number ahead is how far ahead it is.
LEMMA SeqDiffSeqAdd ==
    ASSUME NEW b \in SeqNrs, NEW n \in SeqNrs
    PROVE  SeqDiff(SeqAdd(b, n), b) = n
<1>1. SeqMod \in Nat /\ n \in Nat /\ b \in Nat /\ n < SeqMod /\ b < SeqMod /\ n \in 0 .. SeqMod
  BY SeqModAssumption DEF SeqNrs
<1>2. SeqAdd(b, n) = (IF b + n < SeqMod THEN b + n ELSE b + n - SeqMod) /\ SeqAdd(b, n) \in SeqNrs
  BY <1>1, SeqAddWraps, SeqAddType
<1>3. SeqDiff(SeqAdd(b, n), b) = IF b <= SeqAdd(b, n) THEN SeqAdd(b, n) - b ELSE SeqAdd(b, n) - b + SeqMod
  BY <1>2, SeqDiffWraps
<1> QED
  BY <1>1, <1>2, <1>3
=============================================================================
