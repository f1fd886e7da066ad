--------------------------- MODULE UtpPacingProofs ---------------------------
(***************************************************************************)
(* The two estimators of UtpPacing, for any delays, any number of samples  *)
(* and every precision: what one measurement does to the round trip time   *)
(* and the timeout, what an acknowledgement and a loss do to the window.   *)
(***************************************************************************)
EXTENDS UtpPacing, WellFoundedInduction, TLAPS

-----------------------------------------------------------------------------
(* Arithmetic *)

\* Every non-empty set of naturals has a least element.
LEMMA LeastNat ==
    ASSUME NEW S \in SUBSET Nat, S # {}
    PROVE  \E n \in S : \A m \in S : n <= m
<1>1. PICK x \in S : \A y \in S : ~(<<y, x>> \in OpToRel(<, Nat))
  BY NatLessThanWellFounded, WFMin, Zenon
<1>2. \A y \in S : ~(y < x)
  BY <1>1 DEF OpToRel
<1> QED
  BY <1>2

LEMMA TimesMonotone ==
    ASSUME NEW a \in Nat, NEW b \in Nat, NEW c \in Nat, a <= b
    PROVE  a * c <= b * c
<1>1. PICK d \in Nat : b = a + d
  <2>1. b - a \in Nat /\ b = a + (b - a)
    OBVIOUS
  <2> QED
    BY <2>1
<1>2. (a + d) * c = a * c + d * c /\ d * c \in Nat /\ a * c \in Nat
  OBVIOUS
<1> QED
  BY <1>1, <1>2

\* A common factor can be left out of a comparison.
LEMMA TimesCancels ==
    ASSUME NEW a \in Nat, NEW b \in Nat, NEW c \in Nat \ {0}, a * c <= b * c
    PROVE  a <= b
<1>1. SUFFICES ASSUME b + 1 <= a PROVE FALSE
  OBVIOUS
<1>2. (b + 1) * c <= a * c
  BY <1>1, TimesMonotone
<1>3. (b + 1) * c = b * c + c /\ b * c \in Nat /\ a * c \in Nat
  OBVIOUS
<1> QED
  BY <1>2, <1>3

\* Rounding up, in terms of multiplication.
LEMMA CeilDivBounds ==
    ASSUME NEW a \in Nat, NEW b \in Nat \ {0}
    PROVE  /\ CeilDiv(a, b) \in Nat
           /\ a <= CeilDiv(a, b) * b
           /\ CeilDiv(a, b) * b <= a + b - 1
<1> DEFINE x == a + b - 1
           q == x \div b
           r == x % b
<1>1. x \in Nat /\ b \in Int /\ b > 0
  OBVIOUS
<1> HIDE DEF x
<1>2. q \in Nat /\ r \in 0 .. b - 1 /\ x = b * q + r
  BY <1>1
<1>3. CeilDiv(a, b) = q
  BY DEF CeilDiv, x
<1> HIDE DEF q, r
<1>4. b * q = q * b /\ q * b \in Nat
  BY <1>1, <1>2
<1> QED
  BY <1>1, <1>2, <1>3, <1>4 DEF x

\* The result is the least number of b's that make up a.
LEMMA CeilDivLeast ==
    ASSUME NEW a \in Nat, NEW b \in Nat \ {0}, NEW k \in Nat
    PROVE  CeilDiv(a, b) <= k <=> a <= k * b
<1> DEFINE q == CeilDiv(a, b)
<1>1. q \in Nat /\ a <= q * b /\ q * b <= a + b - 1
  BY CeilDivBounds
<1> HIDE DEF q
<1>2. q * b \in Nat /\ k * b \in Nat
  BY <1>1
<1>3. ASSUME q <= k PROVE a <= k * b
  <2>1. q * b <= k * b
    BY <1>1, <1>3, TimesMonotone
  <2> QED
    BY <1>1, <1>2, <2>1
<1>4. ASSUME a <= k * b, k + 1 <= q PROVE FALSE
  <2>1. (k + 1) * b <= q * b
    BY <1>1, <1>4, TimesMonotone
  <2>2. (k + 1) * b = k * b + b
    OBVIOUS
  <2> QED
    BY <1>1, <1>2, <1>4, <2>1, <2>2
<1> QED
  BY <1>1, <1>3, <1>4 DEF q

LEMMA CeilDivExact ==
    ASSUME NEW k \in Nat, NEW b \in Nat \ {0}
    PROVE  CeilDiv(b * k, b) = k
<1> DEFINE q == CeilDiv(b * k, b)
<1>1. b * k \in Nat /\ b * k = k * b
  OBVIOUS
<1>2. q \in Nat /\ b * k <= q * b
  BY <1>1, CeilDivBounds
<1>3. q <= k
  <2>1. b * k <= k * b
    BY <1>1
  <2> QED
    BY <1>1, <2>1, CeilDivLeast
<1> HIDE DEF q
<1>4. k <= q
  BY <1>1, <1>2, TimesCancels
<1>5. q = k
  BY <1>2, <1>3, <1>4
<1> QED
  BY <1>5 DEF q

-----------------------------------------------------------------------------
(* The samples of one acknowledgement, one after the other *)

\* f is the tracker after each of the delays, starting from t.
Course(f, t, delays, n) ==
    f = [k \in 0 .. n |-> IF k = 0 THEN t ELSE UpdateTracker(f[k - 1], delays[k])]

\* There is such a course for every sequence of delays, so that handleAck's
\* loops are well defined in the model.
LEMMA CourseExists ==
    ASSUME NEW t, NEW delays \in Seq(Nat)
    PROVE  \E f : Course(f, t, delays, Len(delays))
<1> DEFINE Bad == {n \in Nat : ~ \E f : Course(f, t, delays, n)}
<1>1. SUFFICES ASSUME Bad # {} PROVE FALSE
  <2>1. Len(delays) \in Nat
    OBVIOUS
  <2> QED
    BY <2>1, Zenon
<1>2. PICK n \in Bad : \A m \in Bad : n <= m
  <2>1. Bad \in SUBSET Nat
    OBVIOUS
  <2> HIDE DEF Bad
  <2> QED
    BY <1>1, <2>1, LeastNat, Zenon
<1>3. n \in Nat /\ ~ \E f : Course(f, t, delays, n)
  BY <1>2
<1>4. n # 0
  <2>1. Course([k \in 0 .. 0 |-> t], t, delays, 0)
    BY DEF Course
  <2> QED
    BY <1>3, <2>1
<1>5. n - 1 \in Nat /\ ~(n <= n - 1)
  BY <1>3, <1>4
<1>6. n - 1 \notin Bad
  <2> HIDE DEF Bad
  <2> QED
    BY <1>2, <1>5
<1>7. PICK f : Course(f, t, delays, n - 1)
  BY <1>5, <1>6
<1>8. /\ f[0] = t
      /\ \A k \in 1 .. n - 1 : f[k] = UpdateTracker(f[k - 1], delays[k])
  <2>1. f = [k \in 0 .. n - 1 |-> IF k = 0 THEN t ELSE UpdateTracker(f[k - 1], delays[k])]
    BY <1>7, Zenon DEF Course
  <2>2. \A k \in 0 .. n - 1 : f[k] = IF k = 0 THEN t ELSE UpdateTracker(f[k - 1], delays[k])
    BY <2>1, Zenon
  <2> QED
    BY <1>5, <2>2
<1> DEFINE g == [k \in 0 .. n |->
                   IF k = n THEN UpdateTracker(f[n - 1], delays[n]) ELSE f[k]]
<1>9. \A k \in 0 .. n :
        g[k] = IF k = 0 THEN t ELSE UpdateTracker(g[k - 1], delays[k])
  BY <1>3, <1>4, <1>5, <1>8
<1>10. g = [k \in 0 .. n |-> IF k = 0 THEN t ELSE UpdateTracker(g[k - 1], delays[k])]
  BY <1>9
<1> QED
  BY <1>3, <1>10, Zenon DEF Course

\* Taking the samples is following that course to its end.
LEMMA AfterSamplesFollows ==
    ASSUME NEW t, NEW delays \in Seq(Nat)
    PROVE  \E f : /\ f[0] = t
                  /\ \A k \in 1 .. Len(delays) : f[k] = UpdateTracker(f[k - 1], delays[k])
                  /\ AfterSamples(t, delays) = f[Len(delays)]
<1> DEFINE f == CHOOSE f : Course(f, t, delays, Len(delays))
<1>1. Course(f, t, delays, Len(delays))
  BY CourseExists, Zenon
<1>2. AfterSamples(t, delays) = f[Len(delays)]
  BY Zenon DEF AfterSamples, Course
<1> HIDE DEF f
<1>3. \A k \in 0 .. Len(delays) :
        f[k] = IF k = 0 THEN t ELSE UpdateTracker(f[k - 1], delays[k])
  <2>1. f = [k \in 0 .. Len(delays) |->
               IF k = 0 THEN t ELSE UpdateTracker(f[k - 1], delays[k])]
    BY <1>1, Zenon DEF Course
  <2> QED
    BY <2>1, Zenon
<1>4. Len(delays) \in Nat
  OBVIOUS
<1>5. f[0] = t /\ \A k \in 1 .. Len(delays) : f[k] = UpdateTracker(f[k - 1], delays[k])
  BY <1>3, <1>4
<1> QED
  BY <1>2, <1>5, Zenon

-----------------------------------------------------------------------------
(* One measurement *)

\* What a packet measures is never 0, so that 0 can stand for "no sample yet".
LEMMA MeasuredIsPositive ==
    ASSUME NEW delay \in Nat
    PROVE  Measured(delay) \in Nat \ {0}
<1>1. MaxOf(delay, 1) \in Nat \ {0}
  BY DEF MaxOf
<1>2. Unit \in Nat \ {0}
  BY PacingAssumption
<1>3. \A a, b \in Nat \ {0} : a * b \in Nat \ {0}
  OBVIOUS
<1> QED
  BY <1>1, <1>2, <1>3 DEF Measured

\* The estimate lies between the one before it and the sample; the first
\* sample is taken as it is.
LEMMA SmoothedBetween ==
    ASSUME NEW rtt \in Nat, NEW ertt \in Nat \ {0}
    PROVE  /\ SmoothedRtt(rtt, ertt) \in Nat \ {0}
           /\ ertt <= SmoothedRtt(rtt, ertt) \/ (rtt # 0 /\ rtt <= SmoothedRtt(rtt, ertt))
           /\ SmoothedRtt(rtt, ertt) <= ertt \/ (rtt # 0 /\ SmoothedRtt(rtt, ertt) <= rtt)
<1>1. CASE rtt = 0
  BY <1>1 DEF SmoothedRtt
<1>2. CASE rtt # 0
  <2> DEFINE r == (rtt * 7 + ertt) \div 8
  <2>1. r \in Int /\ 8 * r <= rtt * 7 + ertt /\ rtt * 7 + ertt <= 8 * r + 7
    OBVIOUS
  <2>2. SmoothedRtt(rtt, ertt) = r
    BY <1>2 DEF SmoothedRtt
  <2> HIDE DEF r
  <2> QED
    BY <1>2, <2>1, <2>2
<1> QED
  BY <1>1, <1>2

LEMMA SmoothedVarType ==
    ASSUME NEW rtt \in Nat, NEW rttVar \in Nat, NEW ertt \in Nat
    PROVE  SmoothedVar(rtt, rttVar, ertt) \in Nat
<1>1. Distance(rtt, ertt) \in Nat
  BY DEF Distance
<1>2. \A a, b \in Nat : (3 * a + b) \div 4 \in Nat /\ b \div 2 \in Nat
  OBVIOUS
<1> QED
  BY <1>1, <1>2 DEF SmoothedVar

\* The estimate agrees with the set M of what has been measured so far: it is
\* within the range of M, and a timeout that was computed from it covers it.
TrackerOK(t, M) ==
    /\ t \in [rtt : Nat, rttVar : Nat, baseDelay : Nat, rto : Nat]
    /\ t.rto >= MinRto * Unit
    /\ t.rtt < MaxRto * Unit => t.rto >= t.rtt
    /\ M = {} <=> t.rtt = 0
    /\ M # {} => /\ \E m \in M : m <= t.rtt
                 /\ \E m \in M : t.rtt <= m

\* One measurement keeps the agreement.  Where sanityCheckRtt refuses the
\* estimate, it is too large for the second conjunct to ask anything of the
\* timeout that stays.
LEMMA UpdateTrackerKeeps ==
    ASSUME NEW M \in SUBSET (Nat \ {0}), NEW t, TrackerOK(t, M), NEW delay \in Nat
    PROVE  TrackerOK(UpdateTracker(t, delay), M \cup {Measured(delay)})
<1> DEFINE e == Measured(delay)
           r == SmoothedRtt(t.rtt, e)
           v == SmoothedVar(t.rtt, t.rttVar, e)
           u == UpdateTracker(t, delay)
           T == [rtt : Nat, rttVar : Nat, baseDelay : Nat, rto : Nat]
<1>1. t \in T /\ t.rto >= MinRto * Unit
  BY DEF TrackerOK
<1>2. MinRto * Unit \in Nat /\ MaxRto * Unit \in Nat
  BY PacingAssumption
<1>3. e \in Nat \ {0}
  BY MeasuredIsPositive
<1>4. /\ r \in Nat \ {0}
      /\ e <= r \/ (t.rtt # 0 /\ t.rtt <= r)
      /\ r <= e \/ (t.rtt # 0 /\ r <= t.rtt)
  <2> HIDE DEF e
  <2> QED
    BY <1>1, <1>3, SmoothedBetween
<1>5. v \in Nat
  <2> HIDE DEF e
  <2> QED
    BY <1>1, <1>3, SmoothedVarType
<1>6. \/ r >= MaxRto * Unit /\ u = [t EXCEPT !.rtt = r, !.rttVar = v]
      \/ /\ r < MaxRto * Unit
         /\ u = [[t EXCEPT !.rtt = r, !.rttVar = v] EXCEPT
                   !.baseDelay = IF @ = 0 \/ r < @ THEN r ELSE @,
                   !.rto = MaxOf(r + 4 * v, MinRto * Unit)]
  <2> HIDE DEF e
  <2>1. u = LET sampled == [t EXCEPT !.rtt = r, !.rttVar = v]
            IN  IF sampled.rtt >= MaxRto * Unit THEN sampled
                ELSE [sampled EXCEPT
                        !.baseDelay = IF @ = 0 \/ sampled.rtt < @ THEN sampled.rtt ELSE @,
                        !.rto = MaxOf(sampled.rtt + 4 * sampled.rttVar, MinRto * Unit)]
    BY Zenon DEF UpdateTracker, e
  <2> HIDE DEF u, r, v
  <2>2. [t EXCEPT !.rtt = r, !.rttVar = v].rtt = r /\ [t EXCEPT !.rtt = r, !.rttVar = v].rttVar = v
    BY <1>1
  <2> QED
    BY <1>2, <1>4, <1>5, <2>1, <2>2
<1> HIDE DEF e, r, v, u
<1>7. /\ u \in T /\ u.rtt = r
      /\ u.rto >= MinRto * Unit
      /\ u.rtt < MaxRto * Unit => u.rto >= u.rtt
  <2>1. CASE r >= MaxRto * Unit /\ u = [t EXCEPT !.rtt = r, !.rttVar = v]
    <3>1. u \in T /\ u.rtt = r /\ u.rto = t.rto
      BY <1>1, <1>4, <1>5, <2>1
    <3>2. \A x, y \in Nat : x >= y => ~(x < y)
      OBVIOUS
    <3> QED
      BY <1>1, <1>2, <1>4, <2>1, <3>1, <3>2, Zenon
  <2>2. CASE /\ r < MaxRto * Unit
             /\ u = [[t EXCEPT !.rtt = r, !.rttVar = v] EXCEPT
                       !.baseDelay = IF @ = 0 \/ r < @ THEN r ELSE @,
                       !.rto = MaxOf(r + 4 * v, MinRto * Unit)]
    <3> DEFINE rto == MaxOf(r + 4 * v, MinRto * Unit)
    <3>1. rto \in Nat /\ rto >= MinRto * Unit /\ rto >= r
      BY <1>2, <1>4, <1>5 DEF MaxOf
    <3> HIDE DEF rto
    <3> QED
      BY <1>1, <1>4, <1>5, <2>2, <3>1 DEF rto
  <2> QED
    BY <1>6, <2>1, <2>2
<1>8. /\ \E m \in M \cup {e} : m <= r
      /\ \E m \in M \cup {e} : r <= m
  <2>1. t.rtt \in Nat
    BY <1>1
  <2>2. t.rtt # 0 => /\ \E m \in M : m <= t.rtt
                     /\ \E m \in M : t.rtt <= m
    BY DEF TrackerOK
  <2>3. e <= r \/ \E m \in M : m <= r
    BY <1>3, <1>4, <2>1, <2>2
  <2>4. r <= e \/ \E m \in M : r <= m
    BY <1>3, <1>4, <2>1, <2>2
  <2> QED
    BY <2>3, <2>4, Zenon
<1>9. M \cup {e} # {} /\ u.rtt # 0
  BY <1>4, <1>7
<1> QED
  BY <1>7, <1>8, <1>9 DEF TrackerOK, u, e

\* So do the measurements of one acknowledgement, however many.
LEMMA AfterSamplesKeeps ==
    ASSUME NEW M \in SUBSET (Nat \ {0}), NEW t, TrackerOK(t, M),
           NEW delays \in Seq(Nat)
    PROVE  TrackerOK(AfterSamples(t, delays),
                     M \cup {Measured(delays[k]) : k \in 1 .. Len(delays)})
<1> DEFINE Up(n) == M \cup {Measured(delays[k]) : k \in 1 .. n}
<1>1. PICK f : /\ f[0] = t
               /\ \A k \in 1 .. Len(delays) : f[k] = UpdateTracker(f[k - 1], delays[k])
               /\ AfterSamples(t, delays) = f[Len(delays)]
  BY AfterSamplesFollows, Zenon
<1>2. Len(delays) \in Nat /\ \A k \in 1 .. Len(delays) : delays[k] \in Nat
  OBVIOUS
<1> DEFINE Bad == {n \in 0 .. Len(delays) : ~ TrackerOK(f[n], Up(n))}
<1>3. SUFFICES ASSUME Bad # {} PROVE FALSE
  <2>1. Len(delays) \in 0 .. Len(delays)
    BY <1>2
  <2> QED
    BY <1>1, <2>1
<1>4. PICK n \in Bad : \A m \in Bad : n <= m
  <2>1. Bad \in SUBSET Nat
    OBVIOUS
  <2> HIDE DEF Bad
  <2> QED
    BY <1>3, <2>1, LeastNat, Zenon
<1>5. n \in 0 .. Len(delays) /\ ~ TrackerOK(f[n], Up(n))
  BY <1>4
<1>6. n # 0
  <2>1. Up(0) = M
    OBVIOUS
  <2> QED
    BY <1>1, <1>5, <2>1
<1>7. n \in 1 .. Len(delays) /\ n - 1 \in 0 .. Len(delays) /\ ~(n <= n - 1)
  BY <1>2, <1>5, <1>6
<1>8. n - 1 \notin Bad
  <2> HIDE DEF Bad
  <2> QED
    BY <1>4, <1>7
<1>9. TrackerOK(f[n - 1], Up(n - 1))
  BY <1>7, <1>8
<1>10. Up(n) = Up(n - 1) \cup {Measured(delays[n])}
  <2>1. 1 .. n = (1 .. n - 1) \cup {n}
    BY <1>7
  <2> QED
    BY <2>1
<1>11. Up(n - 1) \in SUBSET (Nat \ {0})
  <2>1. \A k \in 1 .. n - 1 : k \in 1 .. Len(delays)
    BY <1>2, <1>7
  <2>2. \A k \in 1 .. n - 1 : Measured(delays[k]) \in Nat \ {0}
    BY <1>2, <2>1, MeasuredIsPositive
  <2> QED
    BY <2>2
<1> HIDE DEF Up
<1>12. TrackerOK(UpdateTracker(f[n - 1], delays[n]), Up(n - 1) \cup {Measured(delays[n])})
  BY <1>2, <1>7, <1>9, <1>11, UpdateTrackerKeeps, Zenon
<1>13. f[n] = UpdateTracker(f[n - 1], delays[n])
  BY <1>1, <1>7, Zenon
<1> QED
  BY <1>5, <1>10, <1>12, <1>13, Zenon

-----------------------------------------------------------------------------
(* The congestion window *)

LEMMA PacingConstants ==
    /\ Fraction \in Nat \ {0}
    /\ TargetDelay * Unit \in Nat \ {0}
    /\ MaxCongestionWindow \in Nat /\ 1 <= MaxCongestionWindow
    /\ MaxCongestionWindow <= Fraction
    /\ (TargetDelay * Unit) * Fraction \in Nat \ {0}
<1>1. \A a, b \in Nat \ {0} : a * b \in Nat \ {0}
  OBVIOUS
<1>2. /\ Fraction \in Nat /\ MaxCongestionWindow \in 1 .. Fraction
      /\ TargetDelay \in Nat \ {0} /\ Unit \in Nat \ {0}
  BY PacingAssumption
<1>3. Fraction \in Nat \ {0}
  BY <1>2
<1>4. TargetDelay * Unit \in Nat \ {0}
  BY <1>1, <1>2
<1> QED
  BY <1>1, <1>2, <1>3, <1>4

\* What updateWindowSize rounds up: at least the window there was, and within
\* the target at most one packet more.
LEMMA WindowGrows ==
    ASSUME NEW w \in Nat, w >= Fraction, NEW delay \in Nat, NEW lastMax \in Nat
    PROVE  \E k \in Nat \ {0} :
              /\ WindowAfter(w, delay, lastMax) = Fraction * k
              /\ CeilDiv(w, Fraction) <= k
              /\ delay <= TargetDelay * Unit => k <= CeilDiv(w, Fraction) + 1
<1> DEFINE T == TargetDelay * Unit
           F == Fraction
           scaled == IF delay <= T THEN w * T + (T - delay) * F
                     ELSE IF delay > lastMax THEN w * delay ELSE w * T
           P == CeilDiv(w, F)
           q == CeilDiv(scaled, T * F)
<1>1. T \in Nat \ {0} /\ F \in Nat \ {0} /\ T * F \in Nat \ {0}
  BY PacingConstants
<1>2. WindowAfter(w, delay, lastMax) = F * MaxOf(1, q)
  BY DEF WindowAfter
<1> HIDE DEF T, F
<1>3. /\ scaled \in Nat
      /\ w * T <= scaled
      /\ delay <= T => scaled <= (w + F) * T
  <2>1. w * T \in Nat /\ (w + F) * T = w * T + F * T
    BY <1>1
  <2>2. CASE delay <= T
    <3>1. T - delay \in Nat /\ T - delay <= T
      BY <1>1, <2>2
    <3>2. (T - delay) * F <= T * F /\ (T - delay) * F \in Nat
      BY <1>1, <3>1, TimesMonotone
    <3>3. T * F = F * T /\ F * T \in Nat
      BY <1>1
    <3>4. scaled = w * T + (T - delay) * F
      BY <2>2
    <3> HIDE DEF scaled
    <3> QED
      BY <2>1, <3>2, <3>3, <3>4
  <2>3. CASE ~(delay <= T) /\ delay > lastMax
    <3>1. T <= delay /\ T * w <= delay * w
      BY <1>1, <2>3, TimesMonotone
    <3>2. T * w = w * T /\ delay * w = w * delay /\ w * delay \in Nat
      BY <1>1
    <3>3. scaled = w * delay
      BY <2>3
    <3> HIDE DEF scaled
    <3> QED
      BY <2>1, <2>3, <3>1, <3>2, <3>3
  <2>4. CASE ~(delay <= T) /\ ~(delay > lastMax)
    <3>1. scaled = w * T
      BY <2>4
    <3> HIDE DEF scaled
    <3> QED
      BY <2>1, <2>4, <3>1
  <2> QED
    BY <2>2, <2>3, <2>4
<1> HIDE DEF scaled
<1>4. P \in Nat /\ w <= P * F
  BY <1>1, CeilDivBounds
<1>5. q \in Nat /\ scaled <= q * (T * F)
  BY <1>1, <1>3, CeilDivBounds
<1>6. P <= q
  <2> HIDE DEF q
  <2>1. q * (T * F) = (q * F) * T /\ q * F \in Nat /\ w * T \in Nat /\ (q * F) * T \in Nat
    BY <1>1, <1>5
  <2>2. w * T <= (q * F) * T
    BY <1>3, <1>5, <2>1
  <2>3. w <= q * F
    BY <1>1, <2>1, <2>2, TimesCancels
  <2> QED
    BY <1>1, <1>5, <2>3, CeilDivLeast
<1>7. 1 <= P
  <2>1. P # 0
    <3> HIDE DEF P
    <3>1. w >= F /\ w # 0
      BY <1>1 DEF F
    <3>2. P = 0 => P * F = 0
      BY <1>1
    <3> QED
      BY <1>4, <3>1, <3>2
  <2> HIDE DEF P
  <2> QED
    BY <1>4, <2>1
<1>8. delay <= T => q <= P + 1
  <2>1. SUFFICES ASSUME delay <= T PROVE q <= P + 1
    OBVIOUS
  <2>2. scaled <= (P + 1) * (T * F)
    <3> HIDE DEF P
    <3>1. w + F <= (P + 1) * F /\ (P + 1) * F \in Nat
      <4>1. (P + 1) * F = P * F + F /\ P * F \in Nat
        BY <1>1, <1>4
      <4> QED
        BY <1>1, <1>4, <4>1
    <3>2. (w + F) * T <= ((P + 1) * F) * T
      BY <1>1, <3>1, TimesMonotone
    <3>3. ((P + 1) * F) * T = (P + 1) * (T * F) /\ (P + 1) * (T * F) \in Nat
      BY <1>1, <1>4
    <3>4. (w + F) * T \in Nat
      BY <1>1
    <3> QED
      BY <1>3, <2>1, <3>2, <3>3, <3>4
  <2>3. P + 1 \in Nat
    BY <1>4
  <2> HIDE DEF P
  <2> QED
    BY <1>1, <1>3, <2>2, <2>3, CeilDivLeast
<1> HIDE DEF P, q
<1>9. MaxOf(1, q) = q /\ q \in Nat \ {0}
  BY <1>4, <1>5, <1>6, <1>7 DEF MaxOf
<1> QED
  BY <1>2, <1>6, <1>8, <1>9 DEF P, F, T

\* A window that the arithmetic of UtpPacing represents exactly: a whole number
\* of packets after an acknowledgement, divided by a divisor of Fraction since.
Exact(w) ==
    /\ w \in Nat /\ w >= Fraction
    /\ \E m, h, e \in Nat \ {0} :
          w = m * h /\ Fraction = h * e /\ m <= MaxCongestionWindow

LEMMA WholePacketsAreExact ==
    ASSUME NEW k \in Nat \ {0}, Fraction * k <= MaxCongestionWindow * Fraction
    PROVE  Exact(Fraction * k)
<1>1. Fraction \in Nat \ {0} /\ MaxCongestionWindow \in Nat
  BY PacingConstants
<1>2. k * Fraction <= MaxCongestionWindow * Fraction
  BY <1>1
<1>3. k <= MaxCongestionWindow
  BY <1>1, <1>2, TimesCancels
<1>4. Fraction * k = k * Fraction /\ Fraction * k \in Nat /\ Fraction = Fraction * 1
  BY <1>1
<1>5. 1 * Fraction <= k * Fraction /\ 1 * Fraction = Fraction
  BY <1>1, TimesMonotone
<1>6. Fraction * k >= Fraction
  BY <1>1, <1>4, <1>5
<1>7. \E m, h, e \in Nat \ {0} :
         Fraction * k = m * h /\ Fraction = h * e /\ m <= MaxCongestionWindow
  <2>1. 1 \in Nat \ {0}
    OBVIOUS
  <2> QED
    BY <1>1, <1>3, <1>4, <2>1, Zenon
<1> QED
  BY <1>4, <1>6, <1>7 DEF Exact

\* A loss halves the window exactly, or leaves one packet; in whole packets it
\* is what CongestionWindow says.
LEMMA LossHalves ==
    ASSUME NEW w, Exact(w)
    PROVE  /\ Exact(MaxOf(w \div 2, Fraction))
           /\ CeilDiv(MaxOf(w \div 2, Fraction), Fraction)
                = AfterPacketLoss(CeilDiv(w, Fraction))
<1> DEFINE P == CeilDiv(w, Fraction)
<1>1. /\ Fraction \in Nat \ {0}
      /\ MaxCongestionWindow \in Nat /\ 1 <= MaxCongestionWindow
      /\ MaxCongestionWindow <= Fraction
  BY PacingConstants
<1>2. w \in Nat /\ w >= Fraction
  BY DEF Exact
<1>3. P \in Nat /\ \A k \in Nat : P <= k <=> w <= k * Fraction
  BY <1>1, <1>2, CeilDivBounds, CeilDivLeast
<1>4. 1 <= P
  <2>1. P <= 0 <=> w <= 0 * Fraction
    BY <1>3
  <2>2. 0 * Fraction = 0
    BY <1>1
  <2> HIDE DEF P
  <2> QED
    BY <1>1, <1>2, <1>3, <2>1, <2>2
<1> HIDE DEF P
<1>5. CASE w < 2 * Fraction
  <2>1. MaxOf(w \div 2, Fraction) = Fraction
    BY <1>1, <1>2, <1>5 DEF MaxOf
  <2>2. Fraction = Fraction * 1 /\ 1 * Fraction = Fraction
    BY <1>1
  <2>3. Fraction * 1 <= MaxCongestionWindow * Fraction
    BY <1>1, <2>2, TimesMonotone
  <2>4. Exact(Fraction)
    <3>1. 1 \in Nat \ {0}
      OBVIOUS
    <3>2. Exact(Fraction * 1)
      BY <2>3, <3>1, WholePacketsAreExact
    <3> QED
      BY <2>2, <3>2
  <2>5. CeilDiv(Fraction, Fraction) = 1
    <3>1. CeilDiv(Fraction * 1, Fraction) = 1
      BY <1>1, CeilDivExact
    <3> QED
      BY <2>2, <3>1
  <2>6. P <= 2
    BY <1>1, <1>2, <1>3, <1>5
  <2>7. AfterPacketLoss(P) = 1
    BY <1>3, <1>4, <2>6 DEF AfterPacketLoss, MaxOf
  <2> QED
    BY <2>1, <2>4, <2>5, <2>7 DEF P
<1>6. CASE ~(w < 2 * Fraction)
  <2>1. PICK m \in Nat \ {0}, h \in Nat \ {0}, e \in Nat \ {0} :
           w = m * h /\ Fraction = h * e /\ m <= MaxCongestionWindow
    BY DEF Exact
  <2>2. h # 1
    <3>1. h = 1 => w = m
      BY <2>1
    <3> QED
      BY <1>1, <1>2, <1>6, <2>1, <3>1
  <2>3. h \in 1 .. Fraction /\ e \in 1 .. Fraction
    <3>1. 1 * h <= e * h /\ 1 * e <= h * e
      BY TimesMonotone
    <3>2. 1 * h = h /\ 1 * e = e /\ e * h = h * e
      OBVIOUS
    <3> QED
      BY <1>1, <2>1, <3>1, <3>2
  <2>4. h % 2 = 0
    BY <2>1, <2>2, <2>3, PacingAssumption
  <2>5. PICK g \in Nat \ {0} : h = 2 * g
    <3>1. h \div 2 \in Nat \ {0} /\ h = 2 * (h \div 2)
      BY <2>2, <2>4
    <3> QED
      BY <3>1
  <2> DEFINE v == m * g
  <2>6. v \in Nat /\ w = 2 * v /\ Fraction = g * (2 * e) /\ 2 * e \in Nat \ {0}
    BY <2>1, <2>5
  <2> HIDE DEF v
  <2>7. w \div 2 = v /\ v >= Fraction
    BY <1>1, <1>6, <2>6
  <2>8. MaxOf(w \div 2, Fraction) = v
    BY <1>1, <2>6, <2>7 DEF MaxOf
  <2>9. Exact(v)
    <3>1. v = m * g /\ m <= MaxCongestionWindow
      BY <2>1 DEF v
    <3> QED
      BY <2>6, <2>7, <3>1, Zenon DEF Exact
  <2> DEFINE Q == CeilDiv(v, Fraction)
  <2>10. Q \in Nat /\ \A k \in Nat : Q <= k <=> v <= k * Fraction
    BY <1>1, <2>6, CeilDivBounds, CeilDivLeast
  <2> HIDE DEF Q
  <2>11. \A k \in Nat : v <= k * Fraction <=> w <= (2 * k) * Fraction
    <3>1. \A k \in Nat : (2 * k) * Fraction = 2 * (k * Fraction) /\ k * Fraction \in Nat
      BY <1>1
    <3>2. \A a, b \in Nat : a <= b <=> 2 * a <= 2 * b
      OBVIOUS
    <3> QED
      BY <2>6, <3>1, <3>2
  <2>12. \A k \in Nat : Q <= k <=> P <= 2 * k
    <3>1. \A k \in Nat : 2 * k \in Nat
      OBVIOUS
    <3> QED
      BY <1>3, <2>10, <2>11, <3>1
  <2>13. Q = (P + 1) \div 2
    <3> DEFINE d == (P + 1) \div 2
    <3>1. d \in Nat /\ P <= 2 * d /\ 2 * d <= P + 1
      BY <1>3
    <3> HIDE DEF d
    <3>2. Q <= d
      BY <2>12, <3>1
    <3>3. P <= 2 * Q
      BY <2>10, <2>12
    <3>4. Q = d
      BY <1>3, <2>10, <3>1, <3>2, <3>3
    <3> QED
      BY <3>4 DEF d
  <2>14. AfterPacketLoss(P) = (P + 1) \div 2
    BY <1>3, <1>4 DEF AfterPacketLoss, MaxOf
  <2> QED
    BY <2>8, <2>9, <2>13, <2>14 DEF P, Q
<1> QED
  BY <1>5, <1>6

-----------------------------------------------------------------------------
(* The inductive invariant *)

\* What the tracker has been given.
SamplesMeasured == {Measured(samples[n]) : n \in 1 .. Len(samples)}

PacingTypeOK ==
    /\ samples \in Seq(Nat)
    /\ control \in [windowSize : Nat, baseDelay : Nat, queueDelay : Nat, lastMaxDelay : Nat]
    /\ alive \in BOOLEAN

PacingIInv ==
    /\ PacingTypeOK
    /\ TrackerOK(tracker, SamplesMeasured)
    /\ Exact(control.windowSize)

LEMMA PacingIInvInit == PacingInit => PacingIInv
<1> SUFFICES ASSUME PacingInit PROVE PacingIInv
  OBVIOUS
<1>1. /\ MinRto * Unit \in Nat /\ MaxRto * Unit \in Nat
      /\ InitialWindow \in Nat \ {0} /\ InitialWindow <= MaxCongestionWindow
  BY PacingAssumption, PacingConstants
<1>2. Fraction \in Nat \ {0} /\ MaxCongestionWindow \in Nat
  BY PacingConstants
<1>3. /\ InitialWindow * Fraction = Fraction * InitialWindow
      /\ Fraction * InitialWindow <= MaxCongestionWindow * Fraction
      /\ InitialWindow * Fraction \in Nat
  <2>1. InitialWindow * Fraction <= MaxCongestionWindow * Fraction
    BY <1>1, <1>2, TimesMonotone
  <2> QED
    BY <1>1, <1>2, <2>1
<1>4. Exact(InitialWindow * Fraction)
  BY <1>1, <1>3, WholePacketsAreExact
<1>5. /\ control = [windowSize |-> InitialWindow * Fraction, baseDelay |-> NoDelay,
                    queueDelay |-> 0, lastMaxDelay |-> 0]
      /\ NoDelay \in Nat
  BY DEF PacingInit, NewControl, NoDelay
<1>6. samples = <<>> /\ alive = TRUE
  BY DEF PacingInit
<1>7. PacingTypeOK
  <2>1. samples \in Seq(Nat)
    BY <1>6
  <2>2. control \in [windowSize : Nat, baseDelay : Nat, queueDelay : Nat, lastMaxDelay : Nat]
    BY <1>3, <1>5
  <2> QED
    BY <1>6, <2>1, <2>2, Zenon DEF PacingTypeOK
<1>8. TrackerOK(tracker, SamplesMeasured)
  <2>1. SamplesMeasured = {}
    BY <1>6 DEF SamplesMeasured
  <2>2. tracker = [rtt |-> 0, rttVar |-> 0, baseDelay |-> 0, rto |-> MinRto * Unit]
    BY DEF PacingInit
  <2> QED
    BY <1>1, <2>1, <2>2 DEF TrackerOK
<1>9. Exact(control.windowSize)
  BY <1>4, <1>5
<1> QED
  BY <1>7, <1>8, <1>9 DEF PacingIInv

\* An acknowledgement: what the tracker and the congestion control make of it.
LEMMA HandleAckEffect ==
    ASSUME PacingIInv, NEW delays \in SeqOf(Delays, MaxPerAck), HandleAck(delays)
    PROVE  /\ PacingIInv'
           /\ Packets' \in AfterUpdateRtt(Packets)
           /\ control'.queueDelay <= TargetDelay * Unit => Packets' <= Packets + 1
<1>1. PacingTypeOK /\ TrackerOK(tracker, SamplesMeasured) /\ Exact(control.windowSize)
  BY DEF PacingIInv
<1>2. delays \in Seq(Nat)
  <2>1. Delays \subseteq Nat /\ MaxPerAck \in Nat
    BY PacingAssumption
  <2>2. PICK n \in 0 .. MaxPerAck : delays \in [1 .. n -> Delays]
    BY DEF SeqOf
  <2>3. delays \in [1 .. n -> Nat] /\ n \in Nat
    <3>1. n \in Nat
      BY <2>1
    <3>2. \A k \in 1 .. n : delays[k] \in Nat
      BY <2>1, <2>2, Zenon
    <3>3. delays = [k \in 1 .. n |-> delays[k]]
      BY <2>2, Zenon
    <3> QED
      BY <3>1, <3>2, <3>3, Zenon
  <2> QED
    BY <2>3
<1>3. samples' = samples \o delays /\ samples' \in Seq(Nat)
  BY <1>1, <1>2 DEF HandleAck, PacingTypeOK
<1>4. /\ SamplesMeasured \in SUBSET (Nat \ {0})
      /\ SamplesMeasured' = SamplesMeasured \cup {Measured(delays[k]) : k \in 1 .. Len(delays)}
  <2>1. samples \in Seq(Nat)
    BY <1>1 DEF PacingTypeOK
  <2>2. \A n \in 1 .. Len(samples) : Measured(samples[n]) \in Nat \ {0}
    <3>1. \A n \in 1 .. Len(samples) : samples[n] \in Nat
      BY <2>1
    <3> QED
      BY <3>1, MeasuredIsPositive, Zenon
  <2>3. /\ Len(samples') = Len(samples) + Len(delays)
        /\ \A n \in 1 .. Len(samples) : samples'[n] = samples[n]
        /\ \A k \in 1 .. Len(delays) : samples'[Len(samples) + k] = delays[k]
    BY <1>2, <1>3, <2>1
  <2>4. Len(samples) \in Nat /\ Len(delays) \in Nat
    BY <1>2, <2>1
  <2> DEFINE L == Len(samples)
             N == Len(delays)
  <2> HIDE DEF L, N
  <2>5. \A n \in 1 .. L + N : n \in 1 .. L \/ \E k \in 1 .. N : n = L + k
    <3>1. \A n \in 1 .. L + N : n \notin 1 .. L => n - L \in 1 .. N /\ n = L + (n - L)
      BY <2>4 DEF L, N
    <3> QED
      BY <3>1, Zenon
  <2>6. /\ \A n \in 1 .. L : n \in 1 .. L + N
        /\ \A k \in 1 .. N : L + k \in 1 .. L + N
    BY <2>4 DEF L, N
  <2>7. SamplesMeasured' = {Measured(samples'[n]) : n \in 1 .. L + N}
    BY <2>3 DEF SamplesMeasured, L, N
  <2>8. /\ \A n \in 1 .. L : Measured(samples'[n]) = Measured(samples[n])
        /\ \A k \in 1 .. N : Measured(samples'[L + k]) = Measured(delays[k])
    BY <2>3, Zenon DEF L, N
  <2>9. SamplesMeasured = {Measured(samples[n]) : n \in 1 .. L}
    BY DEF SamplesMeasured, L
  <2>10. {Measured(samples'[n]) : n \in 1 .. L + N}
           = {Measured(samples[n]) : n \in 1 .. L} \cup {Measured(delays[k]) : k \in 1 .. N}
    BY <2>5, <2>6, <2>8
  <2>11. SamplesMeasured \in SUBSET (Nat \ {0})
    BY <2>2 DEF SamplesMeasured
  <2> QED
    BY <2>7, <2>9, <2>10, <2>11 DEF N
<1>5. TrackerOK(tracker', SamplesMeasured')
  <2> DEFINE S == SamplesMeasured
             D == {Measured(delays[k]) : k \in 1 .. Len(delays)}
  <2>1. TrackerOK(AfterSamples(tracker, delays), S \cup D)
    <3>1. S \in SUBSET (Nat \ {0}) /\ TrackerOK(tracker, S)
      BY <1>1, <1>4
    <3> HIDE DEF S
    <3> QED
      BY <1>2, <3>1, AfterSamplesKeeps
  <2>2. SamplesMeasured' = S \cup D
    BY <1>4
  <2>3. tracker' = AfterSamples(tracker, delays)
    BY DEF HandleAck
  <2> HIDE DEF S, D
  <2> QED
    BY <2>1, <2>2, <2>3
<1>6. tracker'.rtt \in Nat
  BY <1>5 DEF TrackerOK
<1> DEFINE base  == MinOf(control.baseDelay, tracker'.rtt)
           delay == tracker'.rtt - base
<1>7. /\ control.windowSize \in Nat /\ control.baseDelay \in Nat /\ control.lastMaxDelay \in Nat
      /\ control.windowSize >= Fraction
  BY <1>1 DEF PacingTypeOK, Exact
<1>8. base \in Nat /\ delay \in Nat
  BY <1>6, <1>7 DEF MinOf
<1>9. control' = [windowSize   |-> WindowAfter(control.windowSize, delay, control.lastMaxDelay),
                  baseDelay    |-> base,
                  queueDelay   |-> delay,
                  lastMaxDelay |-> delay]
  BY DEF HandleAck, UpdateRtt
<1>10. PICK b \in Nat, d \in Nat : b = base /\ d = delay
  BY <1>8
<1>11. control' = [windowSize   |-> WindowAfter(control.windowSize, d, control.lastMaxDelay),
                   baseDelay    |-> b,
                   queueDelay   |-> d,
                   lastMaxDelay |-> d]
  BY <1>9, <1>10
<1> HIDE DEF base, delay
<1>13. PICK k \in Nat \ {0} :
          /\ WindowAfter(control.windowSize, d, control.lastMaxDelay) = Fraction * k
          /\ CeilDiv(control.windowSize, Fraction) <= k
          /\ d <= TargetDelay * Unit => k <= CeilDiv(control.windowSize, Fraction) + 1
  BY <1>7, WindowGrows
<1>14. Fraction \in Nat \ {0} /\ MaxCongestionWindow \in Nat
  BY PacingConstants
<1>15. control' = [windowSize |-> Fraction * k, baseDelay |-> b, queueDelay |-> d,
                   lastMaxDelay |-> d]
  BY <1>11, <1>13
<1>16. Fraction * k <= MaxCongestionWindow * Fraction /\ Fraction * k \in Nat
  BY <1>14, <1>15 DEF HandleAck
<1>17. Exact(control'.windowSize)
  BY <1>15, <1>16, WholePacketsAreExact
<1>18. PacingTypeOK'
  <2>1. alive' \in BOOLEAN
    BY <1>1, Zenon DEF HandleAck, PacingTypeOK
  <2> QED
    BY <1>3, <1>15, <1>16, <2>1 DEF PacingTypeOK
<1>20. Packets' = k
  <2>1. Packets' = CeilDiv(Fraction * k, Fraction)
    BY <1>15 DEF Packets
  <2> QED
    BY <1>14, <2>1, CeilDivExact
<1>21. k <= MaxCongestionWindow
  <2>1. k * Fraction <= MaxCongestionWindow * Fraction
    BY <1>14, <1>16
  <2> QED
    BY <1>14, <2>1, TimesCancels
<1>22. Packets \in Nat /\ Packets <= k /\ (d <= TargetDelay * Unit => k <= Packets + 1)
  BY <1>7, <1>13, <1>14, CeilDivBounds DEF Packets
<1>23. PacingIInv'
  BY <1>5, <1>17, <1>18, Zenon DEF PacingIInv
<1>24. Packets' \in AfterUpdateRtt(Packets)
  BY <1>14, <1>20, <1>21, <1>22 DEF AfterUpdateRtt
<1>25. control'.queueDelay = d
  BY <1>15
<1> QED
  BY <1>20, <1>22, <1>23, <1>24, <1>25, Zenon

\* A packet given up.
LEMMA PacketLostEffect ==
    ASSUME PacingIInv, PacketLost
    PROVE  PacingIInv' /\ Packets' = AfterPacketLoss(Packets)
<1>1. PacingTypeOK /\ TrackerOK(tracker, SamplesMeasured) /\ Exact(control.windowSize)
  BY DEF PacingIInv
<1>2. /\ control' = [control EXCEPT !.windowSize = MaxOf(control.windowSize \div 2, Fraction)]
      /\ UNCHANGED <<tracker, alive, samples>>
  BY DEF PacketLost, OnPacketLoss
<1> DEFINE w == MaxOf(control.windowSize \div 2, Fraction)
<1>3. Exact(w) /\ CeilDiv(w, Fraction) = AfterPacketLoss(CeilDiv(control.windowSize, Fraction))
  BY <1>1, LossHalves
<1>4. w \in Nat
  <2> HIDE DEF w
  <2> QED
    BY <1>3 DEF Exact
<1>5. control' = [control EXCEPT !.windowSize = w]
  BY <1>2
<1> HIDE DEF w
<1>6. /\ control'.windowSize = w /\ control'.baseDelay = control.baseDelay
      /\ control' \in [windowSize : Nat, baseDelay : Nat, queueDelay : Nat, lastMaxDelay : Nat]
  BY <1>1, <1>4, <1>5 DEF PacingTypeOK
<1>7. SamplesMeasured' = SamplesMeasured
  BY <1>2 DEF SamplesMeasured
<1>8. PacingTypeOK'
  BY <1>1, <1>2, <1>6 DEF PacingTypeOK
<1>9. TrackerOK(tracker', SamplesMeasured')
  BY <1>1, <1>2, <1>7
<1>10. Exact(control'.windowSize)
  BY <1>3, <1>6
<1> QED
  BY <1>3, <1>6, <1>8, <1>9, <1>10, Zenon DEF PacingIInv, Packets

\* The reset of the connection.
LEMMA PacingResetKeeps ==
    ASSUME PacingIInv, PacingReset
    PROVE  PacingIInv'
<1>1. PacingTypeOK /\ TrackerOK(tracker, SamplesMeasured)
  BY DEF PacingIInv
<1>2. /\ control' = [windowSize |-> 1 * Fraction, baseDelay |-> NoDelay, queueDelay |-> 0,
                     lastMaxDelay |-> 0]
      /\ alive' = FALSE
      /\ UNCHANGED <<tracker, samples>>
  BY DEF PacingReset, NewControl
<1>3. /\ Fraction \in Nat \ {0} /\ MaxCongestionWindow \in Nat /\ 1 <= MaxCongestionWindow
      /\ 1 * Fraction = Fraction * 1
  BY PacingConstants
<1>4. Exact(1 * Fraction)
  <2>1. 1 * Fraction <= MaxCongestionWindow * Fraction
    BY <1>3, TimesMonotone
  <2>2. 1 \in Nat \ {0}
    OBVIOUS
  <2>3. Fraction * 1 <= MaxCongestionWindow * Fraction
    BY <1>3, <2>1
  <2>4. Exact(Fraction * 1)
    BY <2>2, <2>3, WholePacketsAreExact
  <2> QED
    BY <1>3, <2>4
<1>5. NoDelay \in Nat /\ 1 * Fraction \in Nat
  BY <1>3 DEF NoDelay
<1>6. PacingTypeOK'
  BY <1>1, <1>2, <1>5 DEF PacingTypeOK
<1>7. TrackerOK(tracker', SamplesMeasured')
  BY <1>1, <1>2 DEF SamplesMeasured
<1>8. Exact(control'.windowSize)
  BY <1>2, <1>4
<1> QED
  BY <1>6, <1>7, <1>8 DEF PacingIInv

LEMMA PacingIInvStep == PacingIInv /\ [PacingNext]_pacingVars => PacingIInv'
<1> SUFFICES ASSUME PacingIInv, [PacingNext]_pacingVars PROVE PacingIInv'
  OBVIOUS
<1>1. CASE \E delays \in SeqOf(Delays, MaxPerAck) : HandleAck(delays)
  BY <1>1, HandleAckEffect
<1>2. CASE PacketLost
  BY <1>2, PacketLostEffect
<1>3. CASE PacingReset
  BY <1>3, PacingResetKeeps
<1>4. CASE UNCHANGED pacingVars
  BY <1>4 DEF pacingVars, PacingIInv, PacingTypeOK, SamplesMeasured
<1> QED
  BY <1>1, <1>2, <1>3, <1>4 DEF PacingNext

-----------------------------------------------------------------------------
(* The theorems *)

\* The invariant of the two estimators: the estimate agrees with everything
\* measured, and the window is one that the model's fractions represent
\* without rounding.
THEOREM PacingInvariance == PacingSpec => []PacingIInv
<1>1. PacingInit => PacingIInv
  BY PacingIInvInit
<1>2. PacingIInv /\ [PacingNext]_pacingVars => PacingIInv'
  BY PacingIInvStep
<1> QED
  BY <1>1, <1>2, PTL DEF PacingSpec

\* However delays come, and however many one acknowledgement measures, the
\* round trip time of UtpRttTracker.update stays within the range of what has
\* been measured, and a timeout computed from it is at least MIN_RTO and covers
\* it; an estimate that sanityCheckRtt refuses leaves the timeout as it was.
THEOREM TimeoutAlwaysCovers == PacingSpec => []TimeoutCoversEstimate
<1>1. PacingIInv => TimeoutCoversEstimate
  <2> SUFFICES ASSUME PacingIInv PROVE TimeoutCoversEstimate
    OBVIOUS
  <2>1. samples \in Seq(Nat) /\ TrackerOK(tracker, SamplesMeasured)
    BY DEF PacingIInv, PacingTypeOK
  <2>2. SamplesMeasured = {Measured(d) : d \in Range(samples)}
    <3>1. DOMAIN samples = 1 .. Len(samples)
      BY <2>1
    <3>2. Range(samples) = {samples[n] : n \in 1 .. Len(samples)}
      BY <3>1, Zenon DEF Range
    <3> QED
      BY <3>2 DEF SamplesMeasured
  <2>3. samples # <<>> => SamplesMeasured # {}
    <3>1. samples # <<>> => 1 \in 1 .. Len(samples)
      BY <2>1
    <3> QED
      BY <3>1 DEF SamplesMeasured
  <2>4. /\ tracker.rto >= MinRto * Unit
        /\ tracker.rtt < MaxRto * Unit => tracker.rto >= tracker.rtt
        /\ SamplesMeasured # {} => /\ \E m \in SamplesMeasured : m <= tracker.rtt
                                   /\ \E m \in SamplesMeasured : tracker.rtt <= m
    BY <2>1, Zenon DEF TrackerOK
  <2> QED
    BY <2>2, <2>3, <2>4, Zenon DEF TimeoutCoversEstimate
<1> QED
  BY <1>1, PacingInvariance, PTL

\* What UtpSendWindow assumes of the congestion control, for every target,
\* precision and sequence of delays and losses: an acknowledgement never makes
\* the window of updateWindowSize smaller, and within the target delay adds one
\* packet at most; onPacketLoss halves it, rounded up.
THEOREM CongestionIsAsAssumed == PacingSpec => CongestionAsAssumed
<1> DEFINE A == /\ (\E delays \in SeqOf(Delays, MaxPerAck) : HandleAck(delays)) =>
                      /\ Packets' \in AfterUpdateRtt(Packets)
                      /\ control'.queueDelay <= TargetDelay * Unit => Packets' <= Packets + 1
                /\ PacketLost => Packets' = AfterPacketLoss(Packets)
<1>1. PacingIInv /\ [PacingNext]_pacingVars => [A]_pacingVars
  BY HandleAckEffect, PacketLostEffect, Zenon
<1> QED
  BY <1>1, PacingInvariance, PTL DEF PacingSpec, CongestionAsAssumed
=============================================================================
