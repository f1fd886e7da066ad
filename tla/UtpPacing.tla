------------------------------ MODULE UtpPacing ------------------------------
(***************************************************************************)
(* The two estimators behind the send window, as handleAck and resend()    *)
(* drive them: utp_rtt_tracker.ts turns the delays of acknowledged packets *)
(* into a round trip time and a retransmission timeout, and                *)
(* utp_congestion_control.ts turns the round trip time into a window.      *)
(*                                                                         *)
(* The code computes with floating point numbers.  Here a time is a whole  *)
(* number of 1/Unit ms and a window a whole number of 1/Fraction packets,  *)
(* fine enough to be exact within the bounds.                              *)
(***************************************************************************)
EXTENDS Integers, SequencesExt, CongestionWindow

CONSTANTS
    MinRto,         \* #MIN_RTO, 1000 ms
    MaxRto,         \* #MAX_RTO, 6000 ms: no round trip time may reach it
    TargetDelay,    \* #targetDelay, 100 ms
    InitialWindow,  \* the send window's #MIN_WINDOW_SIZE, 4
    Delays,         \* delays in ms that packets meet
    MaxSamples,     \* bound: packets measured
    MaxPerAck,      \* bound: packets measured by one ACK
    Unit,           \* times are in 1/Unit ms
    Fraction        \* windows are in 1/Fraction packets

ASSUME PacingAssumption ==
    /\ MinRto \in Nat /\ MaxRto \in Nat /\ TargetDelay \in Nat \ {0}
    /\ InitialWindow \in 1 .. MaxCongestionWindow
    /\ Delays \subseteq Nat
    /\ MaxSamples \in Nat \ {0} /\ MaxPerAck \in Nat
    /\ Unit \in Nat \ {0} /\ Unit % (8 ^ (MaxSamples - 1)) = 0 /\ Unit % 2 = 0
    \* A power of two: no odd number but 1 divides it.
    /\ Fraction \in Nat /\ \A h, e \in 1 .. Fraction : h * e = Fraction => h = 1 \/ h % 2 = 0
    /\ MaxCongestionWindow \in 1 .. Fraction

VARIABLES
    tracker,  \* UtpRttTracker: rtt, rttVar, baseDelay, rto
    control,  \* UtpCongestionControl: windowSize, baseDelay, queueDelay, lastMaxDelay
    alive,    \* the connection has not been reset
    samples   \* history: the delays measured

pacingVars == <<tracker, control, alive, samples>>

\* Number.MAX_SAFE_INTEGER stands for "no delay yet": more than any delay.
NoDelay == 1000000000

NewControl(windowSize) ==
    [windowSize |-> windowSize * Fraction, baseDelay |-> NoDelay, queueDelay |-> 0,
     lastMaxDelay |-> 0]

PacingInit ==
    /\ tracker = [rtt |-> 0, rttVar |-> 0, baseDelay |-> 0, rto |-> MinRto * Unit]
    /\ control = NewControl(InitialWindow)
    /\ alive = TRUE
    /\ samples = <<>>

-----------------------------------------------------------------------------
(* UtpRttTracker.update *)

Distance(a, b) == IF a < b THEN b - a ELSE a - b

\* At least 1 ms: the clock has no finer resolution, and 0 means no sample.
Measured(delay) == MaxOf(delay, 1) * Unit

\* The new sample replaces a quarter of the estimate.
SmoothedRttHeavy(rtt, ertt) == IF rtt = 0 THEN ertt ELSE (rtt * 7) \div 8 + ertt \div 4

SmoothedRtt(rtt, ertt) == IF rtt = 0 THEN ertt ELSE (rtt * 7 + ertt) \div 8

SmoothedVar(rtt, rttVar, ertt) ==
    IF rtt = 0 THEN ertt \div 2 ELSE (3 * rttVar + Distance(rtt, ertt)) \div 4

\* sanityCheckRtt throws after rtt and rttVar have been set, and update() ends
\* there: the base delay and the timeout keep their values.
UpdateTracker(t, delay) ==
    LET ertt    == Measured(delay)
        sampled == [t EXCEPT !.rtt = SmoothedRtt(t.rtt, ertt),
                             !.rttVar = SmoothedVar(t.rtt, t.rttVar, ertt)]
    IN  IF sampled.rtt >= MaxRto * Unit THEN sampled
        ELSE [sampled EXCEPT
                !.baseDelay = IF @ = 0 \/ sampled.rtt < @ THEN sampled.rtt ELSE @,
                !.rto = MaxOf(sampled.rtt + 4 * sampled.rttVar, MinRto * Unit)]

\* The delays of the packets one ACK acknowledges, one after the other.
AfterSamples(t, delays) ==
    LET after[n \in 0 .. Len(delays)] ==
            IF n = 0 THEN t ELSE UpdateTracker(after[n - 1], delays[n])
    IN  after[Len(delays)]

-----------------------------------------------------------------------------
(* UtpCongestionControl *)

CeilDiv(a, b) == (a + b - 1) \div b

\* The window is rounded down: what a loss has left of a packet is cut off.
WindowAfterFloored(w, delay, lastMax) ==
    LET target == TargetDelay * Unit
        scaled == IF delay <= target THEN w * target + (target - delay) * Fraction
                  ELSE IF delay > lastMax THEN w * delay ELSE w * target
    IN  Fraction * MaxOf(1, scaled \div (target * Fraction))

\* updateWindowSize, the gain being 1: up to the target the window grows by
\* (target - delay) / target; beyond it, if the delay has grown, it is
\* multiplied by 1 - (target - delay) / target, that is by delay / target.
WindowAfter(w, delay, lastMax) ==
    LET target == TargetDelay * Unit
        scaled == IF delay <= target THEN w * target + (target - delay) * Fraction
                  ELSE IF delay > lastMax THEN w * delay ELSE w * target
    IN  Fraction * MaxOf(1, CeilDiv(scaled, target * Fraction))

UpdateRtt(c, rtt) ==
    LET base  == MinOf(c.baseDelay, rtt)
        delay == rtt - base
    IN  [windowSize   |-> WindowAfter(c.windowSize, delay, c.lastMaxDelay),
         baseDelay    |-> base,
         queueDelay   |-> delay,
         lastMaxDelay |-> delay]

OnPacketLoss(c) == [c EXCEPT !.windowSize = MaxOf(@ \div 2, Fraction)]

-----------------------------------------------------------------------------
\* handleAck: every packet it acknowledges that was sent once is a sample, then
\* the window follows the estimate, whether or not there has been a sample.
HandleAck(delays) ==
    /\ alive
    /\ Len(samples) + Len(delays) <= MaxSamples
    /\ tracker' = AfterSamples(tracker, delays)
    /\ control' = UpdateRtt(control, tracker'.rtt)
    /\ control'.windowSize <= MaxCongestionWindow * Fraction
    /\ samples' = samples \o delays
    /\ UNCHANGED alive

\* resend() gives up on a packet.
PacketLost ==
    /\ alive
    /\ control' = OnPacketLoss(control)
    /\ UNCHANGED <<tracker, alive, samples>>

\* reset() starts the congestion control again with a window of 1, and leaves
\* the tracker as it is.
PacingReset ==
    /\ alive
    /\ control' = NewControl(1)
    /\ alive' = FALSE
    /\ UNCHANGED <<tracker, samples>>

PacingNext ==
    \/ \E delays \in SeqOf(Delays, MaxPerAck) : HandleAck(delays)
    \/ PacketLost
    \/ PacingReset

PacingSpec == PacingInit /\ [][PacingNext]_pacingVars

-----------------------------------------------------------------------------
(* Properties *)

\* The window in whole packets, as the send window's capacity reads it.
Packets == CeilDiv(control.windowSize, Fraction)

\* The congestion window changes as the send window assumes it does: no
\* acknowledgement makes it smaller, also after several halvings and with a
\* growing delay, it grows by one packet at most while the delay is within the
\* target, and a loss halves it, rounded up.
CongestionAsAssumed ==
    [][/\ (\E delays \in SeqOf(Delays, MaxPerAck) : HandleAck(delays)) =>
              /\ Packets' \in AfterUpdateRtt(Packets)
              /\ control'.queueDelay <= TargetDelay * Unit => Packets' <= Packets + 1
       /\ PacketLost => Packets' = AfterPacketLoss(Packets)]_pacingVars

\* The round trip time stays within the range of the delays measured, and the
\* timeout, at least MIN_RTO, is never shorter than it, unless the estimate was
\* refused: then the timeout is the one of an earlier estimate.
TimeoutCoversEstimate ==
    /\ tracker.rto >= MinRto * Unit
    /\ tracker.rtt < MaxRto * Unit => tracker.rto >= tracker.rtt
    /\ samples # <<>> =>
          LET measured == {Measured(d) : d \in Range(samples)}
          IN  /\ \E m \in measured : m <= tracker.rtt
              /\ \E m \in measured : tracker.rtt <= m
=============================================================================
