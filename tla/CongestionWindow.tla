--------------------------- MODULE CongestionWindow ---------------------------
(***************************************************************************)
(* What the send window relies on of utp_congestion_control.ts: how an     *)
(* acknowledgement and a loss change the congestion window, in whole       *)
(* packets.  UtpSendWindow uses it, UtpPacing shows that the code's        *)
(* arithmetic on measured delays stays within it.                          *)
(***************************************************************************)
EXTENDS Naturals

CONSTANT MaxCongestionWindow  \* bound: the window is not followed beyond it

MaxOf(a, b) == IF a < b THEN b ELSE a
MinOf(a, b) == IF a < b THEN a ELSE b

\* updateRtt: neither branch of updateWindowSize makes the window smaller, and
\* how far it grows depends on the measured delays.
AfterUpdateRtt(cc) == cc .. MaxCongestionWindow

\* onPacketLoss: half the window, at least 1.  The code keeps the fraction;
\* only `size < capacity` reads it, which rounds up.
AfterPacketLoss(cc) == MaxOf(1, (cc + 1) \div 2)
=============================================================================
