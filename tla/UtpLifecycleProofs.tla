-------------------------- MODULE UtpLifecycleProofs --------------------------
(***************************************************************************)
(* The end of a connection, for every resend limit and every fill of the   *)
(* send window: however the receive loop, the two timers and the           *)
(* application, its reset() included, interleave at their awaits, one FIN  *)
(* is sent, the table and the state agree but for a connection revived in  *)
(* the gap of the FIN branch, and what has ended outside that gap stays    *)
(* ended.                                                                  *)
(***************************************************************************)
EXTENDS UtpLifecycle, TLAPS

\* #localFinPacket tells exactly whether the FIN was sent, and every path into
\* CS_CLOSE_WAIT sets it.
FinOK ==
    /\ finsSent = IF localFin THEN 1 ELSE 0
    /\ localState = "CONNECTED" => ~localFin
    /\ localState = "CLOSE_WAIT" => localFin

\* Nothing closes a connection in the gap of its FIN branch, because the timers do
\* not run, and that gap is entered once.
GapOK == rx = "finQueued" => localState # "CLOSED" /\ ~revived

\* The inductive invariant.
LifecycleInv == LifecycleTypeOK /\ TableMatchesState /\ FinOK /\ GapOK

\* The invariant holds of a freshly connected connection.
LEMMA LifecycleInitOK == LifecycleInit => LifecycleInv
<1> SUFFICES ASSUME LifecycleInit PROVE LifecycleInv
  OBVIOUS
<1>1. LifecycleTypeOK
  <2>1. 0 \in 0 .. MaxUnacked /\ 0 \in 0 .. ResendTimesLimit /\ 0 \in Nat
    BY LifecycleAssumption
  <2> QED
    BY <2>1, Zenon DEF LifecycleInit, LifecycleTypeOK
<1>2. TableMatchesState
  BY Zenon DEF LifecycleInit, TableMatchesState
<1>3. FinOK
  BY DEF LifecycleInit, FinOK
<1>4. GapOK
  BY DEF LifecycleInit, GapOK
<1> QED
  BY <1>1, <1>2, <1>3, <1>4 DEF LifecycleInv

\* drain() keeps the types of the buffer.
LEMMA DrainOK ==
    ASSUME LifecycleInv, Drain
    PROVE  drained' \in BOOLEAN /\ buffered' \in BOOLEAN /\ pendingRead' \in BOOLEAN
BY DEF LifecycleInv, LifecycleTypeOK, Drain

\* forceClose() closes, removes and drains.
LEMMA ForceCloseOK ==
    ASSUME LifecycleInv, ForceClose
    PROVE  /\ drained' \in BOOLEAN /\ buffered' \in BOOLEAN /\ pendingRead' \in BOOLEAN
           /\ localState' = "CLOSED" /\ inTable' = FALSE
BY DrainOK DEF ForceClose

\* trySafeRelease() in CS_CLOSE_WAIT never sends a second FIN, and either leaves
\* the connection as it is or takes it out of the table.
LEMMA TrySafeReleaseOK ==
    ASSUME LifecycleInv, localState = "CLOSE_WAIT", NEW n, TrySafeRelease(n)
    PROVE  /\ drained' \in BOOLEAN /\ buffered' \in BOOLEAN /\ pendingRead' \in BOOLEAN
           /\ UNCHANGED finVars
           /\ \/ localState' = "CLOSE_WAIT" /\ inTable' = inTable
              \/ localState' = "CLOSED" /\ inTable' = FALSE
<1>1. localFin
  BY DEF LifecycleInv, FinOK
<1>2. CASE closeTime = "expired" \/ (remoteFin /\ n = 0)
  BY <1>2, ForceCloseOK DEF TrySafeRelease
<1>3. CASE ~(closeTime = "expired" \/ (remoteFin /\ n = 0))
  <2>1. UNCHANGED <<bufferVars, finVars>>
    BY <1>1, <1>3 DEF TrySafeRelease
  <2>2. \/ localState' = "CLOSE_WAIT" /\ inTable' = inTable
        \/ localState' = "CLOSED" /\ inTable' = FALSE
    BY <1>1, <1>3 DEF TrySafeRelease
  <2> QED
    BY <2>1, <2>2 DEF LifecycleInv, LifecycleTypeOK, bufferVars
<1> QED
  BY <1>2, <1>3

\* What a step does that releases the connection or leaves it in CS_CLOSE_WAIT.
LEMMA ReleaseKeepsInv ==
    ASSUME LifecycleInv, localState = "CLOSE_WAIT", UNCHANGED finVars, revived' = revived,
           \/ localState' = "CLOSE_WAIT" /\ inTable' = inTable
           \/ localState' = "CLOSED" /\ inTable' = FALSE
    PROVE  /\ TableMatchesState' /\ FinOK'
           /\ localState' \in {"CONNECTED", "CLOSE_WAIT", "CLOSED", "RESET"}
           /\ inTable' \in BOOLEAN /\ remoteFin' \in BOOLEAN /\ localFin' \in BOOLEAN
           /\ finsSent' \in Nat /\ revived' \in BOOLEAN
<1>1. FinOK' /\ localState' \in {"CONNECTED", "CLOSE_WAIT", "CLOSED", "RESET"}
  BY DEF LifecycleInv, FinOK, finVars
<1>2. /\ inTable' \in BOOLEAN /\ remoteFin' \in BOOLEAN /\ localFin' \in BOOLEAN
      /\ finsSent' \in Nat /\ revived' \in BOOLEAN
  BY DEF LifecycleInv, LifecycleTypeOK, finVars
<1>3. TableMatchesState'
  <2>1. CASE revived
    BY <2>1 DEF LifecycleInv, TableMatchesState
  <2>2. CASE ~revived
    BY <1>2, <2>2 DEF LifecycleInv, LifecycleTypeOK, TableMatchesState
  <2> QED
    BY <2>1, <2>2
<1> QED
  BY <1>1, <1>2, <1>3

\* The end of the FIN branch.
LEMMA FinishFinOK ==
    ASSUME LifecycleInv, FinishFin
    PROVE  /\ drained' \in BOOLEAN /\ buffered' \in BOOLEAN /\ pendingRead' \in BOOLEAN
           /\ rx' \in {"idle", "ackSend"}
           /\ \/ localState' = "CLOSE_WAIT" /\ inTable' = inTable
              \/ localState' = "CLOSED" /\ inTable' = FALSE
<1>1. CASE closeTime = "expired" \/ unacked = 0
  BY <1>1, ForceCloseOK DEF FinishFin
<1>2. CASE ~(closeTime = "expired" \/ unacked = 0)
  BY <1>2, DrainOK DEF FinishFin
<1> QED
  BY <1>1, <1>2

\* reset(), whoever calls it.
LEMMA ResetOK ==
    ASSUME LifecycleInv, Reset
    PROVE  LifecycleInv'
<1>1. LifecycleTypeOK'
  <2>1. unacked' \in 0 .. MaxUnacked /\ resends' \in 0 .. ResendTimesLimit
    <3>1. unacked \in 0 .. MaxUnacked
      BY DEF LifecycleInv, LifecycleTypeOK
    <3>2. unacked' \in IF unacked = 0 THEN {0} ELSE 0 .. unacked - 1
      BY DEF Reset
    <3>3. unacked' \in 0 .. MaxUnacked
      <4>1. CASE unacked = 0
        BY <3>1, <3>2, <4>1
      <4>2. CASE unacked # 0
        <5>1. unacked' \in 0 .. unacked - 1
          BY <3>2, <4>2
        <5> QED
          BY <3>1, <5>1, LifecycleAssumption
      <4> QED
        BY <4>1, <4>2
    <3> QED
      BY <3>3, LifecycleAssumption DEF Reset
  <2>2. localState' \in {"CONNECTED", "CLOSE_WAIT", "CLOSED", "RESET"}
    BY DEF Reset
  <2>3. inTable' \in BOOLEAN /\ remoteFin' \in BOOLEAN
    BY Zenon DEF Reset
  <2> QED
    BY <2>1, <2>2, <2>3 DEF Reset, LifecycleInv, LifecycleTypeOK, bufferVars
<1>2. TableMatchesState'
  BY DEF Reset, LifecycleInv, TableMatchesState
<1>3. FinOK' /\ GapOK'
  BY DEF Reset, LifecycleInv, FinOK, GapOK
<1> QED
  BY <1>1, <1>2, <1>3 DEF LifecycleInv

\* Every step preserves the invariant.
LEMMA LifecycleNextOK ==
    ASSUME LifecycleInv, [LifecycleNext]_lifeVars
    PROVE  LifecycleInv'
<1> USE DEF windowVars, bufferVars, finVars
<1>1. CASE ReceiveData
  <2>1. buffered' \in BOOLEAN /\ pendingRead' \in BOOLEAN
    <3>1. CASE UNCHANGED <<buffered, pendingRead>>
      BY <3>1 DEF LifecycleInv, LifecycleTypeOK
    <3>2. CASE buffered' \in (IF pendingRead THEN BOOLEAN ELSE {TRUE}) /\ pendingRead' = FALSE
      BY <3>2, Zenon
    <3> QED
      BY <1>1, <3>1, <3>2 DEF ReceiveData
  <2>2. LifecycleTypeOK'
    BY <1>1, <2>1 DEF ReceiveData, LifecycleInv, LifecycleTypeOK
  <2>3. TableMatchesState' /\ FinOK' /\ GapOK'
    BY <1>1 DEF ReceiveData, LifecycleInv, TableMatchesState, FinOK, GapOK
  <2> QED
    BY <2>2, <2>3 DEF LifecycleInv
<1>2. CASE ReceiveAck
  BY <1>2, LifecycleAssumption
     DEF ReceiveAck, LifecycleInv, LifecycleTypeOK, TableMatchesState, FinOK, GapOK
<1>3. CASE ReceiveFin
  <2>1. TableMatchesState'
    BY <1>3 DEF ReceiveFin, LifecycleInv, LifecycleTypeOK, TableMatchesState, GapOK, FinOK
  <2>2. revived' \in BOOLEAN /\ remoteFin' \in BOOLEAN
    BY <1>3, Zenon DEF ReceiveFin
  <2>3. FinOK' /\ GapOK'
    BY <1>3 DEF ReceiveFin, LifecycleInv, FinOK, GapOK
  <2>4. LifecycleTypeOK'
    BY <1>3, <2>2 DEF ReceiveFin, LifecycleInv, LifecycleTypeOK
  <2> QED
    BY <2>1, <2>3, <2>4 DEF LifecycleInv
<1>4. CASE FinAnswered
  <2>1. FinishFin /\ localState = "CLOSE_WAIT" /\ UNCHANGED <<finVars, revived>>
    BY <1>4 DEF FinAnswered
  <2>2. GapOK'
    BY <2>1, FinishFinOK DEF GapOK
  <2> QED
    BY <1>4, <2>1, <2>2, FinishFinOK, ReleaseKeepsInv
       DEF FinAnswered, LifecycleInv, LifecycleTypeOK
<1>5. CASE FinAnsweredTooLate
  BY <1>5, DrainOK
     DEF FinAnsweredTooLate, LifecycleInv, LifecycleTypeOK, TableMatchesState, FinOK, GapOK
<1>6. CASE AckSent
  BY <1>6 DEF AckSent, LifecycleInv, LifecycleTypeOK, TableMatchesState, FinOK, GapOK
<1>7. CASE ReceiveReset \/ AppReset
  BY <1>7, ResetOK DEF ReceiveReset, AppReset
<1>8. CASE TimerResends
  BY <1>8, LifecycleAssumption
     DEF TimerResends, LifecycleInv, LifecycleTypeOK, TableMatchesState, FinOK, GapOK
<1>9. CASE TimerGivesUp
  <2>1. unacked' \in 0 .. MaxUnacked /\ resends' \in 0 .. ResendTimesLimit
    BY <1>9, LifecycleAssumption DEF TimerGivesUp, LifecycleInv, LifecycleTypeOK
  <2>2. GapOK'
    BY <1>9 DEF TimerGivesUp, TimersMayRun, GapOK
  <2>3. CASE localState = "CLOSE_WAIT"
    <3>1. TrySafeRelease(unacked - 1)
      BY <1>9, <2>3 DEF TimerGivesUp
    <3> QED
      BY <1>9, <2>1, <2>2, <2>3, <3>1, TrySafeReleaseOK, ReleaseKeepsInv
         DEF TimerGivesUp, LifecycleInv, LifecycleTypeOK
  <2>4. CASE localState # "CLOSE_WAIT"
    BY <1>9, <2>1, <2>2, <2>4
       DEF TimerGivesUp, LifecycleInv, LifecycleTypeOK, TableMatchesState, FinOK
  <2> QED
    BY <2>3, <2>4
<1>10. CASE TimerReleases
  BY <1>10, TrySafeReleaseOK, ReleaseKeepsInv
     DEF TimerReleases, TimersMayRun, LifecycleInv, LifecycleTypeOK, GapOK
<1>11. CASE TimerResumes
  BY <1>11, TrySafeReleaseOK, ReleaseKeepsInv
     DEF TimerResumes, TimersMayRun, LifecycleInv, LifecycleTypeOK, GapOK
<1>12. CASE TimerResumesTooLate
  BY <1>12 DEF TimerResumesTooLate, LifecycleInv, LifecycleTypeOK, TableMatchesState, FinOK, GapOK
<1>13. CASE AppRead
  <2>1. pendingRead' \in BOOLEAN /\ buffered' \in BOOLEAN
    BY <1>13, Zenon DEF AppRead, LifecycleInv, LifecycleTypeOK
  <2>2. LifecycleTypeOK'
    BY <1>13, <2>1 DEF AppRead, LifecycleInv, LifecycleTypeOK
  <2>3. TableMatchesState' /\ FinOK' /\ GapOK'
    BY <1>13 DEF AppRead, LifecycleInv, TableMatchesState, FinOK, GapOK
  <2> QED
    BY <2>2, <2>3 DEF LifecycleInv
<1>14. CASE AppWrite
  BY <1>14, LifecycleAssumption
     DEF AppWrite, LifecycleInv, LifecycleTypeOK, TableMatchesState, FinOK, GapOK
<1>15. CASE AppClose
  BY <1>15 DEF AppClose, LifecycleInv, LifecycleTypeOK, TableMatchesState, FinOK, GapOK
<1>16. CASE AppCloseAgain \/ CloseFinSent \/ CloseTimeExpires
  BY <1>16 DEF AppCloseAgain, CloseFinSent, CloseTimeExpires, LifecycleInv, LifecycleTypeOK,
               TableMatchesState, FinOK, GapOK
<1>17. CASE CloseTick
  <2>0. GapOK'
    BY <1>17 DEF CloseTick, TimersMayRun, GapOK
  <2>1. CASE localState = "CLOSED" /\ closer' = "done" /\ UNCHANGED <<localState, inTable, finVars, bufferVars>>
    BY <1>17, <2>0, <2>1 DEF CloseTick, LifecycleInv, LifecycleTypeOK, TableMatchesState, FinOK
  <2>2. CASE /\ ForceClose
             /\ closer' = "done"
             /\ UNCHANGED finVars
    BY <1>17, <2>0, <2>2, ForceCloseOK
       DEF CloseTick, LifecycleInv, LifecycleTypeOK, TableMatchesState, FinOK
  <2>3. CASE /\ localState = "CLOSE_WAIT"
             /\ TrySafeRelease(unacked)
             /\ closer' = IF localState' = "CLOSED" THEN "done" ELSE "polling"
    BY <1>17, <2>0, <2>3, TrySafeReleaseOK, ReleaseKeepsInv
       DEF CloseTick, LifecycleInv, LifecycleTypeOK
  <2> QED
    BY <1>17, <2>1, <2>2, <2>3 DEF CloseTick
<1>18. CASE FinArrives
  BY <1>18 DEF FinArrives, LifecycleInv, LifecycleTypeOK, TableMatchesState, FinOK, GapOK
<1>19. CASE ReceiveFinWhileClosing
  <2>1. FinishFin /\ localFin /\ UNCHANGED <<localFin, finsSent>>
    BY <1>19 DEF ReceiveFinWhileClosing
  <2>2. /\ rx' \in {"idle", "ackSend"}
        /\ drained' \in BOOLEAN /\ buffered' \in BOOLEAN /\ pendingRead' \in BOOLEAN
    BY <2>1, FinishFinOK
  <2>3. \/ localState' = "CLOSE_WAIT" /\ inTable' = inTable
        \/ localState' = "CLOSED" /\ inTable' = FALSE
    BY <2>1, FinishFinOK
  <2>4. inTable' \in BOOLEAN /\ FinOK' /\ GapOK'
    BY <2>1, <2>2, <2>3 DEF LifecycleInv, LifecycleTypeOK, FinOK, GapOK
  <2>5. revived' = (localState = "RESET")
    BY <1>19 DEF ReceiveFinWhileClosing
  <2>6. localState \in {"CLOSE_WAIT", "RESET"}
    BY <1>19 DEF ReceiveFinWhileClosing, LifecycleInv, LifecycleTypeOK, FinOK, GapOK
  <2>7. IF localState = "RESET" THEN ~inTable ELSE inTable
    BY <1>19, <2>6 DEF ReceiveFinWhileClosing, LifecycleInv, TableMatchesState, GapOK
  <2>8. TableMatchesState'
    <3>1. CASE localState = "RESET"
      BY <2>3, <2>4, <2>5, <2>7, <3>1 DEF TableMatchesState, LifecycleInv, LifecycleTypeOK
    <3>2. CASE localState # "RESET"
      BY <2>3, <2>4, <2>5, <2>7, <3>2 DEF TableMatchesState, LifecycleInv, LifecycleTypeOK
    <3> QED
      BY <3>1, <3>2
  <2>9. remoteFin' \in BOOLEAN /\ revived' \in BOOLEAN
    BY <1>19, Zenon DEF ReceiveFinWhileClosing
  <2>10. LifecycleTypeOK'
    BY <1>19, <2>1, <2>2, <2>3, <2>4, <2>9
       DEF ReceiveFinWhileClosing, LifecycleInv, LifecycleTypeOK
  <2> QED
    BY <2>4, <2>8, <2>10 DEF LifecycleInv
<1>20. CASE UNCHANGED lifeVars
  BY <1>20 DEF lifeVars, LifecycleInv, LifecycleTypeOK, TableMatchesState, FinOK, GapOK
<1> QED
  BY <1>1, <1>2, <1>3, <1>4, <1>5, <1>6, <1>7, <1>8, <1>9, <1>10, <1>11, <1>12, <1>13,
     <1>14, <1>15, <1>16, <1>17, <1>18, <1>19, <1>20 DEF LifecycleNext

-----------------------------------------------------------------------------
(* Theorems *)

\* The invariant holds in every interleaving of the four activities, with reset()
\* called by a packet or by the application at any point.
THEOREM LifecycleInvariance == LifecycleSpec => []LifecycleInv
<1>1. LifecycleInv /\ [LifecycleNext]_lifeVars => LifecycleInv'
  BY LifecycleNextOK
<1> QED
  BY <1>1, LifecycleInitOK, PTL DEF LifecycleSpec

\* The connection's state keeps its types.
THEOREM LifecycleTypeCorrect == LifecycleSpec => []LifecycleTypeOK
<1>1. LifecycleInv => LifecycleTypeOK
  BY DEF LifecycleInv
<1> QED
  BY <1>1, LifecycleInvariance, PTL

\* The socket's table holds the connection exactly while it is neither closed nor
\* reset, and never holds one that line 339 has revived.
THEOREM TableAgrees == LifecycleSpec => []TableMatchesState
<1>1. LifecycleInv => TableMatchesState
  BY DEF LifecycleInv
<1> QED
  BY <1>1, LifecycleInvariance, PTL

\* close(), the peer's FIN and the timers send one FIN between them.
THEOREM SingleFin == LifecycleSpec => []OneFin
<1>1. LifecycleInv => OneFin
  BY DEF LifecycleInv, FinOK, OneFin
<1> QED
  BY <1>1, LifecycleInvariance, PTL

\* What has ended stays ended, outside the gap of the FIN branch, and CS_CLOSED is
\* left for CS_RESET only: no activity that resumes after an await undoes either.
THEOREM EndIsFinal == LifecycleSpec => EndedStaysEnded
<1> DEFINE Ended == localState = "CLOSED" \/ (localState = "RESET" /\ rx # "finQueued")
           Final == Ended => localState' \in {"CLOSED", "RESET"}
<1>1. ASSUME LifecycleInv, [LifecycleNext]_lifeVars
      PROVE  [Final]_lifeVars
  <2>1. SUFFICES ASSUME Ended
                 PROVE  localState' \in {"CLOSED", "RESET"}
    OBVIOUS
  <2>2. ~inTable /\ rx # "finQueued"
    BY <1>1, <2>1 DEF LifecycleInv, TableMatchesState, GapOK
  <2> QED
    BY <1>1, <2>1, <2>2
       DEF LifecycleNext, ReceiveData, ReceiveAck, FinArrives, ReceiveFin,
           ReceiveFinWhileClosing, FinAnswered, FinAnsweredTooLate, AckSent, ReceiveReset,
           AppReset, Reset, TimerResends, TimerGivesUp, TimerReleases, TimerResumes,
           TimerResumesTooLate, AppRead, AppWrite, AppClose, AppCloseAgain, CloseFinSent,
           CloseTick, CloseTimeExpires, ForceClose, lifeVars
<1> QED
  BY <1>1, LifecycleInvariance, PTL DEF LifecycleSpec, EndedStaysEnded
=============================================================================
