----------------------------- MODULE UtpLifecycle -----------------------------
(***************************************************************************)
(* How a connection of utp_conn.ts ends.  Four asynchronous activities     *)
(* share its state and interleave wherever one of them awaits a UDP send:  *)
(* the socket's receive loop (FIN, RST, ACK and DATA packets), the         *)
(* socket's 300 ms timer, the application's close() with its own 100 ms    *)
(* timer, and the application's read(), write() and reset().  What runs    *)
(* between two awaits is one step.  The send window is abstracted to the   *)
(* number of packets in it and waiting for it, which is 0 exactly when it  *)
(* is empty (UtpSendWindow has the rest), the receive buffer to whether it *)
(* holds data.                                                             *)
(***************************************************************************)
EXTENDS Naturals

CONSTANTS
    ResendTimesLimit,  \* #RESEND_TIMES_LIMIT
    MaxUnacked         \* bound: packets in the send window or waiting for it

ASSUME LifecycleAssumption == ResendTimesLimit \in Nat /\ MaxUnacked \in Nat

VARIABLES
    localState,   \* _localState, from CS_CONNECTED on
    inTable,      \* the connection is in the socket's #connTable
    remoteFin,    \* #remoteFinPacket is set
    localFin,     \* #localFinPacket is set
    finsSent,     \* history: FIN packets sent
    closeTime,    \* closeStartTime: "unset", "running", or "expired" after 10 s
    unacked,      \* packets in the send window or waiting for room in it
    resends,      \* times the oldest of them has been resent
    buffered,     \* the receive buffer holds data
    drained,      \* the receive buffer's closedForWriting
    pendingRead,  \* a read() waits for data
    rx,           \* receive loop: "idle", "finQueued" (awaiting the processing of
                  \* a FIN), "finSend" or "ackSend" (awaiting that send), "dead"
                  \* (left by an exception)
    timer,        \* the 300 ms timer: "idle", "resending" (awaiting a send),
                  \* "failed" (rejected, with nobody to catch it)
    closer,       \* close(): "none", "sending" (awaiting the FIN's send),
                  \* "polling" (its 100 ms timer runs), "done"
    revived       \* history: the FIN branch took the connection out of CS_RESET

lifeVars == <<localState, inTable, remoteFin, localFin, finsSent, closeTime, unacked,
              resends, buffered, drained, pendingRead, rx, timer, closer, revived>>
windowVars == <<unacked, resends>>
bufferVars == <<buffered, drained, pendingRead>>
finVars == <<remoteFin, localFin, finsSent>>

LifecycleTypeOK ==
    /\ localState \in {"CONNECTED", "CLOSE_WAIT", "CLOSED", "RESET"}
    /\ inTable \in BOOLEAN /\ remoteFin \in BOOLEAN /\ localFin \in BOOLEAN
    /\ finsSent \in Nat
    /\ closeTime \in {"unset", "running", "expired"}
    /\ unacked \in 0 .. MaxUnacked
    /\ resends \in 0 .. ResendTimesLimit
    /\ buffered \in BOOLEAN /\ drained \in BOOLEAN /\ pendingRead \in BOOLEAN
    /\ rx \in {"idle", "finQueued", "finSend", "ackSend", "dead"}
    /\ timer \in {"idle", "resending", "failed"}
    /\ closer \in {"none", "sending", "polling", "done"}
    /\ revived \in BOOLEAN

LifecycleInit ==
    /\ localState = "CONNECTED"
    /\ inTable = TRUE
    /\ remoteFin = FALSE /\ localFin = FALSE
    /\ finsSent = 0
    /\ closeTime = "unset"
    /\ unacked = 0 /\ resends = 0
    /\ buffered = FALSE /\ drained = FALSE /\ pendingRead = FALSE
    /\ rx = "idle" /\ timer = "idle" /\ closer = "none"
    /\ revived = FALSE

-----------------------------------------------------------------------------
(* Ways to close *)

\* drain(): a reader that waits on an empty buffer gets EOF.
Drain ==
    /\ drained' = TRUE
    /\ pendingRead' = (pendingRead /\ (drained \/ buffered))
    /\ UNCHANGED buffered

\* forceClose() leaves the connection in the table.
ForceCloseInTable ==
    /\ Drain
    /\ inTable' = inTable
    /\ localState' = "CLOSED"

ForceClose ==
    /\ Drain
    /\ inTable' = FALSE
    /\ localState' = "CLOSED"

\* The FIN is sent whether or not it was sent before.
TrySafeReleaseSendingFin(n) ==
    IF closeTime = "expired" \/ (remoteFin /\ n = 0)
    THEN ForceClose /\ UNCHANGED finVars
    ELSE /\ localFin' = TRUE
         /\ finsSent' = finsSent + 1
         /\ UNCHANGED <<localState, inTable, bufferVars, remoteFin>>

\* What trySafeRelease() does in CS_CLOSE_WAIT with n packets in the window.
TrySafeRelease(n) ==
    IF closeTime = "expired" \/ (remoteFin /\ n = 0)
    THEN ForceClose /\ UNCHANGED finVars
    ELSE IF n > 0
    THEN UNCHANGED <<localState, inTable, bufferVars, finVars>>
    ELSE IF ~remoteFin /\ ~localFin
    THEN /\ localFin' = TRUE
         /\ finsSent' = finsSent + 1
         /\ UNCHANGED <<localState, inTable, bufferVars, remoteFin>>
    ELSE /\ inTable' = FALSE
         /\ localState' = "CLOSED"
         /\ UNCHANGED <<bufferVars, finVars>>

-----------------------------------------------------------------------------
(* The receive loop: one packet at a time *)

\* DATA in CS_CONNECTED: kept in the receive queue if it is out of order, else
\* into the buffer, where a waiting reader takes all or part of it; then an ACK.
ReceiveData ==
    /\ rx = "idle" /\ inTable /\ localState = "CONNECTED"
    /\ \/ UNCHANGED <<buffered, pendingRead>>
       \/ /\ buffered' \in IF pendingRead THEN BOOLEAN ELSE {TRUE}
          /\ pendingRead' = FALSE
    /\ rx' = "ackSend"
    /\ UNCHANGED <<localState, inTable, finVars, closeTime, windowVars, drained, timer, closer, revived>>

\* An ACK takes packets out of the send window, the oldest among them or not.
ReceiveAck ==
    /\ rx = "idle" /\ inTable /\ unacked > 0
    /\ unacked' \in 0 .. unacked - 1
    /\ resends' \in IF unacked' = 0 THEN {0} ELSE {0, resends}
    /\ UNCHANGED <<localState, inTable, finVars, closeTime, bufferVars, rx, timer, closer, revived>>

\* FIN in CS_CONNECTED is queued and processed first.  That awaits nothing but
\* microtasks: the application may run before it goes on, the timers may not.
FinArrives ==
    /\ rx = "idle" /\ inTable /\ localState = "CONNECTED"
    /\ rx' = "finQueued"
    /\ UNCHANGED <<localState, inTable, finVars, closeTime, windowVars, bufferVars, timer, closer, revived>>

TimersMayRun == rx # "finQueued"

\* The FIN branch, up to the send of the local FIN.  It enters CS_CLOSE_WAIT
\* whatever the state has become in the gap: the application may have called
\* close() or reset() there.
ReceiveFin ==
    /\ rx = "finQueued" /\ ~localFin
    /\ remoteFin' = TRUE
    /\ localState' = "CLOSE_WAIT"
    /\ revived' = (localState = "RESET")
    /\ localFin' = TRUE
    /\ finsSent' = finsSent + 1
    /\ rx' = "finSend"
    /\ UNCHANGED <<inTable, closeTime, windowVars, bufferVars, timer, closer>>

\* The end of the FIN branch: drain(), trySafeRelease() with the remote FIN
\* received, and an ACK unless the connection is closed by then.
FinishFin ==
    IF closeTime = "expired" \/ unacked = 0
    THEN ForceClose /\ rx' = "idle"
    ELSE Drain /\ rx' = "ackSend" /\ localState' = "CLOSE_WAIT" /\ UNCHANGED inTable

\* close() came first: the local FIN is on its way already.
ReceiveFinWhileClosing ==
    /\ rx = "finQueued" /\ localFin
    /\ remoteFin' = TRUE
    /\ FinishFin
    /\ revived' = (localState = "RESET")
    /\ UNCHANGED <<localFin, finsSent, closeTime, windowVars, timer, closer>>

FinAnswered ==
    /\ rx = "finSend"
    /\ localState = "CLOSE_WAIT"
    /\ FinishFin
    /\ UNCHANGED <<finVars, closeTime, windowVars, timer, closer, revived>>

\* The FIN branch changes the state after its await, whatever it is by then.
FinAnsweredUnchecked ==
    /\ rx = "finSend"
    /\ localState # "CLOSE_WAIT"
    /\ Drain
    /\ localState' = "CLOSE_WAIT"
    /\ rx' = "ackSend"
    /\ UNCHANGED <<inTable, finVars, closeTime, windowVars, timer, closer, revived>>

\* Another activity has closed the connection meanwhile: trySafeRelease() throws
\* through handleIncomingPacket and dispatch out of the receive loop.
FinAnsweredTooLate ==
    /\ rx = "finSend"
    /\ localState # "CLOSE_WAIT"
    /\ Drain
    /\ rx' = "dead"
    /\ UNCHANGED <<localState, inTable, finVars, closeTime, windowVars, timer, closer, revived>>

AckSent ==
    /\ rx = "ackSend"
    /\ rx' = "idle"
    /\ UNCHANGED <<localState, inTable, finVars, closeTime, windowVars, bufferVars, timer, closer, revived>>

\* reset(), in any state.  The receive buffer is not drained, and a writer that
\* waits for room may get into the emptied window.
Reset ==
    /\ inTable' = FALSE
    /\ localState' = "RESET"
    /\ remoteFin' = FALSE
    /\ unacked' \in IF unacked = 0 THEN {0} ELSE 0 .. unacked - 1
    /\ resends' = 0
    /\ UNCHANGED <<localFin, finsSent, closeTime, bufferVars, rx, timer, closer, revived>>

ReceiveReset == rx = "idle" /\ inTable /\ Reset

-----------------------------------------------------------------------------
(* The socket's timer *)

\* timeoutCheck resends the oldest packet and awaits the send.
TimerResends ==
    /\ TimersMayRun /\ timer = "idle" /\ inTable
    /\ unacked > 0 /\ resends < ResendTimesLimit
    /\ resends' = resends + 1
    /\ timer' = IF localState = "CLOSE_WAIT" THEN "resending" ELSE "idle"
    /\ UNCHANGED <<localState, inTable, finVars, closeTime, unacked, bufferVars, rx, closer, revived>>

\* A packet at the limit is resent from the start.
TimerNeverGivesUp ==
    /\ TimersMayRun /\ timer = "idle" /\ inTable
    /\ unacked > 0 /\ resends = ResendTimesLimit
    /\ resends' = 0
    /\ UNCHANGED <<localState, inTable, finVars, closeTime, unacked, bufferVars, rx, timer, closer, revived>>

\* A packet at the limit is given up: nothing is sent, and in CS_CLOSE_WAIT
\* trySafeRelease() follows without a pause.
TimerGivesUp ==
    /\ TimersMayRun /\ timer = "idle" /\ inTable
    /\ unacked > 0 /\ resends = ResendTimesLimit
    /\ unacked' = unacked - 1
    /\ resends' = 0
    /\ IF localState = "CLOSE_WAIT"
       THEN TrySafeRelease(unacked - 1)
       ELSE UNCHANGED <<localState, inTable, bufferVars, finVars>>
    /\ UNCHANGED <<closeTime, rx, timer, closer, revived>>

\* No packet is overdue: trySafeRelease() follows at once.
TimerReleases ==
    /\ TimersMayRun /\ timer = "idle" /\ inTable
    /\ localState = "CLOSE_WAIT"
    /\ TrySafeRelease(unacked)
    /\ UNCHANGED <<closeTime, windowVars, rx, timer, closer, revived>>

\* The timer goes on after its await.
TimerResumes ==
    /\ TimersMayRun /\ timer = "resending"
    /\ localState = "CLOSE_WAIT"
    /\ timer' = "idle"
    /\ TrySafeRelease(unacked)
    /\ UNCHANGED <<closeTime, windowVars, rx, closer, revived>>

\* The connection left CS_CLOSE_WAIT during the await: trySafeRelease() throws.
TimerResumesTooLate ==
    /\ TimersMayRun /\ timer = "resending"
    /\ localState # "CLOSE_WAIT"
    /\ timer' = "failed"
    /\ UNCHANGED <<localState, inTable, finVars, closeTime, windowVars, bufferVars, rx, closer, revived>>

-----------------------------------------------------------------------------
(* The application *)

AppRead ==
    /\ ~pendingRead
    /\ pendingRead' = (~buffered /\ ~drained)
    /\ buffered' \in {FALSE, buffered}
    /\ UNCHANGED <<localState, inTable, finVars, closeTime, windowVars, drained, rx, timer, closer, revived>>

\* write() in CS_CONNECTED; in CS_CLOSE_WAIT and CS_RESET it sends past the window.
AppWrite ==
    /\ localState = "CONNECTED"
    /\ unacked < MaxUnacked
    /\ unacked' = unacked + 1
    /\ UNCHANGED <<localState, inTable, finVars, closeTime, resends, bufferVars, rx, timer, closer, revived>>

\* close() on an open connection, up to the send of the FIN.
AppClose ==
    /\ closer = "none"
    /\ localState = "CONNECTED"
    /\ closeTime' = "running"
    /\ localState' = "CLOSE_WAIT"
    /\ localFin' = TRUE
    /\ finsSent' = finsSent + 1
    /\ closer' = "sending"
    /\ UNCHANGED <<inTable, remoteFin, windowVars, bufferVars, rx, timer, revived>>

\* close() on a connection that is closing, closed or reset returns at once.
AppCloseAgain ==
    /\ closer = "none"
    /\ localState # "CONNECTED"
    /\ closer' = "done"
    /\ UNCHANGED <<localState, inTable, finVars, closeTime, windowVars, bufferVars, rx, timer, revived>>

CloseFinSent ==
    /\ TimersMayRun /\ closer = "sending"
    /\ closer' = "polling"
    /\ UNCHANGED <<localState, inTable, finVars, closeTime, windowVars, bufferVars, rx, timer, revived>>

\* An exception of trySafeRelease() ends close()'s timer and nothing else.
CloseTickUncaught ==
    /\ TimersMayRun /\ closer = "polling"
    /\ localState \in {"CLOSED", "CLOSE_WAIT"}
    /\ IF localState = "CLOSED"
       THEN closer' = "done" /\ UNCHANGED <<localState, inTable, finVars, bufferVars>>
       ELSE /\ TrySafeRelease(unacked)
            /\ closer' = IF localState' = "CLOSED" THEN "done" ELSE "polling"
    /\ UNCHANGED <<closeTime, windowVars, rx, timer, revived>>

\* One tick of close()'s timer.  An exception of trySafeRelease() is caught
\* there and closes by force.
CloseTick ==
    /\ TimersMayRun /\ closer = "polling"
    /\ \/ /\ localState = "CLOSED"
          /\ closer' = "done"
          /\ UNCHANGED <<localState, inTable, finVars, bufferVars>>
       \/ /\ localState = "RESET" \/ (localState = "CLOSE_WAIT" /\ closeTime = "expired")
          /\ ForceClose
          /\ closer' = "done"
          /\ UNCHANGED finVars
       \/ /\ localState = "CLOSE_WAIT" /\ closeTime # "expired"
          /\ TrySafeRelease(unacked)
          /\ closer' = IF localState' = "CLOSED" THEN "done" ELSE "polling"
    /\ UNCHANGED <<closeTime, windowVars, rx, timer, revived>>

\* The application's reset() runs between any two steps of the other activities.
AppReset == Reset

\* 10 s pass after close().
CloseTimeExpires ==
    /\ closeTime = "running"
    /\ closeTime' = "expired"
    /\ UNCHANGED <<localState, inTable, finVars, windowVars, bufferVars, rx, timer, closer, revived>>

LifecycleNext ==
    \/ ReceiveData \/ ReceiveAck \/ FinArrives \/ ReceiveFin \/ ReceiveFinWhileClosing
    \/ FinAnswered \/ FinAnsweredTooLate \/ AckSent \/ ReceiveReset
    \/ TimerResends \/ TimerGivesUp \/ TimerReleases \/ TimerResumes \/ TimerResumesTooLate
    \/ AppRead \/ AppWrite \/ AppClose \/ AppCloseAgain \/ AppReset
    \/ CloseFinSent \/ CloseTick \/ CloseTimeExpires

LifecycleSpec == LifecycleInit /\ [][LifecycleNext]_lifeVars

\* UDP sends complete and the two timers fire.
FairLifecycleSpec ==
    /\ LifecycleSpec
    /\ WF_lifeVars(ReceiveFin) /\ WF_lifeVars(ReceiveFinWhileClosing)
    /\ WF_lifeVars(FinAnswered) /\ WF_lifeVars(FinAnsweredTooLate) /\ WF_lifeVars(AckSent)
    /\ WF_lifeVars(TimerResends) /\ WF_lifeVars(TimerGivesUp) /\ WF_lifeVars(TimerReleases)
    /\ WF_lifeVars(TimerResumes) /\ WF_lifeVars(TimerResumesTooLate)
    /\ WF_lifeVars(CloseFinSent) /\ WF_lifeVars(CloseTick)
    /\ WF_lifeVars(CloseTimeExpires)

-----------------------------------------------------------------------------
(* Properties *)

\* The socket finds a connection exactly as long as it is neither closed nor
\* reset, whichever of the ways out it took.  The one exception is a reset() in
\* the gap of the FIN branch (line 333): line 339 then enters CS_CLOSE_WAIT on a
\* connection that the socket does not find and does not time.
TableMatchesState ==
    IF revived THEN ~inTable
    ELSE inTable <=> localState \in {"CONNECTED", "CLOSE_WAIT"}

\* One FIN at most is sent, however close(), the peer's FIN and the timers'
\* trySafeRelease() interleave, and none of them enters CS_CLOSE_WAIT without it.
OneFin == finsSent <= 1 /\ (localState = "CLOSE_WAIT" => finsSent = 1)

\* No activity that resumes after an await brings a closed connection back, nor a
\* reset one, outside the gap of the FIN branch; only reset() leaves CS_CLOSED.
EndedStaysEnded ==
    [][localState = "CLOSED" \/ (localState = "RESET" /\ rx # "finQueued")
       => localState' \in {"CLOSED", "RESET"}]_lifeVars

\* A closing connection is released: by the peer's acknowledgements, by giving
\* up on the packets it does not acknowledge, or by the close timeout.
\* The socket's timer does it, so the connection has to be in its table.
CloseWaitEnds == (localState = "CLOSE_WAIT" /\ inTable) ~> (localState \in {"CLOSED", "RESET"})

\* close() returns, and the connection it was called on is closed then.
CloseReturns == (closer = "sending") ~> (closer = "done" /\ localState = "CLOSED")

\* The receive loop survives whatever happens to one connection.
ReceiveLoopLives == rx # "dead"
=============================================================================
