---------------------------- MODULE UtpSendWindow ----------------------------
(***************************************************************************)
(* utp_send_window.ts on top of blocking_map.ts: the unacknowledged        *)
(* packets of one connection, the writers blocked on a full window, what   *)
(* acknowledgements, retransmission timeouts and a reset do to them.       *)
(*                                                                         *)
(* Time is abstracted: a packet whose retransmission timer may have run    *)
(* out is handled by Resend or GiveUp at any moment.  One iteration of the *)
(* loop of resend() is one step, because the loop awaits the UDP send      *)
(* between two packets and anything may run there.  handleAck is           *)
(* synchronous and is one step.                                            *)
(***************************************************************************)
EXTENDS SeqNr, BlockingMap, CongestionWindow

CONSTANTS
    FirstSeq,             \* sequence number of the first data packet
    MinWindow,            \* #MIN_WINDOW_SIZE, 4 in the code
    MaxWindow,            \* #MAX_WINDOW_SIZE, 64 in the code
    ResendTimesLimit,     \* #RESEND_TIMES_LIMIT, 3 in the code
    RemoteWindows,        \* receive windows the peer advertises, in packets
    MaxPackets            \* bound: packets written in one behaviour

ASSUME SendWindowAssumption ==
    /\ FirstSeq \in SeqNrs
    /\ MinWindow \in Nat \ {0}
    /\ MaxWindow \in Nat /\ MinWindow <= MaxWindow
    /\ ResendTimesLimit \in Nat
    /\ RemoteWindows \subseteq Nat
    /\ MaxCongestionWindow \in Nat /\ MaxWindow <= MaxCongestionWindow
    /\ MaxPackets \in Nat

VARIABLES
    connState,     \* the connection's state, from CS_CONNECTED on
    localSeqNr,    \* sequence number of the next data packet
    packetMap,     \* #packetMap: unacknowledged packets and blocked writers
    latest,        \* #latestSeqReceivedOfOtherSide
    remoteWindow,  \* #remoteWindowBytes, in whole packets
    ccWindow,      \* the congestion window, rounded up to whole packets
    totalAcked,    \* #totalAckedPackets
    written,       \* history: how many packets were handed to the window
    acked,         \* history: packets removed because the peer acknowledged them
    lost,          \* history: packets dropped at the resend limit
    discarded      \* history: packets thrown away by reset()

vars == <<connState, localSeqNr, packetMap, latest, remoteWindow, ccWindow,
          totalAcked, written, acked, lost, discarded>>

Undefined == -1

\* The i-th packet's sequence number, counting from 0.
SeqOf(i) == SeqAdd(FirstSeq, i)

Blocked == {packetMap.waiting[i] : i \in 1 .. Len(packetMap.waiting)}

\* Packets the window has let through: the peer may have seen any of them.
SentCount == written - Len(packetMap.waiting)

InTable == connState \in {"CONNECTED", "CLOSE_WAIT"}

IsPacketMap(bm) ==
    /\ bm = BM(bm.map, bm.capacity, bm.waiting)
    /\ Keys(bm) \subseteq SeqNrs
    /\ bm.map \in [Keys(bm) -> 0 .. ResendTimesLimit]
    /\ bm.capacity \in 1 .. MaxWindow
    /\ bm.waiting \in Seq(SeqNrs)

TypeOK ==
    /\ connState \in {"CONNECTED", "CLOSE_WAIT", "CLOSED", "RESET"}
    /\ localSeqNr \in SeqNrs
    /\ IsPacketMap(packetMap)
    /\ latest \in SeqNrs \cup {Undefined}
    /\ remoteWindow \in Nat \cup {Undefined}
    /\ ccWindow \in 1 .. MaxCongestionWindow
    /\ totalAcked \in Nat
    /\ written \in Nat
    /\ acked \subseteq SeqNrs /\ lost \subseteq SeqNrs /\ discarded \subseteq SeqNrs

Init ==
    /\ connState = "CONNECTED"
    /\ localSeqNr = FirstSeq
    /\ packetMap = EmptyBlockingMap(MinWindow)
    /\ latest = Undefined
    /\ remoteWindow = Undefined
    /\ ccWindow = MinWindow
    /\ totalAcked = 0
    /\ written = 0
    /\ acked = {} /\ lost = {} /\ discarded = {}

-----------------------------------------------------------------------------
(* #applyWindowSize and the congestion window it reads *)

\* The advertised window is applied without its lower bound of one packet.
WindowSizeMayBeZero(cc, remote) ==
    LET size == MaxOf(MinWindow, MinOf(MaxWindow, cc))
    IN  IF remote = Undefined THEN size ELSE MinOf(size, remote)

WindowSize(cc, remote) ==
    LET size == MaxOf(MinWindow, MinOf(MaxWindow, cc))
    IN  IF remote = Undefined THEN size ELSE MinOf(size, MaxOf(1, remote))

ApplyWindowSize(bm, cc, remote) == BMUpdateCapacity(bm, WindowSize(cc, remote))

-----------------------------------------------------------------------------
(* waitForAck: write() numbers the packet and registers it in one go *)

WaitForAck ==
    /\ connState = "CONNECTED"
    /\ written < MaxPackets
    /\ packetMap' = BMSet(packetMap, localSeqNr)
    /\ localSeqNr' = SeqAdd(localSeqNr, 1)
    /\ written' = written + 1
    /\ UNCHANGED <<connState, latest, remoteWindow, ccWindow, totalAcked, acked, lost, discarded>>

-----------------------------------------------------------------------------
(* handleAck *)

LatestAfter(old, ackNr) ==
    IF old = Undefined \/ SeqGt(ackNr, old) THEN ackNr ELSE old

\* Strictly greater where isPacketAcked says greater or equal.
AckedStrictly(newest, K) == {s \in K : newest # Undefined /\ SeqGt(newest, s)}

\* The packets the cumulative acknowledgement covers (isPacketAcked).
CumulativelyAcked(newest, K) == {s \in K : newest # Undefined /\ SeqGe(newest, s)}

\* What handleAck does to the packets: first the selectively acknowledged ones
\* go, then the cumulatively acknowledged ones among those left or let in.
AfterAck(bm, newest, sack) ==
    LET afterSack == BMDelete(bm, sack)
    IN  BMDelete(afterSack, CumulativelyAcked(newest, Keys(afterSack)))

\* Every packet of the SACK counts, also one that is no longer in the window.
CountWholeSack(bm, newest, sack) ==
    Cardinality(sack) + Cardinality(CumulativelyAcked(newest, Keys(BMDelete(bm, sack))))

\* By how much handleAck raises #totalAckedPackets.
NewlyAcked(bm, newest, sack) ==
    LET afterSack == BMDelete(bm, sack)
    IN  Cardinality(Keys(bm) \cap sack)
          + Cardinality(CumulativelyAcked(newest, Keys(afterSack)))

\* An ACK arrives that acknowledges everything up to ackNr and, selectively, sack.
\* In CS_CLOSE_WAIT handleIncomingPacket calls handleAck twice for one packet.
HandleAck(ackNr, sack, remote) ==
    LET newest == LatestAfter(latest, ackNr)
        once   == AfterAck(packetMap, newest, sack)
    IN  /\ InTable
        /\ latest' = newest
        /\ remoteWindow' = remote
        /\ acked' = acked \cup (Keys(packetMap) \ Keys(once))
        /\ \E cc \in AfterUpdateRtt(ccWindow) :
              LET applied == ApplyWindowSize(once, cc, remote)
              IN  IF connState = "CLOSE_WAIT"
                  THEN \E cc2 \in AfterUpdateRtt(cc) :
                          /\ ccWindow' = cc2
                          /\ packetMap' = ApplyWindowSize(AfterAck(applied, newest, sack), cc2, remote)
                          /\ totalAcked' = totalAcked + NewlyAcked(packetMap, newest, sack)
                                                      + NewlyAcked(applied, newest, sack)
                  ELSE /\ ccWindow' = cc
                       /\ packetMap' = applied
                       /\ totalAcked' = totalAcked + NewlyAcked(packetMap, newest, sack)
        /\ UNCHANGED <<connState, localSeqNr, written, lost, discarded>>

\* The ACKs a peer can have sent: it received sent packets only, the first n
\* in sequence, not the next one, and after that one any others.
IncomingAck ==
    \E n \in 0 .. SentCount, remote \in RemoteWindows :
        \E sack \in SUBSET {SeqOf(i) : i \in n + 1 .. SentCount - 1} :
            HandleAck(SeqOf(n - 1), sack, remote)

-----------------------------------------------------------------------------
(* resend, one packet of the loop *)

Resend(s) ==
    /\ InTable
    /\ s \in Keys(packetMap)
    /\ packetMap.map[s] < ResendTimesLimit
    /\ packetMap' = BM([packetMap.map EXCEPT ![s] = @ + 1], packetMap.capacity, packetMap.waiting)
    /\ UNCHANGED <<connState, localSeqNr, latest, remoteWindow, ccWindow,
                   totalAcked, written, acked, lost, discarded>>

\* The packet has been resent often enough: it counts as lost, the window shrinks,
\* and the packet is forgotten.
GiveUp(s) ==
    /\ InTable
    /\ s \in Keys(packetMap)
    /\ packetMap.map[s] >= ResendTimesLimit
    /\ ccWindow' = AfterPacketLoss(ccWindow)
    /\ \E shrunk \in {ApplyWindowSize(packetMap, AfterPacketLoss(ccWindow), remoteWindow)} :
          packetMap' = BMDelete(shrunk, {s})
    /\ lost' = lost \cup {s}
    /\ UNCHANGED <<connState, localSeqNr, latest, remoteWindow, totalAcked, written, acked, discarded>>

RetransmissionTimeout(s) == Resend(s) \/ GiveUp(s)

-----------------------------------------------------------------------------
(* what the connection does to its window *)

\* close(): no packet enters the window in CS_CLOSE_WAIT; ACKs and timeouts go on.
Close ==
    /\ connState = "CONNECTED"
    /\ connState' = "CLOSE_WAIT"
    /\ UNCHANGED <<localSeqNr, packetMap, latest, remoteWindow, ccWindow,
                   totalAcked, written, acked, lost, discarded>>

\* The connection leaves the table: its window empty, or by the close timeout
\* (forceClose), which comes at any fill of the window.  Nothing calls it again.
Release ==
    /\ connState = "CLOSE_WAIT"
    /\ connState' = "CLOSED"
    /\ UNCHANGED <<localSeqNr, packetMap, latest, remoteWindow, ccWindow,
                   totalAcked, written, acked, lost, discarded>>

ResetMap(bm) == BMUpdateCapacity(BMClear(bm), MinWindow)

\* A RST packet: conn.reset() takes the connection out of the table and calls
\* reset() of the window, which lets as many blocked writers in as fit.
Reset ==
    /\ InTable
    /\ connState' = "RESET"
    /\ packetMap' = ResetMap(packetMap)
    /\ latest' = Undefined
    /\ remoteWindow' = Undefined
    /\ ccWindow' = 1
    /\ totalAcked' = 0
    /\ discarded' = discarded \cup Keys(packetMap)
    /\ UNCHANGED <<localSeqNr, written, acked, lost>>

\* The connection is gone for good.
Gone == ~InTable /\ UNCHANGED vars

Next ==
    \/ WaitForAck
    \/ IncomingAck
    \/ \E s \in SeqNrs : Resend(s)
    \/ \E s \in SeqNrs : GiveUp(s)
    \/ Close
    \/ Release
    \/ Reset
    \/ Gone

Spec == Init /\ [][Next]_vars

\* The socket's timer calls resend() every 300 ms for every connection of the
\* table, and as long as packets stay unacknowledged some of them are overdue in
\* the end.
FairSpec == Spec /\ WF_vars(\E s \in Keys(packetMap) : RetransmissionTimeout(s))

-----------------------------------------------------------------------------
(* Properties *)

\* A writer is blocked only while the window is full: no step that frees a slot
\* or raises the capacity (delete, updateCapacity, reset) forgets to wake it.
BlockedOnlyWhenFull ==
    packetMap.waiting # <<>> => Size(packetMap) >= packetMap.capacity

\* Every packet handed to the window is in exactly one place: unacknowledged,
\* waiting, acknowledged, given up or discarded by a reset.
EveryPacketInOnePlace ==
    LET places == <<Keys(packetMap), Blocked, acked, lost, discarded>>
    IN  /\ UNION {places[p] : p \in 1 .. 5} = {SeqOf(i) : i \in 0 .. written - 1}
        /\ \A p, q \in 1 .. 5 : p # q => places[p] \cap places[q] = {}

\* #totalAckedPackets counts every acknowledged packet once, however often and
\* in how many ways (cumulative, selective, twice in CS_CLOSE_WAIT) it is acknowledged.
AckedCountedOnce == connState # "RESET" => totalAcked = Cardinality(acked)

\* A packet the cumulative acknowledgement covers is no longer in the window:
\* it would be retransmitted, and keep the connection from closing.
NoAckedPacketLingers ==
    \A s \in Keys(packetMap) \cup Blocked : latest = Undefined \/ ~SeqGe(latest, s)

\* Packets enter the window in the order of their sequence numbers: what waits
\* is younger than everything inside, and waits in order.
AdmissionInOrder ==
    /\ \A s \in Keys(packetMap), w \in Blocked : SeqLt(s, w)
    /\ \A i, j \in 1 .. Len(packetMap.waiting) :
          i < j => SeqLt(packetMap.waiting[i], packetMap.waiting[j])

\* The packets in flight never exceed #MAX_WINDOW_SIZE, whatever the
\* congestion window grew to and however the capacity moved meanwhile.
InFlightBounded == Size(packetMap) <= MaxWindow

\* Blocked writers get into the window as long as the connection lives: every
\* packet in the window is acknowledged or given up in the end, so that, with
\* finitely many writes, a moment comes at which nobody is left waiting.
BlockedWriterAdmitted == Blocked # {} ~> (Blocked = {} \/ ~InTable)
=============================================================================
