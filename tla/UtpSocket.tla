------------------------------ MODULE UtpSocket ------------------------------
(***************************************************************************)
(* utp_socket.ts with the opening of connections in utp_conn.ts and the    *)
(* listener: two sockets that connect to each other, the tables in which   *)
(* they look up the connection a packet is for, the promises of connect()  *)
(* and accept(), the timers, and close() of a connection, a listener and a *)
(* socket.                                                                 *)
(*                                                                         *)
(* A connection is an index into `conns`.  A packet is its type and the    *)
(* connection that sent it: what the receiver reads from it (connId, and   *)
(* for DATA the acknowledged SYN-ACK) follows from the sender.  Packets    *)
(* stay in `net` for good, so that each may be lost, delayed, reordered    *)
(* and delivered twice.  Sequence numbers of different SYN-ACKs, which the *)
(* code draws at random, are taken to differ.  How a closing connection    *)
(* gets from CS_CLOSE_WAIT to CS_CLOSED is UtpLifecycle's subject and one  *)
(* step here.  The timer's keep-alives are ACKs like those in `net`: one   *)
(* of a responder is its SYN-ACK again, one of an initiator changes no     *)
(* state of its peer; they are left to UtpTransfer.                        *)
(***************************************************************************)
EXTENDS Integers, FiniteSets, SequencesExt, UtpListener

CONSTANTS
    Sockets,      \* two sockets
    IdMod,        \* connection ids are 16 bits on the wire: 65536
    PromptSends,  \* TRUE: a UDP send ends before an answer to it is handled
    MaxConnects,  \* bound: calls of connect()
    MaxConns,     \* bound: connections created
    MaxCloses     \* bound: calls of close() and reset() by the application

ASSUME SocketAssumption ==
    /\ IsFiniteSet(Sockets) /\ Cardinality(Sockets) = 2
    /\ IdMod \in Nat /\ IdMod > 2
    /\ PromptSends \in BOOLEAN
    /\ MaxConnects \in Nat /\ MaxConns \in Nat /\ MaxCloses \in Nat

VARIABLES
    conns,      \* the connections created so far
    connTable,  \* #connTable of both sockets: the connections in it
    net,        \* packets sent
    sockState,  \* #state
    listener,   \* the sockets' listeners
    closes      \* history: calls of close() and reset() by the application

socketVars == <<conns, connTable, net, sockState, listener, closes>>

None == 0
Ids == 1 .. Len(conns)
Peer(s) == CHOOSE t \in Sockets : t # s
WireIds == 0 .. IdMod - 1
Opening == {"SYN_SENT", "SYN_RECV", "CONNECTED"}

SocketTypeOK ==
    /\ conns \in Seq([sock : Sockets, sendId : WireIds, recvId : WireIds, initiator : BOOLEAN,
                      state : Opening \cup {"CLOSE_WAIT", "CLOSED", "RESET"},
                      promise : {"sending", "waiting", "resolved", "rejected"},
                      cause : Nat, synAck : Nat])
    /\ connTable \subseteq Ids
    /\ net \subseteq [type : {"SYN", "STATE", "DATA", "FIN", "RESET"}, from : Ids]
    /\ sockState \in [Sockets -> {"ACTIVE", "CLOSE_WAIT", "CLOSED"}]
    /\ \A s \in Sockets : Range(listener[s].connections) \subseteq Ids
    /\ closes \in Nat

SocketInit ==
    /\ conns = <<>>
    /\ connTable = {}
    /\ net = {}
    /\ sockState = [s \in Sockets |-> "ACTIVE"]
    /\ listener = [s \in Sockets |-> NewListener]
    /\ closes = 0

-----------------------------------------------------------------------------
(* Connections, the table and packets *)

\* The constructor's arguments.  The promise of connectTo() awaits the first
\* send before it listens, unless sends are prompt.  `cause` is a history component: the initiator
\* whose SYN made a responder.
NewConn(s, sendId, recvId, state, cause) ==
    [sock |-> s, sendId |-> sendId, recvId |-> recvId,
     initiator |-> state = "SYN_SENT", state |-> state,
     promise |-> IF PromptSends THEN "waiting" ELSE "sending",
     cause |-> cause,
     synAck |-> None]         \* whose SYN-ACK localAckNr comes from

UniqueId(c) == <<c.sock, c.sendId, c.recvId>>

\* The connections of the table with this id: none or one.
FindConn(uid) == {i \in connTable : UniqueId(conns[i]) = uid}

\* addConn() replaces a connection that has the same id.
WithConn(c) == (connTable \ FindConn(UniqueId(c))) \cup {Len(conns) + 1}

\* removeCon() removes by id, whichever connection has it.
WithoutConns(I) == connTable \ UNION {FindConn(UniqueId(conns[i])) : i \in I}

\* sendUtpPacket() of a closed socket sends nothing.
Sent(i, type) ==
    IF sockState[conns[i].sock] = "CLOSED" THEN {} ELSE {[type |-> type, from |-> i]}

Destination(p) == Peer(conns[p.from].sock)

\* The initiator's send id is taken modulo 2^16 on its way into the packet.
ConnId(p) ==
    IF p.type = "SYN" THEN conns[p.from].recvId ELSE conns[p.from].sendId % IdMod

\* What a change of state does to the promise: onStateChange is there once the
\* first packet has been sent, and CS_CLOSE_WAIT means nothing to it.
Settled(promise, state) ==
    IF promise # "waiting" THEN promise
    ELSE CASE state = "CONNECTED" -> "resolved"
           [] state \in {"CLOSED", "RESET"} -> "rejected"
           [] OTHER -> promise

\* A change of state with its effect on the promise.
InState(c, state) == [c EXCEPT !.state = state, !.promise = Settled(c.promise, state)]

\* close() of these connections, each up to the send of its FIN.
ClosedBy(cs, I) ==
    [i \in DOMAIN cs |->
        IF i \in I /\ cs[i].state \in Opening THEN InState(cs[i], "CLOSE_WAIT") ELSE cs[i]]
FinsOf(cs, I) == UNION {Sent(i, "FIN") : i \in {i \in I : cs[i].state \in Opening}}

-----------------------------------------------------------------------------
(* connect() and the SYN it sends *)

\* The initiator's first packet and the responder's are sent at once; the
\* promise goes on after the send.
Create(c, type) ==
    /\ Len(conns) < MaxConns
    /\ conns' = Append(conns, c)
    /\ connTable' = WithConn(c)
    /\ net' = net \cup
              (IF sockState[c.sock] = "CLOSED" THEN {}
               ELSE {[type |-> type, from |-> Len(conns) + 1]})
    /\ UNCHANGED <<sockState, listener, closes>>

\* randomUn16Int rounds up to 65535 as well.
RandomUn16IntClosed == 0 .. IdMod - 1

\* randomUn16Int never returns 65535.
RandomUn16Int == 0 .. IdMod - 2

\* connect(), also of a socket that is closing or closed.
Connect(s, id) ==
    /\ Cardinality({i \in Ids : conns[i].initiator}) < MaxConnects
    /\ Create(NewConn(s, id + 1, id, "SYN_SENT", None), "SYN")

\* The table is not asked whether the connection exists.
ReceiveSynUnasked(p) ==
    LET c == NewConn(Destination(p), ConnId(p), ConnId(p) + 1, "SYN_RECV", p.from)
    IN  /\ p.type = "SYN"
        /\ sockState[c.sock] # "CLOSED"
        /\ Create(c, "STATE")

\* dispatch() of a SYN: ignored if its connection exists, else a new responder
\* answers it, also while the socket is closing.
ReceiveSyn(p) ==
    LET c == NewConn(Destination(p), ConnId(p), ConnId(p) + 1, "SYN_RECV", p.from)
    IN  /\ p.type = "SYN"
        /\ sockState[c.sock] # "CLOSED"
        /\ FindConn(UniqueId(c)) = {}
        /\ Create(c, "STATE")

\* The send of the SYN or SYN-ACK has ended: the timer and the state listener
\* are installed, whatever the state is by now.
SendEnds(i) ==
    /\ conns[i].promise = "sending"
    /\ conns' = [conns EXCEPT ![i].promise = "waiting"]
    /\ UNCHANGED <<connTable, net, sockState, listener, closes>>

\* The timer gives up only while the handshake has not ended.
ConnectTimeoutInHandshake(i) ==
    /\ conns[i].promise = "waiting"
    /\ conns[i].state \in {"SYN_SENT", "SYN_RECV"}
    /\ conns' = [conns EXCEPT ![i].promise = "rejected"]
    /\ UNCHANGED <<connTable, net, sockState, listener, closes>>

\* The timer of waitForConnecting rejects and leaves the connection as it is.
ConnectTimeout(i) ==
    /\ conns[i].promise = "waiting"
    /\ conns' = [conns EXCEPT ![i].promise = "rejected"]
    /\ UNCHANGED <<connTable, net, sockState, listener, closes>>

\* timeoutCheck closes a connection whose SYN is 5 s old.  The socket's timer
\* runs until the socket is closed.
SynTimeout(i) ==
    /\ i \in connTable
    /\ conns[i].state = "SYN_SENT"
    /\ conns[i].promise # "sending"
    /\ sockState[conns[i].sock] # "CLOSED"
    /\ conns' = [conns EXCEPT ![i] = InState(conns[i], "CLOSED")]
    /\ connTable' = WithoutConns({i})
    /\ UNCHANGED <<net, sockState, listener, closes>>

-----------------------------------------------------------------------------
(* dispatch() of every other packet *)

\* The receive id of the local connection is the connId of the packet; its send
\* id is one more (an initiator, tried first) or one less (a responder).
InitiatorFor(p) == FindConn(<<Destination(p), ConnId(p) + 1, ConnId(p)>>)
ResponderFor(p) == FindConn(<<Destination(p), ConnId(p) - 1, ConnId(p)>>)

\* Any DATA packet completes the handshake of a responder.
AnyDataAnswers(i, p) == TRUE

\* The packet acknowledges the SYN-ACK of this responder (handleAtSynReceived).
Answers(i, p) == conns[p.from].synAck = i

\* handleIncomingPacket returns true.
Handles(i, p) ==
    CASE conns[i].state = "SYN_SENT"   -> p.type = "STATE"
      [] conns[i].state = "SYN_RECV"   -> p.type = "DATA" /\ Answers(i, p)
      [] conns[i].state = "CONNECTED"  -> p.type \in {"DATA", "FIN"}
      [] conns[i].state = "CLOSE_WAIT" -> p.type = "STATE"
      [] OTHER                         -> FALSE

\* The connections that get to see the packet: the second one if the first does
\* not handle it, which a DATA packet in CS_CONNECTED may be (a duplicate).
Receivers(p) ==
    LET first == InitiatorFor(p)
        both  == first \cup ResponderFor(p)
    IN  IF p.type = "RESET" \/ \A i \in first : ~Handles(i, p) THEN {both}
        ELSE IF \E i \in first : conns[i].state = "CONNECTED" /\ p.type = "DATA"
        THEN {first, both}
        ELSE {first}

\* handleIncomingPacket or reset() of connection i, apart from the table.
AfterPacket(i, p) ==
    LET c == conns[i]
    IN  IF p.type = "RESET" THEN InState(c, "RESET")
        ELSE IF ~Handles(i, p) THEN c
        ELSE CASE c.state = "SYN_SENT" -> [InState(c, "CONNECTED") EXCEPT !.synAck = p.from]
               [] c.state = "SYN_RECV" -> InState(c, "CONNECTED")
               [] p.type = "FIN"       -> InState(c, "CLOSE_WAIT")
               [] OTHER                -> c

\* What it sends in reply: RST for RST, an ACK for DATA, FIN for FIN (and an ACK).
Reply(i, p) ==
    CASE p.type = "RESET" -> Sent(i, "RESET")
      [] p.type = "DATA" /\ Handles(i, p) -> Sent(i, "STATE")
      [] p.type = "FIN" /\ Handles(i, p) -> Sent(i, "FIN") \cup Sent(i, "STATE")
      [] OTHER -> {}

\* The responders among R whose promise this packet resolves: they go to the
\* listener, and are closed if that is closed.
Established(R, p) ==
    {i \in R : ~conns[i].initiator /\ conns[i].promise = "waiting"
                                   /\ AfterPacket(i, p).promise = "resolved"}

\* A closed listener drops the new connection.
RefusedSilently(I) == {}

Refused(I) == {i \in I : listener[conns[i].sock].closed}

ReceiveBy(R, p) ==
    LET after == [i \in Ids |-> IF i \in R THEN AfterPacket(i, p) ELSE conns[i]]
        new   == Established(R, p)
        no    == Refused(new)
    IN  /\ conns' = ClosedBy(after, no)
        /\ net' = net \cup (UNION {Reply(i, p) : i \in R}) \cup FinsOf(after, no)
        /\ connTable' = IF p.type = "RESET" THEN WithoutConns(R) ELSE connTable
        /\ listener' = [s \in Sockets |->
               LET here == {i \in new : conns[i].sock = s}
               IN  IF here = {} THEN listener[s]
                   ELSE AddConnection(listener[s], CHOOSE i \in here : TRUE)]

Receive(p) ==
    /\ p.type # "SYN"
    /\ sockState[Destination(p)] # "CLOSED"
    /\ \E R \in Receivers(p) :
          /\ R # {}
          /\ ReceiveBy(R, p)
    /\ UNCHANGED <<sockState, closes>>

-----------------------------------------------------------------------------
(* The application *)

\* The connections the application has from connect() or accept().
Held == {i \in Ids : /\ conns[i].promise = "resolved"
                     /\ conns[i].initiator \/ i \in Range(listener[conns[i].sock].accepted)}

Write(i) ==
    /\ i \in Held /\ conns[i].state = "CONNECTED"
    /\ net' = net \cup Sent(i, "DATA")
    /\ UNCHANGED <<conns, connTable, sockState, listener, closes>>

CountClose ==
    /\ closes < MaxCloses
    /\ closes' = closes + 1

CloseConn(i) ==
    /\ CountClose
    /\ i \in Held /\ conns[i].state \in Opening
    /\ conns' = ClosedBy(conns, {i})
    /\ net' = net \cup FinsOf(conns, {i})
    /\ UNCHANGED <<connTable, sockState, listener>>

\* reset() asks for no state.
ResetConn(i) ==
    /\ CountClose
    /\ i \in Held
    /\ conns' = [conns EXCEPT ![i] = InState(conns[i], "RESET")]
    /\ connTable' = WithoutConns({i})
    /\ net' = net \cup Sent(i, "RESET")
    /\ UNCHANGED <<sockState, listener>>

\* The end of CS_CLOSE_WAIT: close()'s timer or the socket's (UtpLifecycle).
Release(i) ==
    /\ conns[i].state = "CLOSE_WAIT"
    /\ conns' = [conns EXCEPT ![i] = InState(conns[i], "CLOSED")]
    /\ connTable' = WithoutConns({i})
    /\ UNCHANGED <<net, sockState, listener, closes>>

Accept(s) ==
    /\ ~listener[s].closed
    /\ listener' = [listener EXCEPT ![s] = AcceptNext(@)]
    /\ UNCHANGED <<conns, connTable, net, sockState, closes>>

\* close() of the listener.
StopListening(s) ==
    LET I == Range(listener[s].connections)
    IN  /\ CountClose
        /\ ~listener[s].closed
        /\ conns' = ClosedBy(conns, I)
        /\ net' = net \cup FinsOf(conns, I)
        /\ listener' = [listener EXCEPT ![s] = CloseListener(@)]
        /\ UNCHANGED <<connTable, sockState>>

Table(s) == {i \in connTable : conns[i].sock = s}

\* Only established connections are closed.
ToCloseConnected(s) == {i \in Table(s) : conns[i].state = "CONNECTED"}

\* The connections tryCloseSocket closes.
ToClose(s) == {i \in Table(s) : conns[i].state \notin {"CLOSE_WAIT", "CLOSED"}}

\* close() of the socket: the listener first, then tryCloseSocket.
CloseSocket(s) ==
    LET I == Range(listener[s].connections) \cup ToClose(s)
    IN  /\ CountClose
        /\ sockState[s] = "ACTIVE"
        /\ sockState' = [sockState EXCEPT ![s] = IF Table(s) = {} THEN "CLOSED" ELSE "CLOSE_WAIT"]
        /\ conns' = ClosedBy(conns, I)
        /\ net' = net \cup FinsOf(conns, I)
        /\ listener' = [listener EXCEPT ![s] = CloseListener(@)]
        /\ UNCHANGED connTable

\* tryCloseSocket, once a second.
TryCloseSocket(s) ==
    /\ sockState[s] = "CLOSE_WAIT"
    /\ sockState' = [sockState EXCEPT ![s] = IF Table(s) = {} THEN "CLOSED" ELSE @]
    /\ conns' = ClosedBy(conns, ToClose(s))
    /\ net' = net \cup FinsOf(conns, ToClose(s))
    /\ UNCHANGED <<connTable, listener, closes>>

-----------------------------------------------------------------------------
SocketNext ==
    \/ \E s \in Sockets, id \in RandomUn16Int : Connect(s, id)
    \/ \E p \in net : ReceiveSyn(p) \/ Receive(p)
    \/ \E i \in Ids : \/ SendEnds(i) \/ ConnectTimeout(i) \/ SynTimeout(i)
                      \/ Write(i) \/ CloseConn(i) \/ ResetConn(i) \/ Release(i)
    \/ \E s \in Sockets : Accept(s) \/ StopListening(s) \/ CloseSocket(s) \/ TryCloseSocket(s)

SocketSpec == SocketInit /\ [][SocketNext]_socketVars

\* UDP sends end and timers fire; no packet need arrive.
FairSocketSpec ==
    /\ SocketSpec
    /\ \A i \in 1 .. MaxConns :
          /\ WF_socketVars(i \in Ids /\ SendEnds(i))
          /\ WF_socketVars(i \in Ids /\ ConnectTimeout(i))
          /\ WF_socketVars(i \in Ids /\ SynTimeout(i))
          /\ WF_socketVars(i \in Ids /\ Release(i))
    /\ \A s \in Sockets : WF_socketVars(TryCloseSocket(s))

-----------------------------------------------------------------------------
(* Properties *)

\* No two calls of connect() have drawn ids that collide: the same id at one
\* socket, or neighbours at the two ends.
IdsApart ==
    \A i, j \in Ids : conns[i].initiator /\ conns[j].initiator /\ i # j =>
        IF conns[i].sock = conns[j].sock THEN conns[i].recvId # conns[j].recvId
        ELSE conns[i].recvId - conns[j].recvId \notin {-1, 1}

\* Unless ids collide, the table leads a packet to the other end of the
\* connection it was sent on, as long as that is there, and to no other: with
\* connections in both directions, late packets of closed ones, and responders
\* made by copies of a SYN.
ReachesItsPeer ==
    IdsApart => \A p \in net : p.type # "SYN" =>
        InitiatorFor(p) \cup ResponderFor(p) =
            {i \in connTable : conns[p.from].cause = i \/ conns[i].cause = p.from}

\* The table is current: it keeps no connection that has ended and, unless ids
\* collide, has every established one, although removeCon() goes by the id,
\* which a responder shares with the responders that copies of its SYN make.
TableIsCurrent ==
    /\ \A i \in connTable : conns[i].state \notin {"CLOSED", "RESET"}
    /\ IdsApart => \A i \in Ids : conns[i].state = "CONNECTED" => i \in connTable

\* A copy of a SYN that arrives when its connection is gone makes a responder
\* that is never established: one connect() is accepted once at most.
OneAcceptPerConnect ==
    IdsApart => \A i, j \in Ids :
        ~conns[i].initiator /\ conns[i].cause = conns[j].cause /\ i # j =>
            "resolved" \notin {conns[i].promise} \cap {conns[j].promise}

\* An open listener has handed out or keeps once every incoming connection whose
\* handshake promise has resolved, in the order in which the promises did, and
\* keeps none while an accept() waits. (A responder that its timer rejected and
\* that late data establishes after all is not among them: see EstablishedIsOffered.)
HandedOutOnce ==
    \A s \in Sockets : LET l == listener[s] IN
        /\ IsInjective(l.accepted)
        /\ ~l.closed =>
              /\ l.connections = l.accepted \o l.pending
              /\ Range(l.connections) =
                    {i \in Ids : conns[i].sock = s /\ ~conns[i].initiator
                                                   /\ conns[i].promise = "resolved"}
              /\ l.waiting => l.pending = <<>>

\* After close() of a listener no connection it has or would have handed out
\* (its handshake promise has resolved, before the close or after it) stays
\* open. A responder whose promise was rejected is outside this.
ClosedListenerClosesAll ==
    \A i \in Ids :
        ~conns[i].initiator /\ listener[conns[i].sock].closed /\ conns[i].promise = "resolved"
            => conns[i].state # "CONNECTED"

\* connect() resolves or rejects, also when its SYN is lost, its SYN-ACK comes
\* before the promise listens, or the socket is closed.
ConnectSettles ==
    \A i \in 1 .. MaxConns :
        (i \in Ids /\ conns[i].promise = "sending")
            ~> (i \in Ids /\ conns[i].promise \in {"resolved", "rejected"})

\* close() of a socket ends, although handshakes are under way and SYNs still
\* arrive while it waits for its connections.
SocketCloses == \A s \in Sockets : (sockState[s] = "CLOSE_WAIT") ~> (sockState[s] = "CLOSED")

\* An incoming connection that gets established is offered to accept(): its
\* promise has not been rejected before.
EstablishedIsOffered ==
    \A i \in Ids : ~conns[i].initiator /\ conns[i].state = "CONNECTED" => conns[i].promise # "rejected"
=============================================================================
