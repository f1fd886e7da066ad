--------------------------- MODULE UtpSocketProofs ---------------------------
(***************************************************************************)
(* What the sockets guarantee for every number of connections, range of    *)
(* ids and order of packets: a packet reaches the other end of its         *)
(* connection, one connect() is accepted once, a listener hands every      *)
(* connection out once, and a closed one leaves none open.                 *)
(***************************************************************************)
EXTENDS UtpSocket, FiniteSetTheorems, SequenceTheorems, TLAPS

States == Opening \cup {"CLOSE_WAIT", "CLOSED", "RESET"}
Promises == {"sending", "waiting", "resolved", "rejected"}
Conns ==
    [sock : Sockets, sendId : WireIds, recvId : WireIds, initiator : BOOLEAN,
     state : States, promise : Promises, cause : Nat, synAck : Nat]
Listeners ==
    [closed : BOOLEAN, connections : Seq(Nat), pending : Seq(Nat), waiting : BOOLEAN,
     accepted : Seq(Nat)]

\* The type invariant, with the type of a listener.
TypesOK == SocketTypeOK /\ listener \in [Sockets -> Listeners]

\* The two ends of a connection: an initiator draws its receive id and sends
\* with the next one, its responders mirror the two.
EndsMatch ==
    /\ \A i \in Ids : conns[i].initiator =>
          /\ conns[i].recvId \in RandomUn16Int
          /\ conns[i].sendId = conns[i].recvId + 1
          /\ conns[i].cause = None
    /\ \A i \in Ids : ~conns[i].initiator =>
          LET c == conns[i].cause IN
          /\ c \in Ids /\ conns[c].initiator
          /\ conns[i].sock = Peer(conns[c].sock)
          /\ conns[i].sendId = conns[c].recvId
          /\ conns[i].recvId = conns[c].recvId + 1
    /\ \A p \in net : p.type = "SYN" => conns[p.from].initiator

\* The table is a map: one connection for an id.
OneForAnId ==
    \A i, j \in connTable : UniqueId(conns[i]) = UniqueId(conns[j]) => i = j

\* Which handshake states a connection can be in, and what it knows in them.
Handshake ==
    \A i \in Ids :
        /\ conns[i].state = "SYN_SENT" => conns[i].initiator /\ conns[i].synAck = None
        /\ conns[i].state = "SYN_RECV" => ~conns[i].initiator
        /\ ~conns[i].initiator => conns[i].synAck = None
        /\ conns[i].promise = "resolved" => conns[i].state \notin {"SYN_SENT", "SYN_RECV"}

\* The established responders of a socket.
Responders(s) ==
    {i \in Ids : conns[i].sock = s /\ ~conns[i].initiator /\ conns[i].promise = "resolved"}

\* A listener hands out what it was given, each connection once.
Ordered(l) ==
    /\ IsInjective(l.accepted)
    /\ ~l.closed => /\ l.connections = l.accepted \o l.pending
                    /\ IsInjective(l.connections)
                    /\ l.waiting => l.pending = <<>>

\* An open listener has every established responder.
ListenersOK ==
    \A s \in Sockets :
        /\ Ordered(listener[s])
        /\ ~listener[s].closed => Range(listener[s].connections) = Responders(s)

\* Unless ids collide, an initiator has the SYN-ACK of a responder its SYN made,
\* and only that responder is ever established.
AnswersItsPeer ==
    IdsApart =>
        /\ \A k \in Ids : conns[k].synAck # None =>
              conns[k].synAck \in Ids /\ conns[conns[k].synAck].cause = k
        /\ \A i \in Ids : ~conns[i].initiator /\ conns[i].promise = "resolved" =>
              conns[conns[i].cause].synAck = i

\* The inductive invariant.
SockIInv ==
    /\ TypesOK
    /\ EndsMatch
    /\ OneForAnId
    /\ Handshake
    /\ ListenersOK
    /\ ClosedListenerClosesAll
    /\ AnswersItsPeer

-----------------------------------------------------------------------------
(* Sockets, sequences and records *)

\* There are two sockets, so each has one peer.
LEMMA Peers ==
    ASSUME NEW s \in Sockets
    PROVE  /\ Peer(s) \in Sockets /\ Peer(s) # s
           /\ \A t \in Sockets : t = s \/ t = Peer(s)
<1> DEFINE rest == Sockets \ {s}
<1>1. IsFiniteSet(rest) /\ Cardinality(rest) = 1
  BY SocketAssumption, FS_RemoveElement
<1>2. PICK t : rest = {t}
  <2>1. rest # {}
    BY <1>1, FS_EmptySet
  <2>2. PICK t : t \in rest
    BY <2>1
  <2>3. IsFiniteSet(rest \ {t}) /\ Cardinality(rest \ {t}) = 0
    BY <1>1, <2>2, FS_RemoveElement
  <2>4. rest \ {t} = {}
    BY <2>3, FS_EmptySet
  <2> QED
    BY <2>2, <2>4
<1>3. t \in Sockets /\ t # s /\ \A u \in Sockets : u = s \/ u = t
  BY <1>2
<1> HIDE DEF rest
<1>4. Peer(s) = t
  BY <1>3 DEF Peer
<1> QED
  BY <1>3, <1>4

\* A function on 1 .. n is a sequence of length n.
LEMMA FunctionIsSeq ==
    ASSUME NEW S, NEW n \in Nat, NEW f \in [1 .. n -> S]
    PROVE  f \in Seq(S) /\ Len(f) = n /\ DOMAIN f = 1 .. n
OBVIOUS

\* d is the same connection as c, later.
Kept(c, d) ==
    /\ d \in Conns
    /\ d.sock = c.sock /\ d.sendId = c.sendId /\ d.recvId = c.recvId
    /\ d.initiator = c.initiator /\ d.cause = c.cause

\* A change of state changes the state and perhaps the promise.
LEMMA InStateKeeps ==
    ASSUME NEW c \in Conns, NEW state \in States
    PROVE  /\ Kept(c, InState(c, state))
           /\ InState(c, state).state = state
           /\ InState(c, state).synAck = c.synAck
           /\ InState(c, state).promise = Settled(c.promise, state)
<1>1. Settled(c.promise, state) \in Promises
  BY DEF Settled, Promises, Conns
<1> QED
  BY <1>1 DEF InState, Kept, Conns

\* close() of several connections: it leaves their promises alone.
LEMMA ClosedByKeeps ==
    ASSUME NEW cs \in Seq(Conns), NEW I
    PROVE  /\ ClosedBy(cs, I) \in Seq(Conns)
           /\ Len(ClosedBy(cs, I)) = Len(cs)
           /\ \A i \in 1 .. Len(cs) :
                 LET c == cs[i]
                     d == ClosedBy(cs, I)[i]
                 IN  /\ Kept(c, d) /\ d.synAck = c.synAck /\ d.promise = c.promise
                     /\ d.state = c.state \/ d.state = "CLOSE_WAIT"
                     /\ i \in I => d.state \notin Opening
<1> DEFINE n == Len(cs)
           f == ClosedBy(cs, I)
<1>1. n \in Nat /\ DOMAIN cs = 1 .. n /\ \A i \in 1 .. n : cs[i] \in Conns
  OBVIOUS
<1>2. ASSUME NEW i \in 1 .. n
      PROVE  /\ Kept(cs[i], f[i]) /\ f[i].synAck = cs[i].synAck
             /\ f[i].promise = cs[i].promise
             /\ f[i].state = cs[i].state \/ f[i].state = "CLOSE_WAIT"
             /\ i \in I => f[i].state \notin Opening
  <2>1. cs[i] \in Conns /\ "CLOSE_WAIT" \in States
    BY <1>1 DEF States
  <2>2. CASE i \in I /\ cs[i].state \in Opening
    <3>1. f[i] = InState(cs[i], "CLOSE_WAIT")
      BY <1>1, <2>2 DEF ClosedBy
    <3>2. Settled(cs[i].promise, "CLOSE_WAIT") = cs[i].promise
      BY DEF Settled
    <3> QED
      BY <2>1, <3>1, <3>2, InStateKeeps DEF Opening
  <2>3. CASE ~(i \in I /\ cs[i].state \in Opening)
    <3>1. f[i] = cs[i]
      BY <1>1, <2>3 DEF ClosedBy
    <3> QED
      BY <2>1, <2>3, <3>1 DEF Kept
  <2> QED
    BY <2>2, <2>3
<1>3. f \in [1 .. n -> Conns]
  <2>1. f = [i \in 1 .. n |-> f[i]]
    BY <1>1 DEF ClosedBy
  <2>2. \A i \in 1 .. n : f[i] \in Conns
    BY <1>2 DEF Kept
  <2> HIDE DEF f
  <2> QED
    BY <2>1, <2>2
<1> HIDE DEF f
<1>4. f \in Seq(Conns) /\ Len(f) = n
  BY <1>1, <1>3, FunctionIsSeq
<1> QED
  BY <1>2, <1>4 DEF f

-----------------------------------------------------------------------------
(* Lists of connections *)

\* What Append does, index by index.
LEMMA Appended ==
    ASSUME NEW s \in Seq(Nat), NEW x \in Nat
    PROVE  /\ Append(s, x) \in Seq(Nat)
           /\ Len(s) \in Nat /\ DOMAIN s = 1 .. Len(s)
           /\ DOMAIN Append(s, x) = 1 .. Len(s) + 1
           /\ \A j \in 1 .. Len(s) : Append(s, x)[j] = s[j]
           /\ Append(s, x)[Len(s) + 1] = x
BY AppendProperties

\* A list without duplicates stays one when something new is appended.
LEMMA AppendNew ==
    ASSUME NEW s \in Seq(Nat), NEW x \in Nat, x \notin Range(s), IsInjective(s)
    PROVE  IsInjective(Append(s, x))
<1> DEFINE t == Append(s, x)
           n == Len(s)
<1>1. /\ n \in Nat /\ DOMAIN s = 1 .. n /\ DOMAIN t = 1 .. n + 1
      /\ \A j \in 1 .. n : t[j] = s[j]
      /\ t[n + 1] = x
  BY Appended
<1> HIDE DEF t, n
<1>2. \A j \in 1 .. n : s[j] # x
  BY <1>1 DEF Range
<1>3. \A a, b \in 1 .. n : s[a] = s[b] => a = b
  BY <1>1 DEF IsInjective
<1>4. ASSUME NEW a \in 1 .. n + 1, NEW b \in 1 .. n + 1, t[a] = t[b]
      PROVE  a = b
  <2>1. (a \in 1 .. n \/ a = n + 1) /\ (b \in 1 .. n \/ b = n + 1)
    BY <1>1
  <2> QED
    BY <1>1, <1>2, <1>3, <1>4, <2>1
<1> QED
  BY <1>1, <1>4 DEF IsInjective, t

\* What a list holds after Append.
LEMMA RangeOfAppend ==
    ASSUME NEW s \in Seq(Nat), NEW x \in Nat
    PROVE  Range(Append(s, x)) = Range(s) \cup {x}
<1> DEFINE t == Append(s, x)
           n == Len(s)
<1>1. /\ n \in Nat /\ DOMAIN s = 1 .. n /\ DOMAIN t = 1 .. n + 1
      /\ \A j \in 1 .. n : t[j] = s[j]
      /\ t[n + 1] = x
  BY Appended
<1> HIDE DEF t, n
<1>2. n + 1 \in 1 .. n + 1 /\ \A j \in 1 .. n : j \in 1 .. n + 1
  BY <1>1
<1>3. ASSUME NEW y \in Range(t) PROVE y \in Range(s) \cup {x}
  <2>1. PICK j \in 1 .. n + 1 : y = t[j]
    BY <1>1, <1>3 DEF Range
  <2>2. CASE j \in 1 .. n
    BY <1>1, <2>1, <2>2 DEF Range
  <2>3. CASE j = n + 1
    BY <1>1, <2>1, <2>3
  <2> QED
    BY <1>1, <2>2, <2>3
<1>4. ASSUME NEW y \in Range(s) PROVE y \in Range(t)
  <2>1. PICK j \in 1 .. n : y = s[j]
    BY <1>1, <1>4 DEF Range
  <2> QED
    BY <1>1, <1>2, <2>1, Zenon DEF Range
<1>5. x \in Range(t)
  BY <1>1, <1>2, Zenon DEF Range
<1> QED
  BY <1>3, <1>4, <1>5 DEF t

\* Concatenation of lists of connections is associative.
LEMMA ListsAssociate ==
    ASSUME NEW s \in Seq(Nat), NEW t \in Seq(Nat), NEW u \in Seq(Nat)
    PROVE  (s \o t) \o u = s \o (t \o u)
BY ConcatAssociative, SMTT(30)

\* Appending to the second of two lists appends to the whole.
LEMMA AppendToSecond ==
    ASSUME NEW a \in Seq(Nat), NEW p \in Seq(Nat), NEW x \in Nat
    PROVE  Append(a \o p, x) = a \o Append(p, x)
<1> DEFINE u == a \o p
<1>1. u \in Seq(Nat) /\ <<x>> \in Seq(Nat)
  OBVIOUS
<1>2. (a \o p) \o <<x>> = a \o (p \o <<x>>)
  BY <1>1, ListsAssociate
<1> HIDE DEF u
<1>3. Append(u, x) = u \o <<x>> /\ Append(p, x) = p \o <<x>>
  BY <1>1, AppendIsConcat
<1> QED
  BY <1>2, <1>3 DEF u

\* Concatenation, index by index.
LEMMA Concatenated ==
    ASSUME NEW s \in Seq(Nat), NEW t \in Seq(Nat)
    PROVE  /\ s \o t \in Seq(Nat)
           /\ Len(s) \in Nat /\ Len(t) \in Nat
           /\ Len(s \o t) = Len(s) + Len(t)
           /\ \A i \in 1 .. Len(s) + Len(t) :
                 (s \o t)[i] = IF i <= Len(s) THEN s[i] ELSE t[i - Len(s)]
BY ConcatProperties

\* Moving the first of the second list to the end of the first one changes
\* nothing of the whole.
LEMMA MoveHead ==
    ASSUME NEW a \in Seq(Nat), NEW p \in Seq(Nat), p # <<>>
    PROVE  Append(a, Head(p)) \o Tail(p) = a \o p
<1> DEFINE h == <<Head(p)>>
           t == Tail(p)
<1>1. h \in Seq(Nat) /\ t \in Seq(Nat) /\ Head(p) \in Nat
  BY HeadTailProperties
<1>2. p = h \o t
  <2>1. Len(h) = 1 /\ h[1] = p[1] /\ Len(p) \in Nat /\ Len(p) > 0
    OBVIOUS
  <2>2. Len(t) = Len(p) - 1 /\ \A i \in 1 .. Len(t) : t[i] = p[i + 1]
    BY HeadTailProperties
  <2> HIDE DEF h, t
  <2> DEFINE q == h \o t
  <2>3. /\ q \in Seq(Nat) /\ Len(q) = Len(h) + Len(t)
        /\ \A i \in 1 .. Len(h) + Len(t) : q[i] = IF i <= Len(h) THEN h[i] ELSE t[i - Len(h)]
    BY <1>1, Concatenated
  <2> HIDE DEF q
  <2>4. Len(h) + Len(t) = Len(p)
    BY <2>1, <2>2
  <2>5. ASSUME NEW i \in 1 .. Len(p) PROVE q[i] = p[i]
    <3>1. CASE i = 1
      BY <2>1, <2>3, <2>4, <3>1
    <3>2. CASE i # 1
      <4>1. i - 1 \in 1 .. Len(t) /\ (i - 1) + 1 = i /\ ~(i <= 1)
        BY <2>1, <2>2, <3>2
      <4>2. t[i - 1] = p[(i - 1) + 1]
        BY <2>2, <4>1
      <4>3. q[i] = t[i - 1]
        BY <2>1, <2>3, <2>4, <4>1
      <4> QED
        BY <4>1, <4>2, <4>3
    <3> QED
      BY <3>1, <3>2
  <2> QED
    BY <2>3, <2>4, <2>5, SeqEqual DEF q
<1> HIDE DEF h, t
<1>3. (a \o h) \o t = a \o (h \o t)
  BY <1>1, ListsAssociate
<1>4. Append(a, Head(p)) = a \o h
  BY <1>1, AppendIsConcat DEF h
<1> QED
  BY <1>2, <1>3, <1>4 DEF t

\* The first part of a list without duplicates has none.
LEMMA PrefixInjective ==
    ASSUME NEW a \in Seq(Nat), NEW p \in Seq(Nat), IsInjective(a \o p)
    PROVE  IsInjective(a)
<1> DEFINE q == a \o p
<1>1. /\ q \in Seq(Nat) /\ Len(q) = Len(a) + Len(p) /\ Len(a) \in Nat /\ Len(p) \in Nat
      /\ \A j \in 1 .. Len(a) + Len(p) : q[j] = IF j <= Len(a) THEN a[j] ELSE p[j - Len(a)]
  BY Concatenated
<1>2. DOMAIN q = 1 .. Len(a) + Len(p) /\ DOMAIN a = 1 .. Len(a)
  BY <1>1
<1> HIDE DEF q
<1>3. \A j \in 1 .. Len(a) : j \in 1 .. Len(a) + Len(p) /\ q[j] = a[j]
  BY <1>1
<1> QED
  BY <1>2, <1>3 DEF IsInjective, q

-----------------------------------------------------------------------------
(* The listener *)

\* addConnection() of a connection it does not have yet.
LEMMA AddConnectionOrdered ==
    ASSUME NEW l \in Listeners, Ordered(l), NEW i \in Nat, i \notin Range(l.connections)
    PROVE  /\ AddConnection(l, i) \in Listeners
           /\ Ordered(AddConnection(l, i))
           /\ AddConnection(l, i).closed = l.closed
           /\ ~l.closed => Range(AddConnection(l, i).connections)
                              = Range(l.connections) \cup {i}
<1>1. CASE l.closed
  BY <1>1 DEF AddConnection
<1>2. CASE ~l.closed
  <2> DEFINE new == AddConnection(l, i)
             a == l.accepted
             p == l.pending
             cs == Append(l.connections, i)
             as == Append(a, i)
             ps == Append(p, i)
  <2>1. /\ l.connections \in Seq(Nat) /\ a \in Seq(Nat) /\ p \in Seq(Nat)
        /\ l.connections = a \o p
        /\ IsInjective(l.connections) /\ IsInjective(a)
        /\ l.waiting => p = <<>>
    BY <1>2 DEF Listeners, Ordered
  <2>2. cs \in Seq(Nat) /\ as \in Seq(Nat) /\ ps \in Seq(Nat)
    BY <2>1
  <2>3. IsInjective(cs) /\ Range(cs) = Range(l.connections) \cup {i}
    BY <2>1, AppendNew, RangeOfAppend
  <2>4. cs = a \o ps
    <3> HIDE DEF a, p
    <3>1. a \in Seq(Nat) /\ p \in Seq(Nat)
      BY <2>1
    <3>2. Append(a \o p, i) = a \o Append(p, i)
      BY <3>1, AppendToSecond
    <3> QED
      BY <2>1, <3>2
  <2>5. l.waiting => cs = as \o p /\ cs = as
    <3>1. a \o <<>> = a /\ as \o <<>> = as
      BY <2>1, <2>2, ConcatEmptySeq
    <3> HIDE DEF as, a, p
    <3> QED
      BY <2>1, <3>1 DEF as
  <2> HIDE DEF cs, as, ps
  <2>6. CASE l.waiting
    <3>1. new = [[l EXCEPT !.connections = cs] EXCEPT !.waiting = FALSE, !.accepted = as]
      BY <1>2, <2>6 DEF AddConnection, cs, as
    <3>2. /\ new \in Listeners
          /\ new.connections = cs /\ new.waiting = FALSE /\ new.pending = p
          /\ new.accepted = as /\ new.closed = l.closed
      BY <2>2, <3>1 DEF Listeners
    <3> HIDE DEF new, a, p
    <3>3. Ordered(new)
      BY <2>3, <2>5, <2>6, <3>2 DEF Ordered
    <3> QED
      BY <2>3, <3>2, <3>3 DEF new
  <2>7. CASE ~l.waiting
    <3>1. new = [[l EXCEPT !.connections = cs] EXCEPT !.pending = ps]
      BY <1>2, <2>7 DEF AddConnection, cs, ps
    <3>2. /\ new \in Listeners
          /\ new.connections = cs /\ new.waiting = l.waiting /\ new.pending = ps
          /\ new.accepted = a /\ new.closed = l.closed
      BY <2>2, <3>1 DEF Listeners
    <3> HIDE DEF new, a, p
    <3>3. Ordered(new)
      BY <2>1, <2>3, <2>4, <2>7, <3>2 DEF Ordered
    <3> QED
      BY <2>3, <3>2, <3>3 DEF new
  <2> QED
    BY <2>6, <2>7
<1> QED
  BY <1>1, <1>2

\* accept() takes the first of the queue, or waits.
LEMMA AcceptNextOrdered ==
    ASSUME NEW l \in Listeners, Ordered(l), ~l.closed
    PROVE  /\ AcceptNext(l) \in Listeners
           /\ Ordered(AcceptNext(l))
           /\ AcceptNext(l).closed = l.closed
           /\ AcceptNext(l).connections = l.connections
<1> DEFINE new == AcceptNext(l)
           a == l.accepted
           p == l.pending
<1>1. /\ l.connections \in Seq(Nat) /\ a \in Seq(Nat) /\ p \in Seq(Nat)
      /\ l.connections = a \o p
      /\ IsInjective(l.connections) /\ IsInjective(a)
      /\ l.waiting => p = <<>>
  BY DEF Listeners, Ordered
<1>2. CASE p = <<>>
  <2>1. new = [l EXCEPT !.waiting = TRUE]
    BY <1>2 DEF AcceptNext
  <2>2. /\ new.connections = l.connections /\ new.pending = p /\ new.waiting = TRUE
        /\ new.accepted = a /\ new.closed = l.closed /\ new \in Listeners
    BY <2>1 DEF Listeners
  <2> HIDE DEF new, a, p
  <2> QED
    BY <1>1, <1>2, <2>2 DEF Ordered, new
<1>3. CASE p # <<>>
  <2> DEFINE as == Append(a, Head(p))
             ps == Tail(p)
  <2>1. as \in Seq(Nat) /\ ps \in Seq(Nat)
    BY <1>1, <1>3, HeadTailProperties
  <2>2. new = [l EXCEPT !.pending = ps, !.accepted = as]
    BY <1>3 DEF AcceptNext
  <2>3. as \o ps = l.connections
    <3> HIDE DEF a, p
    <3> QED
      BY <1>1, <1>3, MoveHead
  <2> HIDE DEF as, ps
  <2>4. IsInjective(as)
    <3>1. IsInjective(as \o ps)
      BY <1>1, <2>3
    <3> QED
      BY <2>1, <3>1, PrefixInjective, Zenon
  <2>5. /\ new.connections = l.connections /\ new.pending = ps
        /\ new.waiting = l.waiting
        /\ new.accepted = as /\ new.closed = l.closed /\ new \in Listeners
    BY <2>1, <2>2 DEF Listeners
  <2> HIDE DEF new, a, p
  <2>6. Ordered(new)
    BY <1>1, <1>3, <2>3, <2>4, <2>5 DEF Ordered
  <2> QED
    BY <2>5, <2>6 DEF new
<1> QED
  BY <1>2, <1>3

\* close() of the listener keeps what was handed out.
LEMMA CloseListenerOrdered ==
    ASSUME NEW l \in Listeners, Ordered(l)
    PROVE  /\ CloseListener(l) \in Listeners
           /\ Ordered(CloseListener(l))
           /\ CloseListener(l).closed
<1> DEFINE new == CloseListener(l)
<1>1. <<>> \in Seq(Nat)
  OBVIOUS
<1>2. new \in Listeners /\ new.closed = TRUE /\ new.accepted = l.accepted
  BY <1>1 DEF CloseListener, Listeners
<1> HIDE DEF new
<1> QED
  BY <1>2 DEF Ordered, new

-----------------------------------------------------------------------------
(* Whom a packet reaches *)

\* What the table finds for an id are connections with that id.
LEMMA Found ==
    ASSUME TypesOK, NEW s, NEW a, NEW b, NEW i
    PROVE  i \in FindConn(<<s, a, b>>) <=>
              i \in connTable /\ conns[i].sock = s /\ conns[i].sendId = a /\ conns[i].recvId = b
BY DEF FindConn, UniqueId

\* A connection of the sequence has the type of a connection.
LEMMA ConnType ==
    ASSUME TypesOK
    PROVE  /\ conns \in Seq(Conns) /\ Len(conns) \in Nat /\ DOMAIN conns = Ids
           /\ \A i \in Ids : /\ conns[i] \in Conns /\ i \in Nat
                             /\ conns[i].sendId \in Int /\ conns[i].recvId \in Int
                             /\ conns[i].sendId % IdMod = conns[i].sendId
<1>1. conns \in Seq(Conns)
  BY DEF TypesOK, SocketTypeOK, Conns, States, Promises
<1>2. Len(conns) \in Nat /\ DOMAIN conns = Ids
  BY <1>1 DEF Ids
<1>3. ASSUME NEW i \in Ids
      PROVE  /\ conns[i] \in Conns /\ i \in Nat
             /\ conns[i].sendId \in Int /\ conns[i].recvId \in Int
             /\ conns[i].sendId % IdMod = conns[i].sendId
  <2>1. conns[i] \in Conns /\ i \in Nat
    BY <1>1, <1>2 DEF Ids
  <2>2. conns[i].sendId \in 0 .. IdMod - 1 /\ conns[i].recvId \in 0 .. IdMod - 1
    BY <2>1 DEF Conns, WireIds
  <2> QED
    BY <2>1, <2>2, SocketAssumption
<1> QED
  BY <1>1, <1>2, <1>3

\* ReachesItsPeer follows from how the two ends get their ids.
LEMMA ReachesPeer ==
    ASSUME TypesOK, EndsMatch, IdsApart, NEW p \in net, p.type # "SYN"
    PROVE  InitiatorFor(p) \cup ResponderFor(p) =
              {i \in connTable : conns[p.from].cause = i \/ conns[i].cause = p.from}
<1> DEFINE f == p.from
           id == conns[f].sendId
<1>1. f \in Ids /\ connTable \subseteq Ids
  BY DEF TypesOK, SocketTypeOK
<1>2. ConnId(p) = id /\ id \in Int
  BY <1>1, ConnType DEF ConnId
<1>3. conns[f].sock \in Sockets
  BY <1>1, ConnType DEF Conns
<1>4. Destination(p) = Peer(conns[f].sock)
  BY DEF Destination
<1> HIDE DEF f, id
<1>5. ASSUME NEW i
      PROVE  i \in InitiatorFor(p) \cup ResponderFor(p) <=>
                /\ i \in connTable
                /\ conns[i].sock = Peer(conns[f].sock)
                /\ conns[i].recvId = id
                /\ conns[i].sendId = id + 1 \/ conns[i].sendId = id - 1
  BY <1>2, <1>4, Found DEF InitiatorFor, ResponderFor
<1>6. ASSUME NEW i \in connTable
      PROVE  i \in InitiatorFor(p) \cup ResponderFor(p) <=>
                conns[f].cause = i \/ conns[i].cause = f
  <2>1. i \in Ids /\ conns[i].sock \in Sockets /\ conns[i].sendId \in Int /\ conns[i].recvId \in Int
    BY <1>1, ConnType DEF Conns
  <2>2. i \in Nat /\ i # None /\ f \in Nat /\ f # None
    BY <1>1, <2>1 DEF Ids, None
  <2>3. CASE conns[f].initiator
    <3>1. conns[f].cause # i /\ id = conns[f].recvId + 1 /\ conns[f].recvId \in Int
      BY <1>1, <2>2, <2>3, ConnType DEF EndsMatch, id
    <3>2. CASE conns[i].initiator
      <4>1. conns[i].cause # f /\ conns[i].sendId = conns[i].recvId + 1
        BY <2>1, <2>2, <3>2 DEF EndsMatch
      <4>2. ~(conns[i].sock = Peer(conns[f].sock) /\ conns[i].recvId = conns[f].recvId + 1)
        <5>1. SUFFICES ASSUME conns[i].sock = Peer(conns[f].sock),
                              conns[i].recvId = conns[f].recvId + 1
                       PROVE  FALSE
          OBVIOUS
        <5>2. conns[i].sock # conns[f].sock
          BY <1>3, <5>1, Peers
        <5>3. conns[i].recvId - conns[f].recvId = 1
          BY <2>1, <3>1, <5>1
        <5> QED
          BY <1>1, <2>1, <2>3, <3>2, <5>2, <5>3 DEF IdsApart
      <4> QED
        BY <1>5, <2>1, <3>1, <4>1, <4>2
    <3>3. CASE ~conns[i].initiator
      <4> DEFINE c == conns[i].cause
      <4>1. /\ c \in Ids /\ conns[c].initiator
            /\ conns[i].sock = Peer(conns[c].sock)
            /\ conns[i].sendId = conns[c].recvId
            /\ conns[i].recvId = conns[c].recvId + 1
        BY <2>1, <3>3 DEF EndsMatch
      <4>2. conns[c].sock \in Sockets /\ conns[c].recvId \in Int
        BY <4>1, ConnType DEF Conns
      <4> HIDE DEF c
      <4>3. c = f => i \in InitiatorFor(p) \cup ResponderFor(p)
        BY <1>5, <3>1, <4>1, <4>2
      <4>4. ASSUME i \in InitiatorFor(p) \cup ResponderFor(p)
            PROVE  c = f
        <5>1. conns[i].sock = Peer(conns[f].sock) /\ conns[c].recvId = conns[f].recvId
          BY <1>5, <3>1, <4>1, <4>2, <4>4
        <5>2. conns[c].sock = conns[f].sock
          BY <1>3, <4>1, <4>2, <5>1, Peers
        <5> QED
          BY <1>1, <2>3, <4>1, <5>1, <5>2 DEF IdsApart
      <4> QED
        BY <3>1, <4>3, <4>4 DEF c
    <3> QED
      BY <3>2, <3>3
  <2>4. CASE ~conns[f].initiator
    <3> DEFINE c == conns[f].cause
    <3>1. /\ c \in Ids /\ conns[c].initiator
          /\ conns[f].sock = Peer(conns[c].sock)
          /\ id = conns[c].recvId
          /\ conns[c].sendId = conns[c].recvId + 1
      BY <1>1, <2>4 DEF EndsMatch, id
    <3>2. conns[c].sock \in Sockets /\ conns[c].recvId \in Int
      BY <3>1, ConnType DEF Conns
    <3>3. Peer(conns[f].sock) = conns[c].sock
      BY <1>3, <3>1, <3>2, Peers
    <3> HIDE DEF c
    <3>4. conns[i].cause # f
      BY <2>1, <2>2, <2>4 DEF EndsMatch
    <3>5. CASE conns[i].initiator
      <4>1. conns[i].sendId = conns[i].recvId + 1
        BY <2>1, <3>5 DEF EndsMatch
      <4>2. c = i => i \in InitiatorFor(p) \cup ResponderFor(p)
        BY <1>5, <3>1, <3>2, <3>3
      <4>3. ASSUME i \in InitiatorFor(p) \cup ResponderFor(p)
            PROVE  c = i
        <5>1. conns[i].sock = conns[c].sock /\ conns[i].recvId = conns[c].recvId
          BY <1>5, <3>1, <3>3, <4>3
        <5> QED
          BY <2>1, <3>1, <3>5, <5>1 DEF IdsApart
      <4> QED
        BY <3>4, <4>2, <4>3 DEF c
    <3>6. CASE ~conns[i].initiator
      <4> DEFINE d == conns[i].cause
      <4>1. /\ d \in Ids /\ conns[d].initiator
            /\ conns[i].sock = Peer(conns[d].sock)
            /\ conns[i].sendId = conns[d].recvId
            /\ conns[i].recvId = conns[d].recvId + 1
        BY <2>1, <3>6 DEF EndsMatch
      <4>2. conns[d].sock \in Sockets /\ conns[d].recvId \in Int
        BY <4>1, ConnType DEF Conns
      <4> HIDE DEF d
      <4>3. c # i
        BY <3>1, <3>6
      <4>4. ASSUME i \in InitiatorFor(p) \cup ResponderFor(p)
            PROVE  FALSE
        <5>1. Peer(conns[d].sock) = conns[c].sock /\ conns[c].recvId - conns[d].recvId = 1
          BY <1>5, <3>1, <3>2, <3>3, <4>1, <4>2, <4>4
        <5>2. conns[c].sock # conns[d].sock
          BY <4>2, <5>1, Peers
        <5> QED
          BY <3>1, <4>1, <5>1, <5>2 DEF IdsApart
      <4> QED
        BY <3>4, <4>3, <4>4 DEF c
    <3> QED
      BY <3>5, <3>6
  <2> QED
    BY <2>3, <2>4
<1>7. \A i : i \in InitiatorFor(p) \cup ResponderFor(p) => i \in connTable
  BY <1>5
<1> QED
  BY <1>6, <1>7 DEF f

-----------------------------------------------------------------------------
(* Steps that end no handshake *)

\* What such a step may do to a connection: close it or reject its promise.
Ordinary(c, d) ==
    /\ Kept(c, d)
    /\ d.synAck = c.synAck
    /\ d.promise = "resolved" <=> c.promise = "resolved"
    /\ d.state = c.state \/ d.state \notin Opening

Packets(I) == [type : {"SYN", "STATE", "DATA", "FIN", "RESET"}, from : I]

\* The same connections, so the same ids.
LEMMA KeptIds ==
    ASSUME Len(conns') = Len(conns), \A i \in Ids : Kept(conns[i], conns'[i])
    PROVE  Ids' = Ids /\ (IdsApart' <=> IdsApart)
<1>1. Ids' = Ids
  BY DEF Ids
<1>2. IdsApart' <=>
        \A i, j \in Ids : conns'[i].initiator /\ conns'[j].initiator /\ i # j =>
          IF conns'[i].sock = conns'[j].sock THEN conns'[i].recvId # conns'[j].recvId
          ELSE conns'[i].recvId - conns'[j].recvId \notin {-1, 1}
  BY <1>1 DEF IdsApart
<1>3. ASSUME NEW i \in Ids, NEW j \in Ids
      PROVE  /\ conns'[i].initiator = conns[i].initiator
             /\ conns'[j].initiator = conns[j].initiator
             /\ conns'[i].sock = conns[i].sock /\ conns'[j].sock = conns[j].sock
             /\ conns'[i].recvId = conns[i].recvId
             /\ conns'[j].recvId = conns[j].recvId
  BY DEF Kept
<1> QED
  BY <1>1, <1>2, <1>3 DEF IdsApart

\* No connection is new, and none but the state and the promise of the old ones
\* have changed: what was true of the ends stays true.
LEMMA KeptStep ==
    ASSUME SockIInv,
           conns' \in Seq(Conns), Len(conns') = Len(conns),
           \A i \in Ids : Kept(conns[i], conns'[i]),
           connTable' \subseteq connTable,
           net' \subseteq net \cup {p \in Packets(Ids) : p.type # "SYN"},
           sockState' \in [Sockets -> {"ACTIVE", "CLOSE_WAIT", "CLOSED"}],
           listener' \in [Sockets -> Listeners],
           \A s \in Sockets : Range(listener'[s].connections) \subseteq Ids,
           closes' \in Nat
    PROVE  /\ Ids' = Ids
           /\ TypesOK' /\ EndsMatch' /\ OneForAnId'
           /\ IdsApart' <=> IdsApart
<1>1. Ids' = Ids
  BY DEF Ids
<1>2. TypesOK'
  <2>1. (conns \in Seq(Conns))'
    OBVIOUS
  <2>2. net' \subseteq Packets(Ids)
    BY DEF SockIInv, TypesOK, SocketTypeOK, Packets
  <2>3. connTable' \subseteq Ids
    BY DEF SockIInv, TypesOK, SocketTypeOK
  <2> QED
    BY <1>1, <2>1, <2>2, <2>3 DEF TypesOK, SocketTypeOK, Packets, Conns, States, Promises
<1>3. \A i \in Ids : /\ conns'[i].sock = conns[i].sock
                     /\ conns'[i].sendId = conns[i].sendId
                     /\ conns'[i].recvId = conns[i].recvId
                     /\ conns'[i].initiator = conns[i].initiator
                     /\ conns'[i].cause = conns[i].cause
  BY DEF Kept
<1>4. EndsMatch'
  <2>1. EndsMatch
    BY DEF SockIInv
  <2>2. ASSUME NEW i \in Ids, conns'[i].initiator
        PROVE  /\ conns'[i].recvId \in RandomUn16Int
               /\ conns'[i].sendId = conns'[i].recvId + 1
               /\ conns'[i].cause = None
    BY <1>3, <2>1, <2>2 DEF EndsMatch
  <2>3. ASSUME NEW i \in Ids, ~conns'[i].initiator
        PROVE  LET c == conns'[i].cause IN
               /\ c \in Ids /\ conns'[c].initiator
               /\ conns'[i].sock = Peer(conns'[c].sock)
               /\ conns'[i].sendId = conns'[c].recvId
               /\ conns'[i].recvId = conns'[c].recvId + 1
    BY <1>3, <2>1, <2>3 DEF EndsMatch
  <2>4. ASSUME NEW p \in net', p.type = "SYN"
        PROVE  conns'[p.from].initiator
    <3>1. p \in net /\ p.from \in Ids
      BY <2>4 DEF SockIInv, TypesOK, SocketTypeOK
    <3> QED
      BY <1>3, <2>1, <2>4, <3>1 DEF EndsMatch
  <2> QED
    BY <1>1, <2>2, <2>3, <2>4 DEF EndsMatch, RandomUn16Int, Peer, None
<1>5. OneForAnId'
  <2>1. \A i \in connTable' : i \in Ids /\ i \in connTable
    BY DEF SockIInv, TypesOK, SocketTypeOK
  <2>2. \A i \in connTable' : UniqueId(conns'[i]) = UniqueId(conns[i])
    BY <1>3, <2>1 DEF UniqueId
  <2>3. OneForAnId
    BY DEF SockIInv
  <2> QED
    BY <2>1, <2>2, <2>3 DEF OneForAnId, UniqueId
<1>6. IdsApart' <=> IdsApart
  BY KeptIds
<1> QED
  BY <1>1, <1>2, <1>4, <1>5, <1>6

\* A step that ends no handshake preserves the invariant if it leaves listeners
\* in order and closes the connections of a listener it closes.
LEMMA OrdinaryStep ==
    ASSUME SockIInv,
           conns' \in Seq(Conns), Len(conns') = Len(conns),
           \A i \in Ids : Ordinary(conns[i], conns'[i]),
           connTable' \subseteq connTable,
           net' \subseteq net \cup {p \in Packets(Ids) : p.type # "SYN"},
           sockState' \in [Sockets -> {"ACTIVE", "CLOSE_WAIT", "CLOSED"}],
           closes' \in Nat,
           listener' \in [Sockets -> Listeners],
           \A s \in Sockets :
              /\ Ordered(listener'[s])
              /\ Range(listener'[s].connections) \subseteq Ids
              /\ ~listener'[s].closed =>
                    /\ ~listener[s].closed
                    /\ listener'[s].connections = listener[s].connections
              /\ ~listener[s].closed /\ listener'[s].closed =>
                    \A i \in Responders(s) : conns'[i].state # "CONNECTED"
    PROVE  SockIInv'
<1>1. \A i \in Ids : /\ Kept(conns[i], conns'[i])
                     /\ conns'[i].sock = conns[i].sock
                     /\ conns'[i].initiator = conns[i].initiator
                     /\ conns'[i].cause = conns[i].cause
                     /\ conns'[i].synAck = conns[i].synAck
                     /\ conns'[i].promise = "resolved" <=> conns[i].promise = "resolved"
                     /\ conns'[i].state = conns[i].state \/ conns'[i].state \notin Opening
  BY DEF Ordinary, Kept
<1>2. /\ Ids' = Ids
      /\ TypesOK' /\ EndsMatch' /\ OneForAnId'
      /\ IdsApart' <=> IdsApart
  <2>1. \A s \in Sockets : Range(listener'[s].connections) \subseteq Ids
    OBVIOUS
  <2>2. \A i \in Ids : Kept(conns[i], conns'[i])
    BY <1>1
  <2> QED
    BY <2>1, <2>2, KeptStep
<1>3. Handshake'
  <2>1. Handshake
    BY DEF SockIInv
  <2> QED
    BY <1>1, <1>2, <2>1 DEF Handshake, Opening, None
<1>4. \A s \in Sockets : Responders(s)' = Responders(s)
  BY <1>1, <1>2 DEF Responders
<1>5. ListenersOK'
  <2>1. \A s \in Sockets : ~listener[s].closed => Range(listener[s].connections) = Responders(s)
    BY DEF SockIInv, ListenersOK
  <2>2. \A s \in Sockets : ~listener'[s].closed => Range(listener'[s].connections) = Responders(s)'
    BY <1>4, <2>1
  <2> QED
    BY <2>2 DEF ListenersOK, Ordered
<1>6. ClosedListenerClosesAll'
  <2>1. SUFFICES ASSUME NEW i \in Ids, ~conns'[i].initiator,
                        listener'[conns'[i].sock].closed, conns'[i].promise = "resolved"
                 PROVE  conns'[i].state # "CONNECTED"
    BY <1>2 DEF ClosedListenerClosesAll
  <2> DEFINE s == conns[i].sock
  <2>2. s \in Sockets /\ conns'[i].sock = s /\ ~conns[i].initiator /\ conns[i].promise = "resolved"
    BY <1>1, <2>1, ConnType DEF SockIInv, Conns
  <2>3. i \in Responders(s)
    BY <2>2 DEF Responders
  <2>4. CASE listener[s].closed
    <3>1. conns[i].state # "CONNECTED"
      BY <2>2, <2>4 DEF SockIInv, ClosedListenerClosesAll
    <3> QED
      BY <1>1, <3>1 DEF Opening
  <2>5. CASE ~listener[s].closed
    BY <2>1, <2>2, <2>3, <2>5
  <2> QED
    BY <2>4, <2>5
<1>7. AnswersItsPeer'
  <2>1. SUFFICES ASSUME IdsApart PROVE AnswersItsPeer'
    BY <1>2 DEF AnswersItsPeer
  <2>2. /\ \A k \in Ids : conns[k].synAck # None =>
              conns[k].synAck \in Ids /\ conns[conns[k].synAck].cause = k
        /\ \A i \in Ids : ~conns[i].initiator /\ conns[i].promise = "resolved" =>
              conns[conns[i].cause].synAck = i
    BY <2>1 DEF SockIInv, AnswersItsPeer
  <2>3. \A i \in Ids : ~conns[i].initiator => conns[i].cause \in Ids
    BY DEF SockIInv, EndsMatch
  <2>4. \A k \in Ids : conns'[k].synAck # None =>
              conns'[k].synAck \in Ids /\ conns'[conns'[k].synAck].cause = k
    BY <1>1, <2>2
  <2>5. \A i \in Ids : ~conns'[i].initiator /\ conns'[i].promise = "resolved" =>
              conns'[conns'[i].cause].synAck = i
    BY <1>1, <2>2, <2>3
  <2> QED
    BY <1>2, <2>4, <2>5 DEF AnswersItsPeer, None
<1> QED
  BY <1>2, <1>3, <1>5, <1>6, <1>7 DEF SockIInv

\* What a connection sends once it exists is no SYN.
LEMMA SentPackets ==
    ASSUME NEW i \in Ids, NEW type \in {"STATE", "DATA", "FIN", "RESET"}
    PROVE  Sent(i, type) \subseteq {p \in Packets(Ids) : p.type # "SYN"}
BY DEF Sent, Packets

\* The same for the FINs of close().
LEMMA SentFins ==
    ASSUME NEW cs, NEW I \in SUBSET Ids
    PROVE  FinsOf(cs, I) \subseteq {p \in Packets(Ids) : p.type # "SYN"}
<1>1. \A i \in Ids : Sent(i, "FIN") \subseteq {p \in Packets(Ids) : p.type # "SYN"}
  BY SentPackets
<1> QED
  BY <1>1 DEF FinsOf

\* A step that changes one connection, and that in an ordinary way.
LEMMA OneConnection ==
    ASSUME TypesOK, NEW i \in Ids, NEW d, Ordinary(conns[i], d)
    PROVE  /\ [conns EXCEPT ![i] = d] \in Seq(Conns)
           /\ Len([conns EXCEPT ![i] = d]) = Len(conns)
           /\ \A j \in Ids : Ordinary(conns[j], [conns EXCEPT ![i] = d][j])
<1> DEFINE f == [conns EXCEPT ![i] = d]
           n == Len(conns)
<1>1. conns \in Seq(Conns) /\ n \in Nat /\ DOMAIN conns = 1 .. n /\ i \in 1 .. n
  BY ConnType DEF Ids
<1>2. d \in Conns
  BY DEF Ordinary, Kept
<1>3. f \in [1 .. n -> Conns]
  BY <1>1, <1>2
<1>4. f \in Seq(Conns) /\ Len(f) = n
  <2> HIDE DEF f, n
  <2> QED
    BY <1>1, <1>3, FunctionIsSeq
<1>5. ASSUME NEW j \in Ids PROVE Ordinary(conns[j], f[j])
  <2>1. conns[j] \in Conns
    BY ConnType
  <2>2. Ordinary(conns[j], conns[j])
    BY <2>1 DEF Ordinary, Kept
  <2>3. f[j] = IF j = i THEN d ELSE conns[j]
    BY <1>1 DEF Ids
  <2> QED
    BY <2>2, <2>3
<1> QED
  BY <1>4, <1>5

\* A change of state that opens nothing is ordinary.
LEMMA ClosingIsOrdinary ==
    ASSUME NEW c \in Conns, NEW state \in {"CLOSE_WAIT", "CLOSED", "RESET"}
    PROVE  Ordinary(c, InState(c, state))
<1>1. state \in States /\ state \notin Opening
  BY DEF States, Opening
<1>2. Settled(c.promise, state) = "resolved" <=> c.promise = "resolved"
  BY DEF Settled
<1> QED
  BY <1>1, <1>2, InStateKeeps DEF Ordinary

\* No connection changes.
LEMMA NoConnection ==
    ASSUME TypesOK, conns' = conns
    PROVE  /\ conns' \in Seq(Conns) /\ Len(conns') = Len(conns)
           /\ \A j \in Ids : Ordinary(conns[j], conns'[j])
<1>1. conns \in Seq(Conns) /\ \A j \in Ids : conns[j] \in Conns
  BY ConnType
<1> QED
  BY <1>1 DEF Ordinary, Kept

\* close() is ordinary for every connection.
LEMMA ClosedByOrdinary ==
    ASSUME TypesOK, NEW I
    PROVE  /\ ClosedBy(conns, I) \in Seq(Conns) /\ Len(ClosedBy(conns, I)) = Len(conns)
           /\ \A j \in Ids : /\ Ordinary(conns[j], ClosedBy(conns, I)[j])
                             /\ j \in I => ClosedBy(conns, I)[j].state \notin Opening
<1>1. conns \in Seq(Conns)
  BY ConnType
<1> DEFINE f == ClosedBy(conns, I)
<1>2. /\ f \in Seq(Conns) /\ Len(f) = Len(conns)
      /\ \A i \in Ids : /\ Kept(conns[i], f[i]) /\ f[i].synAck = conns[i].synAck
                        /\ f[i].promise = conns[i].promise
                        /\ f[i].state = conns[i].state \/ f[i].state = "CLOSE_WAIT"
                        /\ i \in I => f[i].state \notin Opening
  BY <1>1, ClosedByKeeps DEF Ids
<1> HIDE DEF f
<1> QED
  BY <1>2 DEF Ordinary, Opening, f

\* The listeners when no step touches them.
LEMMA ListenersStay ==
    ASSUME SockIInv, listener' = listener
    PROVE  /\ listener' \in [Sockets -> Listeners]
           /\ \A s \in Sockets :
                 /\ Ordered(listener'[s])
                 /\ Range(listener'[s].connections) \subseteq Ids
                 /\ ~listener'[s].closed =>
                       /\ ~listener[s].closed
                       /\ listener'[s].connections = listener[s].connections
                 /\ ~listener[s].closed /\ listener'[s].closed =>
                       \A i \in Responders(s) : conns'[i].state # "CONNECTED"
BY DEF SockIInv, TypesOK, SocketTypeOK, ListenersOK

\* The listeners when one of them is closed with its connections.
LEMMA ListenersClose ==
    ASSUME SockIInv, NEW s \in Sockets,
           listener' = [listener EXCEPT ![s] = CloseListener(listener[s])],
           \A i \in Range(listener[s].connections) : conns'[i].state # "CONNECTED"
    PROVE  /\ listener' \in [Sockets -> Listeners]
           /\ \A t \in Sockets :
                 /\ Ordered(listener'[t])
                 /\ Range(listener'[t].connections) \subseteq Ids
                 /\ ~listener'[t].closed =>
                       /\ ~listener[t].closed
                       /\ listener'[t].connections = listener[t].connections
                 /\ ~listener[t].closed /\ listener'[t].closed =>
                       \A i \in Responders(t) : conns'[i].state # "CONNECTED"
<1> DEFINE new == CloseListener(listener[s])
<1>1. listener \in [Sockets -> Listeners] /\ \A t \in Sockets : Ordered(listener[t])
  BY DEF SockIInv, TypesOK, ListenersOK
<1>2. new \in Listeners /\ Ordered(new) /\ new.closed
  BY <1>1, CloseListenerOrdered
<1>3. Range(new.connections) = {}
  BY <1>1 DEF CloseListener, Listeners, Range
<1> HIDE DEF new
<1>4. /\ listener' \in [Sockets -> Listeners]
      /\ \A t \in Sockets : listener'[t] = IF t = s THEN new ELSE listener[t]
  BY <1>1, <1>2 DEF new
<1>5. \A t \in Sockets : Range(listener[t].connections) \subseteq Ids
  BY DEF SockIInv, TypesOK, SocketTypeOK
<1>6. ~listener[s].closed => Range(listener[s].connections) = Responders(s)
  BY DEF SockIInv, ListenersOK
<1> QED
  BY <1>1, <1>2, <1>3, <1>4, <1>5, <1>6

\* What a step leaves alone keeps its type.
LEMMA OldTypes ==
    ASSUME SockIInv
    PROVE  /\ TypesOK /\ closes \in Nat /\ closes + 1 \in Nat
           /\ sockState \in [Sockets -> {"ACTIVE", "CLOSE_WAIT", "CLOSED"}]
           /\ connTable \subseteq Ids
           /\ \A s \in Sockets : Range(listener[s].connections) \subseteq Ids
BY DEF SockIInv, TypesOK, SocketTypeOK

\* The end of a send, and the timer of connect().
LEMMA PromisePreserves ==
    ASSUME SockIInv, NEW i \in Ids, SendEnds(i) \/ ConnectTimeout(i)
    PROVE  SockIInv'
<1>1. PICK q \in {"waiting", "rejected"} :
         /\ conns' = [conns EXCEPT ![i].promise = q]
         /\ conns[i].promise # "resolved"
  BY DEF SendEnds, ConnectTimeout
<1> DEFINE d == [conns[i] EXCEPT !.promise = q]
<1>2. conns[i] \in Conns /\ DOMAIN conns = Ids
  BY OldTypes, ConnType
<1>3. conns' = [conns EXCEPT ![i] = d]
  BY <1>1, <1>2
<1>4. Ordinary(conns[i], d)
  BY <1>1, <1>2 DEF Ordinary, Kept, Conns, Promises
<1> HIDE DEF d
<1>5. /\ conns' \in Seq(Conns) /\ Len(conns') = Len(conns)
      /\ \A j \in Ids : Ordinary(conns[j], conns'[j])
  BY <1>3, <1>4, OldTypes, OneConnection
<1>6. /\ connTable' = connTable /\ net' = net /\ sockState' = sockState /\ closes' = closes
      /\ listener' = listener
  BY DEF SendEnds, ConnectTimeout
<1> QED
  BY <1>5, <1>6, OldTypes, ListenersStay, OrdinaryStep

\* timeoutCheck, the end of CS_CLOSE_WAIT, and reset().
LEMMA EndPreserves ==
    ASSUME SockIInv, NEW i \in Ids, SynTimeout(i) \/ Release(i) \/ ResetConn(i)
    PROVE  SockIInv'
<1>1. PICK state \in {"CLOSE_WAIT", "CLOSED", "RESET"} :
         conns' = [conns EXCEPT ![i] = InState(conns[i], state)]
  BY DEF SynTimeout, Release, ResetConn
<1>2. conns[i] \in Conns
  BY OldTypes, ConnType
<1>3. Ordinary(conns[i], InState(conns[i], state))
  BY <1>2, ClosingIsOrdinary
<1>4. /\ conns' \in Seq(Conns) /\ Len(conns') = Len(conns)
      /\ \A j \in Ids : Ordinary(conns[j], conns'[j])
  BY <1>1, <1>3, OldTypes, OneConnection
<1>5. /\ connTable' \subseteq connTable
      /\ sockState' = sockState /\ listener' = listener
      /\ closes' = closes \/ closes' = closes + 1
  BY DEF SynTimeout, Release, ResetConn, WithoutConns, CountClose
<1>6. net' \subseteq net \cup {p \in Packets(Ids) : p.type # "SYN"}
  <2>1. Sent(i, "RESET") \subseteq {p \in Packets(Ids) : p.type # "SYN"}
    BY SentPackets
  <2> QED
    BY <2>1 DEF SynTimeout, Release, ResetConn
<1>7. closes' \in Nat
  BY <1>5, OldTypes
<1> QED
  BY <1>4, <1>5, <1>6, <1>7, OldTypes, ListenersStay, OrdinaryStep

\* write(), close() of a connection, and the socket's timer.
LEMMA ClosePreserves ==
    ASSUME SockIInv,
           \/ \E i \in Ids : Write(i) \/ CloseConn(i)
           \/ \E s \in Sockets : TryCloseSocket(s)
    PROVE  SockIInv'
<1>1. /\ connTable' = connTable /\ listener' = listener
      /\ closes' = closes \/ closes' = closes + 1
  BY DEF Write, CloseConn, TryCloseSocket, CountClose
<1>2. closes' \in Nat
  BY <1>1, OldTypes
<1>3. sockState' \in [Sockets -> {"ACTIVE", "CLOSE_WAIT", "CLOSED"}]
  BY OldTypes DEF Write, CloseConn, TryCloseSocket
<1>4. CASE \E i \in Ids : Write(i)
  <2>1. PICK i \in Ids : Write(i)
    BY <1>4
  <2>2. conns' = conns
    BY <2>1 DEF Write
  <2>3. Sent(i, "DATA") \subseteq {p \in Packets(Ids) : p.type # "SYN"}
    BY SentPackets
  <2>4. net' \subseteq net \cup {p \in Packets(Ids) : p.type # "SYN"}
    BY <2>1, <2>3 DEF Write
  <2>5. /\ conns' \in Seq(Conns) /\ Len(conns') = Len(conns)
        /\ \A j \in Ids : Ordinary(conns[j], conns'[j])
    BY <2>2, OldTypes, NoConnection
  <2> QED
    BY <1>1, <1>2, <1>3, <2>4, <2>5, ListenersStay, OrdinaryStep
<1>5. CASE \/ \E i \in Ids : CloseConn(i)
           \/ \E s \in Sockets : TryCloseSocket(s)
  <2>1. PICK I \in SUBSET Ids : conns' = ClosedBy(conns, I) /\ net' = net \cup FinsOf(conns, I)
    <3>1. CASE \E i \in Ids : CloseConn(i)
      BY <3>1 DEF CloseConn
    <3>2. ASSUME NEW s \in Sockets, TryCloseSocket(s)
          PROVE  \E I \in SUBSET Ids : conns' = ClosedBy(conns, I) /\ net' = net \cup FinsOf(conns, I)
      <4>1. ToClose(s) \in SUBSET Ids
        BY OldTypes DEF ToClose, Table
      <4> QED
        BY <3>2, <4>1 DEF TryCloseSocket
    <3> QED
      BY <1>5, <3>1, <3>2
  <2>2. /\ conns' \in Seq(Conns) /\ Len(conns') = Len(conns)
        /\ \A j \in Ids : Ordinary(conns[j], conns'[j])
    BY <2>1, OldTypes, ClosedByOrdinary
  <2>3. net' \subseteq net \cup {p \in Packets(Ids) : p.type # "SYN"}
    BY <2>1, SentFins
  <2> QED
    BY <1>1, <1>2, <1>3, <2>2, <2>3, ListenersStay, OrdinaryStep
<1> QED
  BY <1>4, <1>5

\* accept().
LEMMA AcceptPreserves ==
    ASSUME SockIInv, NEW s \in Sockets, Accept(s)
    PROVE  SockIInv'
<1> DEFINE new == AcceptNext(listener[s])
<1>1. /\ listener \in [Sockets -> Listeners] /\ \A t \in Sockets : Ordered(listener[t])
      /\ ~listener[s].closed
  BY DEF SockIInv, TypesOK, ListenersOK, Accept
<1>2. /\ new \in Listeners /\ Ordered(new) /\ new.closed = listener[s].closed
      /\ new.connections = listener[s].connections
  BY <1>1, AcceptNextOrdered
<1>3. listener' = [listener EXCEPT ![s] = new]
  BY DEF Accept
<1> HIDE DEF new
<1>4. /\ listener' \in [Sockets -> Listeners]
      /\ \A t \in Sockets : listener'[t] = IF t = s THEN new ELSE listener[t]
  BY <1>1, <1>2, <1>3
<1>5. /\ conns' = conns /\ connTable' = connTable /\ net' = net /\ sockState' = sockState
      /\ closes' = closes
  BY DEF Accept
<1>6. \A t \in Sockets :
         /\ Ordered(listener'[t])
         /\ Range(listener'[t].connections) \subseteq Ids
         /\ ~listener'[t].closed => /\ ~listener[t].closed
                                    /\ listener'[t].connections = listener[t].connections
         /\ ~listener[t].closed /\ listener'[t].closed =>
               \A i \in Responders(t) : conns'[i].state # "CONNECTED"
  BY <1>1, <1>2, <1>4, OldTypes
<1>7. /\ conns' \in Seq(Conns) /\ Len(conns') = Len(conns)
      /\ \A j \in Ids : Ordinary(conns[j], conns'[j])
  BY <1>5, OldTypes, NoConnection
<1> QED
  BY <1>4, <1>5, <1>6, <1>7, OldTypes, OrdinaryStep

\* close() of a listener and of a socket.
LEMMA StopPreserves ==
    ASSUME SockIInv, NEW s \in Sockets, StopListening(s) \/ CloseSocket(s)
    PROVE  SockIInv'
<1>1. PICK I \in SUBSET Ids :
         /\ conns' = ClosedBy(conns, I) /\ net' = net \cup FinsOf(conns, I)
         /\ Range(listener[s].connections) \subseteq I
  <2> DEFINE L == Range(listener[s].connections)
  <2>1. L \in SUBSET Ids /\ L \cup ToClose(s) \in SUBSET Ids
    BY OldTypes DEF ToClose, Table
  <2> QED
    BY <2>1 DEF StopListening, CloseSocket
<1>2. /\ conns' \in Seq(Conns) /\ Len(conns') = Len(conns)
      /\ \A j \in Ids : Ordinary(conns[j], conns'[j])
      /\ \A j \in I : conns'[j].state # "CONNECTED"
  BY <1>1, OldTypes, ClosedByOrdinary DEF Opening
<1>3. net' \subseteq net \cup {p \in Packets(Ids) : p.type # "SYN"}
  BY <1>1, SentFins
<1>4. listener' = [listener EXCEPT ![s] = CloseListener(listener[s])]
  BY DEF StopListening, CloseSocket
<1>5. /\ connTable' = connTable /\ closes' = closes + 1
      /\ sockState' \in [Sockets -> {"ACTIVE", "CLOSE_WAIT", "CLOSED"}]
  BY OldTypes DEF StopListening, CloseSocket, CountClose
<1>6. /\ listener' \in [Sockets -> Listeners]
      /\ \A t \in Sockets :
            /\ Ordered(listener'[t])
            /\ Range(listener'[t].connections) \subseteq Ids
            /\ ~listener'[t].closed => /\ ~listener[t].closed
                                       /\ listener'[t].connections = listener[t].connections
            /\ ~listener[t].closed /\ listener'[t].closed =>
                  \A i \in Responders(t) : conns'[i].state # "CONNECTED"
  <2>1. \A i \in Range(listener[s].connections) : conns'[i].state # "CONNECTED"
    BY <1>1, <1>2
  <2> QED
    BY <1>4, <2>1, ListenersClose
<1> QED
  BY <1>2, <1>3, <1>5, <1>6, OldTypes, OrdinaryStep

-----------------------------------------------------------------------------
(* New connections *)

\* A new connection whose ids fit those of its peer.
LEMMA CreatePreserves ==
    ASSUME SockIInv, NEW c \in Conns, NEW type \in {"SYN", "STATE"}, Create(c, type),
           c.synAck = None, c.promise # "resolved",
           \/ /\ c.initiator /\ c.state = "SYN_SENT"
              /\ c.recvId \in RandomUn16Int /\ c.sendId = c.recvId + 1 /\ c.cause = None
           \/ /\ ~c.initiator /\ c.state = "SYN_RECV" /\ type = "STATE"
              /\ c.cause \in Ids /\ conns[c.cause].initiator
              /\ c.sock = Peer(conns[c.cause].sock)
              /\ c.sendId = conns[c.cause].recvId
              /\ c.recvId = conns[c.cause].recvId + 1
    PROVE  SockIInv'
<1> DEFINE n == Len(conns)
           new == n + 1
<1>1. conns \in Seq(Conns) /\ n \in Nat /\ Ids = 1 .. n
  BY OldTypes, ConnType DEF Ids
<1>2. conns' = Append(conns, c)
  BY DEF Create
<1>3. /\ conns' \in Seq(Conns) /\ Ids' = 1 .. new
      /\ \A i \in Ids : conns'[i] = conns[i]
      /\ conns'[new] = c
  BY <1>1, <1>2 DEF Ids
<1>4. /\ \A i \in Ids' : i \in Ids \/ i = new
      /\ \A i \in Ids : i \in Ids' /\ i # new
      /\ new \in Ids' /\ new \in Nat /\ new # None
  BY <1>1, <1>3 DEF None
<1>5. listener' = listener /\ sockState' = sockState /\ closes' = closes
  BY DEF Create
<1>6. /\ connTable' \subseteq connTable \cup {new}
      /\ \A i \in connTable' \ {new} : UniqueId(conns[i]) # UniqueId(c)
  BY DEF Create, WithConn, FindConn
<1>7. \A p \in net' : p \in net \/ p = [type |-> type, from |-> new]
  BY DEF Create
<1> HIDE DEF new, n
<1>8. TypesOK'
  <2>1. connTable' \subseteq Ids'
    BY <1>4, <1>6, OldTypes
  <2>2. net' \subseteq [type : {"SYN", "STATE", "DATA", "FIN", "RESET"}, from : Ids']
    <3>1. \A p \in net : p \in [type : {"SYN", "STATE", "DATA", "FIN", "RESET"}, from : Ids]
      BY OldTypes DEF TypesOK, SocketTypeOK
    <3> QED
      BY <1>4, <1>7, <3>1
  <2>3. \A s \in Sockets : Range(listener'[s].connections) \subseteq Ids'
    BY <1>4, <1>5, OldTypes
  <2>4. closes' \in Nat /\ sockState' \in [Sockets -> {"ACTIVE", "CLOSE_WAIT", "CLOSED"}]
    BY <1>5, OldTypes
  <2>5. listener' \in [Sockets -> Listeners]
    BY <1>5, OldTypes DEF TypesOK
  <2> QED
    BY <1>3, <2>1, <2>2, <2>3, <2>4, <2>5
       DEF TypesOK, SocketTypeOK, Conns, States, Promises
<1>9. EndsMatch'
  <2>1. EndsMatch
    BY DEF SockIInv
  <2>2. ASSUME NEW i \in Ids', conns'[i].initiator
        PROVE  /\ conns'[i].recvId \in RandomUn16Int
               /\ conns'[i].sendId = conns'[i].recvId + 1
               /\ conns'[i].cause = None
    <3>1. CASE i \in Ids
      BY <1>3, <2>1, <2>2, <3>1 DEF EndsMatch
    <3>2. CASE i = new
      BY <1>3, <2>2, <3>2
    <3> QED
      BY <1>4, <3>1, <3>2
  <2>3. ASSUME NEW i \in Ids', ~conns'[i].initiator
        PROVE  LET d == conns'[i].cause IN
               /\ d \in Ids' /\ conns'[d].initiator
               /\ conns'[i].sock = Peer(conns'[d].sock)
               /\ conns'[i].sendId = conns'[d].recvId
               /\ conns'[i].recvId = conns'[d].recvId + 1
    <3>1. CASE i \in Ids
      <4>1. conns'[i] = conns[i] /\ ~conns[i].initiator
        BY <1>3, <2>3, <3>1
      <4>2. /\ conns[i].cause \in Ids
            /\ conns[conns[i].cause].initiator
            /\ conns[i].sock = Peer(conns[conns[i].cause].sock)
            /\ conns[i].sendId = conns[conns[i].cause].recvId
            /\ conns[i].recvId = conns[conns[i].cause].recvId + 1
        BY <2>1, <3>1, <4>1 DEF EndsMatch
      <4>3. /\ conns'[conns[i].cause] = conns[conns[i].cause]
            /\ conns[i].cause \in Ids'
        BY <1>3, <1>4, <4>2
      <4> QED
        BY <4>1, <4>2, <4>3
    <3>2. CASE i = new
      <4>1. conns'[i] = c /\ ~c.initiator
        BY <1>3, <2>3, <3>2
      <4>2. /\ c.cause \in Ids
            /\ conns[c.cause].initiator
            /\ c.sock = Peer(conns[c.cause].sock)
            /\ c.sendId = conns[c.cause].recvId
            /\ c.recvId = conns[c.cause].recvId + 1
        BY <4>1
      <4>3. conns'[c.cause] = conns[c.cause] /\ c.cause \in Ids'
        BY <1>3, <1>4, <4>2
      <4> QED
        BY <4>1, <4>2, <4>3
    <3> QED
      BY <1>4, <3>1, <3>2
  <2>4. ASSUME NEW p \in net', p.type = "SYN"
        PROVE  conns'[p.from].initiator
    <3>1. CASE p \in net
      <4>1. p.from \in Ids
        BY <3>1, OldTypes DEF TypesOK, SocketTypeOK
      <4> QED
        BY <1>3, <2>1, <2>4, <3>1, <4>1 DEF EndsMatch
    <3>2. CASE p = [type |-> type, from |-> new]
      <4>1. type = "SYN" /\ p.from = new
        BY <2>4, <3>2
      <4>2. c.initiator
        BY <4>1
      <4> QED
        BY <1>3, <4>1, <4>2
    <3> QED
      BY <1>7, <3>1, <3>2
  <2> QED
    BY <2>2, <2>3, <2>4 DEF EndsMatch, RandomUn16Int, Peer, None
<1>10. OneForAnId'
  <2>1. \A i \in connTable' \ {new} : i \in connTable /\ conns'[i] = conns[i]
    BY <1>3, <1>6, OldTypes
  <2>2. \A i, j \in connTable : UniqueId(conns[i]) = UniqueId(conns[j]) => i = j
    BY DEF SockIInv, OneForAnId
  <2>3. ASSUME NEW i \in connTable', NEW j \in connTable',
               UniqueId(conns'[i]) = UniqueId(conns'[j])
        PROVE  i = j
    <3>1. CASE i # new /\ j # new
      BY <2>1, <2>2, <2>3, <3>1
    <3>2. CASE i = new \/ j = new
      BY <1>3, <1>6, <2>1, <2>3, <3>2
    <3> QED
      BY <3>1, <3>2
  <2> QED
    BY <2>3 DEF OneForAnId, UniqueId
<1>11. Handshake'
  <2>1. Handshake
    BY DEF SockIInv
  <2> QED
    BY <1>3, <1>4, <2>1 DEF Handshake, None
<1>12. \A s \in Sockets : Responders(s)' = Responders(s)
  BY <1>3, <1>4 DEF Responders
<1>13. ListenersOK'
  <2>1. \A s \in Sockets :
           /\ Ordered(listener'[s])
           /\ ~listener'[s].closed => Range(listener'[s].connections) = Responders(s)'
    BY <1>5, <1>12 DEF SockIInv, ListenersOK
  <2> QED
    BY <2>1 DEF ListenersOK, Ordered
<1>14. ClosedListenerClosesAll'
  <2>1. ClosedListenerClosesAll
    BY DEF SockIInv
  <2> QED
    BY <1>3, <1>4, <1>5, <2>1 DEF ClosedListenerClosesAll
<1>15. AnswersItsPeer'
  <2>1. SUFFICES ASSUME IdsApart' PROVE AnswersItsPeer'
    BY DEF AnswersItsPeer
  <2>2. IdsApart
    BY <1>3, <1>4, <2>1 DEF IdsApart
  <2>3. /\ \A k \in Ids : conns[k].synAck # None =>
              conns[k].synAck \in Ids /\ conns[conns[k].synAck].cause = k
        /\ \A i \in Ids : ~conns[i].initiator /\ conns[i].promise = "resolved" =>
              conns[conns[i].cause].synAck = i
    BY <2>2 DEF SockIInv, AnswersItsPeer
  <2>4. \A i \in Ids : ~conns[i].initiator => conns[i].cause \in Ids
    BY DEF SockIInv, EndsMatch
  <2>5. \A k \in Ids' : conns'[k].synAck # None =>
              conns'[k].synAck \in Ids' /\ conns'[conns'[k].synAck].cause = k
    BY <1>3, <1>4, <2>3
  <2>6. \A i \in Ids' : ~conns'[i].initiator /\ conns'[i].promise = "resolved" =>
              conns'[conns'[i].cause].synAck = i
    BY <1>3, <1>4, <2>3, <2>4
  <2> QED
    BY <2>5, <2>6 DEF AnswersItsPeer, None
<1> QED
  BY <1>8, <1>9, <1>10, <1>11, <1>13, <1>14, <1>15 DEF SockIInv

\* connect().
LEMMA ConnectPreserves ==
    ASSUME SockIInv, NEW s \in Sockets, NEW id \in RandomUn16Int, Connect(s, id)
    PROVE  SockIInv'
<1> DEFINE c == NewConn(s, id + 1, id, "SYN_SENT", None)
<1>1. id \in Int /\ id \in WireIds /\ id + 1 \in WireIds
  BY SocketAssumption DEF RandomUn16Int, WireIds
<1>2. /\ c \in Conns /\ c.initiator /\ c.state = "SYN_SENT" /\ c.synAck = None
      /\ c.promise # "resolved" /\ c.recvId = id /\ c.sendId = id + 1 /\ c.cause = None
  BY <1>1 DEF NewConn, Conns, States, Opening, Promises, None
<1>3. Create(c, "SYN")
  BY DEF Connect
<1> HIDE DEF c
<1> QED
  BY <1>2, <1>3, CreatePreserves

\* A SYN arrives.
LEMMA ReceiveSynPreserves ==
    ASSUME SockIInv, NEW p \in net, ReceiveSyn(p)
    PROVE  SockIInv'
<1> DEFINE f == p.from
           id == conns[f].recvId
           c == NewConn(Peer(conns[f].sock), id, id + 1, "SYN_RECV", f)
<1>1. f \in Ids /\ p.type = "SYN"
  BY OldTypes DEF TypesOK, SocketTypeOK, ReceiveSyn
<1>2. conns[f].initiator /\ id \in RandomUn16Int
  BY <1>1 DEF SockIInv, EndsMatch
<1>3. f \in Nat /\ conns[f].sock \in Sockets
  BY <1>1, OldTypes, ConnType DEF Conns
<1>4. id \in Int /\ id \in WireIds /\ id + 1 \in WireIds
  BY <1>2, SocketAssumption DEF RandomUn16Int, WireIds
<1>5. Peer(conns[f].sock) \in Sockets
  BY <1>3, Peers
<1>6. Create(c, "STATE")
  BY <1>1 DEF ReceiveSyn, Destination, ConnId
<1> HIDE DEF f, id
<1>7. /\ c \in Conns /\ c.initiator = FALSE /\ c.state = "SYN_RECV" /\ c.synAck = None
      /\ c.promise # "resolved" /\ c.recvId = id + 1 /\ c.sendId = id /\ c.cause = f
      /\ c.sock = Peer(conns[f].sock)
  BY <1>3, <1>4, <1>5 DEF NewConn, Conns, States, Opening, Promises, None
<1> HIDE DEF c
<1> QED
  BY <1>1, <1>2, <1>6, <1>7, CreatePreserves DEF id

-----------------------------------------------------------------------------
(* Packets *)

\* The SYN-ACK of the initiator, and the first DATA of the responder.
GetsSynAck(c, d, p) ==
    /\ c.state = "SYN_SENT" /\ d.synAck = p.from
    /\ d.state \notin {"SYN_SENT", "SYN_RECV"}
GetsAnswer(c, d, p, i) ==
    /\ c.state = "SYN_RECV" /\ d.synAck = c.synAck /\ conns[p.from].synAck = i
    /\ d.state \notin {"SYN_SENT", "SYN_RECV"}

\* What a packet does to a connection that gets to see it.
LEMMA AfterPacketFacts ==
    ASSUME SockIInv, NEW p \in net, NEW i \in Ids
    PROVE  LET c == conns[i]
               d == AfterPacket(i, p)
           IN  /\ Kept(c, d)
               /\ \/ Ordinary(c, d)
                  \/ GetsSynAck(c, d, p)
                  \/ GetsAnswer(c, d, p, i)
<1> DEFINE c == conns[i]
           d == AfterPacket(i, p)
           e == InState(c, "CONNECTED")
<1>1. c \in Conns
  BY OldTypes, ConnType
<1>2. p.from \in Nat
  BY OldTypes, ConnType DEF TypesOK, SocketTypeOK
<1>3. Ordinary(c, c)
  BY <1>1 DEF Ordinary, Kept
<1>4. /\ Ordinary(c, InState(c, "RESET")) /\ Ordinary(c, InState(c, "CLOSE_WAIT"))
  BY <1>1, ClosingIsOrdinary
<1>5. Kept(c, e) /\ e.state = "CONNECTED" /\ e.synAck = c.synAck
  BY <1>1, InStateKeeps DEF States, Opening
<1>6. CASE p.type = "RESET" \/ ~Handles(i, p)
  <2>1. d = InState(c, "RESET") \/ d = c
    BY <1>6 DEF AfterPacket
  <2> HIDE DEF d
  <2> QED
    BY <1>3, <1>4, <2>1 DEF Ordinary, d
<1>7. CASE p.type # "RESET" /\ Handles(i, p)
  <2>1. CASE c.state = "SYN_SENT"
    <3>1. p.type = "STATE"
      BY <1>7, <2>1 DEF Handles
    <3>2. d = [e EXCEPT !.synAck = p.from]
      BY <1>7, <2>1, <3>1 DEF AfterPacket
    <3> HIDE DEF e, d
    <3>3. Kept(c, d) /\ d.state = "CONNECTED" /\ d.synAck = p.from
      BY <1>2, <1>5, <3>2 DEF Kept, Conns
    <3> QED
      BY <2>1, <3>3 DEF GetsSynAck, d
  <2>2. CASE c.state = "SYN_RECV"
    <3>1. p.type = "DATA" /\ conns[p.from].synAck = i
      BY <1>7, <2>2 DEF Handles, Answers
    <3>2. d = e
      BY <1>7, <2>2, <3>1 DEF AfterPacket
    <3> HIDE DEF e, d
    <3> QED
      BY <1>5, <2>2, <3>1, <3>2 DEF GetsAnswer, d
  <2>3. CASE c.state # "SYN_SENT" /\ c.state # "SYN_RECV"
    <3>1. d = InState(c, "CLOSE_WAIT") \/ d = c
      <4>1. CASE p.type = "FIN"
        BY <1>7, <2>3, <4>1 DEF AfterPacket
      <4>2. CASE p.type # "FIN"
        BY <1>7, <2>3, <4>2 DEF AfterPacket
      <4> QED
        BY <4>1, <4>2
    <3> HIDE DEF d
    <3> QED
      BY <1>3, <1>4, <3>1 DEF Ordinary, d
  <2> QED
    BY <2>1, <2>2, <2>3
<1> QED
  BY <1>6, <1>7

\* Those who see a packet are in the table, and one of them at most is a
\* responder.
LEMMA WhoReceives ==
    ASSUME SockIInv, NEW p \in net, p.type # "SYN", NEW R \in Receivers(p)
    PROVE  /\ R \subseteq InitiatorFor(p) \cup ResponderFor(p)
           /\ R \subseteq Ids
           /\ \A i, j \in R : ~conns[i].initiator /\ ~conns[j].initiator => i = j
<1>1. R \subseteq InitiatorFor(p) \cup ResponderFor(p)
  BY DEF Receivers
<1>2. InitiatorFor(p) \cup ResponderFor(p) \subseteq connTable
  BY DEF InitiatorFor, ResponderFor, FindConn
<1>3. connTable \subseteq Ids
  BY OldTypes
<1>4. ASSUME NEW i \in R, ~conns[i].initiator
      PROVE  i \in ResponderFor(p)
  <2>1. i \in Ids /\ conns[i].recvId = conns[i].sendId + 1
    BY <1>1, <1>2, <1>3, <1>4 DEF SockIInv, EndsMatch
  <2>2. conns[i].sendId \in Int /\ conns[i].recvId \in Int
    BY <2>1, OldTypes, ConnType
  <2>3. ASSUME i \in InitiatorFor(p) PROVE FALSE
    <3>1. conns[i].sendId = ConnId(p) + 1 /\ conns[i].recvId = ConnId(p)
      BY <2>3, Found, OldTypes DEF InitiatorFor
    <3> QED
      BY <2>1, <2>2, <3>1
  <2> QED
    BY <1>1, <2>3
<1>5. ASSUME NEW i \in ResponderFor(p), NEW j \in ResponderFor(p)
      PROVE  i = j
  <2>1. i \in connTable /\ j \in connTable /\ UniqueId(conns[i]) = UniqueId(conns[j])
    BY DEF ResponderFor, FindConn
  <2> QED
    BY <2>1 DEF SockIInv, OneForAnId
<1> QED
  BY <1>1, <1>2, <1>3, <1>4, <1>5

\* A packet arrives at the connections that get to see it.
LEMMA ReceivePreserves ==
    ASSUME SockIInv, NEW p \in net, Receive(p)
    PROVE  SockIInv'
<1>1. PICK R \in Receivers(p) : ReceiveBy(R, p)
  BY DEF Receive
<1>2. p.type # "SYN" /\ sockState' = sockState /\ closes' = closes
  BY DEF Receive
<1> DEFINE after == [i \in Ids |-> IF i \in R THEN AfterPacket(i, p) ELSE conns[i]]
           new == Established(R, p)
           no == Refused(new)
<1>3. /\ R \subseteq Ids /\ R \subseteq InitiatorFor(p) \cup ResponderFor(p)
      /\ \A i, j \in R : ~conns[i].initiator /\ ~conns[j].initiator => i = j
  BY <1>2, WhoReceives
<1>4. p.from \in Ids /\ p.from \in Nat /\ p.from # None
  BY OldTypes, ConnType DEF TypesOK, SocketTypeOK, Ids, None
<1>5. /\ conns' = ClosedBy(after, no)
      /\ net' = net \cup (UNION {Reply(i, p) : i \in R}) \cup FinsOf(after, no)
      /\ connTable' \subseteq connTable
      /\ listener' = [s \in Sockets |->
               LET here == {i \in new : conns[i].sock = s}
               IN  IF here = {} THEN listener[s]
                   ELSE AddConnection(listener[s], CHOOSE i \in here : TRUE)]
  BY <1>1 DEF ReceiveBy, WithoutConns
<1>6. /\ new \subseteq R /\ no \subseteq new
      /\ \A i \in new : /\ ~conns[i].initiator /\ conns[i].promise = "waiting"
                        /\ AfterPacket(i, p).promise = "resolved"
      /\ \A i \in new : listener[conns[i].sock].closed => i \in no
      /\ \A i \in R \ new : ~conns[i].initiator => ~(/\ conns[i].promise = "waiting"
                                                     /\ AfterPacket(i, p).promise = "resolved")
  BY DEF Established, Refused
<1>7. \A i \in Ids : /\ Kept(conns[i], after[i])
                     /\ \/ Ordinary(conns[i], after[i])
                        \/ i \in R /\ GetsSynAck(conns[i], after[i], p)
                        \/ i \in R /\ GetsAnswer(conns[i], after[i], p, i)
                     /\ i \in R => after[i] = AfterPacket(i, p)
  <2>1. ASSUME NEW i \in Ids
        PROVE  /\ Kept(conns[i], after[i])
               /\ \/ Ordinary(conns[i], after[i])
                  \/ i \in R /\ GetsSynAck(conns[i], after[i], p)
                  \/ i \in R /\ GetsAnswer(conns[i], after[i], p, i)
               /\ i \in R => after[i] = AfterPacket(i, p)
    <3>1. CASE i \in R
      <4>1. after[i] = AfterPacket(i, p)
        BY <3>1
      <4> QED
        BY <3>1, <4>1, AfterPacketFacts
    <3>2. CASE i \notin R
      <4>1. after[i] = conns[i]
        BY <3>2
      <4>2. conns[i] \in Conns
        BY OldTypes, ConnType
      <4> HIDE DEF after
      <4> QED
        BY <3>2, <4>1, <4>2 DEF Ordinary, Kept
    <3> QED
      BY <3>1, <3>2
  <2> QED
    BY <2>1
<1>8. after \in Seq(Conns) /\ Len(after) = Len(conns) /\ DOMAIN after = Ids
  <2>1. Len(conns) \in Nat /\ Ids = 1 .. Len(conns)
    BY OldTypes, ConnType DEF Ids
  <2>2. \A i \in Ids : after[i] \in Conns
    BY <1>7 DEF Kept
  <2>3. DOMAIN after = Ids /\ after = [i \in Ids |-> after[i]]
    OBVIOUS
  <2> HIDE DEF after
  <2>4. after \in [1 .. Len(conns) -> Conns]
    BY <2>1, <2>2, <2>3
  <2> QED
    BY <2>1, <2>3, <2>4, FunctionIsSeq
<1> HIDE DEF after, new, no

<1>9. /\ conns' \in Seq(Conns) /\ Len(conns') = Len(conns)
      /\ \A i \in Ids : /\ Kept(after[i], conns'[i])
                        /\ conns'[i].synAck = after[i].synAck
                        /\ conns'[i].promise = after[i].promise
                        /\ conns'[i].state = after[i].state \/ conns'[i].state = "CLOSE_WAIT"
                        /\ i \in no => conns'[i].state \notin Opening
  BY <1>5, <1>8, ClosedByKeeps DEF Ids
<1>10. ASSUME NEW i \in Ids
       PROVE  /\ Kept(conns[i], conns'[i])
              /\ conns'[i].sock = conns[i].sock
              /\ conns'[i].initiator = conns[i].initiator
              /\ conns'[i].cause = conns[i].cause
              /\ \/ Ordinary(conns[i], conns'[i])
                 \/ i \in R /\ GetsSynAck(conns[i], conns'[i], p)
                 \/ i \in R /\ GetsAnswer(conns[i], conns'[i], p, i)
  <2>1. Kept(conns[i], after[i]) /\ Kept(after[i], conns'[i])
    BY <1>7, <1>9
  <2>2. Kept(conns[i], conns'[i])
    BY <2>1 DEF Kept
  <2>3. CASE Ordinary(conns[i], after[i])
    <3>1. Ordinary(conns[i], conns'[i])
      BY <1>9, <2>2, <2>3 DEF Ordinary, Opening
    <3> QED
      BY <2>2, <3>1 DEF Kept
  <2>4. CASE i \in R /\ GetsSynAck(conns[i], after[i], p)
    <3>1. GetsSynAck(conns[i], conns'[i], p)
      BY <1>9, <2>4 DEF GetsSynAck
    <3> QED
      BY <2>2, <2>4, <3>1 DEF Kept
  <2>5. CASE i \in R /\ GetsAnswer(conns[i], after[i], p, i)
    <3>1. GetsAnswer(conns[i], conns'[i], p, i)
      BY <1>9, <2>5 DEF GetsAnswer
    <3> QED
      BY <2>2, <2>5, <3>1 DEF Kept
  <2> QED
    BY <1>7, <2>3, <2>4, <2>5
<1>11. Handshake
  BY DEF SockIInv
\* The promises of responders: those of `new` are resolved in this step.
<1>12. ASSUME NEW i \in Ids, ~conns[i].initiator
       PROVE  conns'[i].promise = "resolved" <=> conns[i].promise = "resolved" \/ i \in new
  <2>1. conns'[i].promise = after[i].promise
    BY <1>9
  <2>2. CASE i \in new
    BY <1>6, <1>7, <2>1, <2>2
  <2>3. CASE i \notin new
    <3>1. CASE Ordinary(conns[i], after[i])
      BY <2>1, <2>3, <3>1 DEF Ordinary
    <3>2. CASE i \in R /\ GetsSynAck(conns[i], after[i], p)
      BY <1>11, <1>12, <3>2 DEF Handshake, GetsSynAck
    <3>3. CASE i \in R /\ GetsAnswer(conns[i], after[i], p, i)
      <4>1. after[i] = AfterPacket(i, p) /\ conns[i].state = "SYN_RECV"
        BY <1>7, <3>3 DEF GetsAnswer
      <4>2. conns[i].promise # "resolved"
        BY <1>11, <4>1 DEF Handshake
      <4>3. ~(conns[i].promise = "waiting" /\ after[i].promise = "resolved")
        BY <1>6, <1>12, <2>3, <3>3, <4>1
      <4>4. conns[i].promise # "waiting" => after[i].promise = conns[i].promise
        <5>1. conns[i] \in Conns
          BY OldTypes, ConnType
        <5>2. after[i].promise = conns[i].promise
                \/ \E state \in States : after[i].promise = Settled(conns[i].promise, state)
          BY <4>1, <5>1, InStateKeeps DEF AfterPacket, States, Opening
        <5> QED
          BY <5>2 DEF Settled
      <4> QED
        BY <2>1, <2>3, <4>2, <4>3, <4>4
    <3> QED
      BY <1>7, <3>1, <3>2, <3>3
  <2> QED
    BY <2>2, <2>3
<1>13. \A s \in Sockets : (Responders(s))' = Responders(s) \cup {i \in new : conns[i].sock = s}
  <2>1. Ids' = Ids
    BY <1>9 DEF Ids
  <2>2. new \subseteq Ids /\ \A i \in new : ~conns[i].initiator
    BY <1>3, <1>6
  <2> QED
    BY <1>10, <1>12, <2>1, <2>2 DEF Responders
\* The listeners.
<1>14. /\ listener' \in [Sockets -> Listeners]
       /\ \A s \in Sockets :
             /\ Ordered(listener'[s])
             /\ Range(listener'[s].connections) \subseteq Ids
             /\ listener'[s].closed = listener[s].closed
             /\ ~listener[s].closed => Range(listener'[s].connections) = (Responders(s))'
  <2>1. \A s \in Sockets : /\ listener[s] \in Listeners /\ Ordered(listener[s])
                           /\ Range(listener[s].connections) \subseteq Ids
                           /\ ~listener[s].closed =>
                                 Range(listener[s].connections) = Responders(s)
    BY OldTypes DEF SockIInv, TypesOK, ListenersOK
  <2>2. ASSUME NEW s \in Sockets
        PROVE  /\ listener'[s] \in Listeners
               /\ Ordered(listener'[s])
               /\ Range(listener'[s].connections) \subseteq Ids
               /\ listener'[s].closed = listener[s].closed
               /\ ~listener[s].closed => Range(listener'[s].connections) = (Responders(s))'
    <3> DEFINE here == {i \in new : conns[i].sock = s}
               r == CHOOSE i \in here : TRUE
    <3>1. CASE here = {}
      <4>1. listener'[s] = listener[s]
        BY <1>5, <3>1
      <4> QED
        BY <1>13, <2>1, <3>1, <4>1
    <3>2. CASE here # {}
      <4>1. listener'[s] = AddConnection(listener[s], r)
        BY <1>5, <3>2
      <4>2. r \in here
        BY <3>2
      <4>3. here = {r}
        BY <1>3, <1>6, <4>2
      <4>4. r \in Ids /\ r \in Nat /\ conns[r].promise = "waiting"
        BY <1>3, <1>6, <4>2, OldTypes, ConnType
      <4>5. r \notin Responders(s)
        BY <4>4 DEF Responders
      <4>6. (Responders(s))' = Responders(s) \cup {r}
        BY <1>13, <4>3
      <4> HIDE DEF r, here
      <4>7. CASE listener[s].closed
        <5>1. listener'[s] = listener[s]
          BY <4>1, <4>7 DEF AddConnection
        <5> QED
          BY <2>1, <4>7, <5>1
      <4>8. CASE ~listener[s].closed
        <5>1. r \notin Range(listener[s].connections)
          BY <2>1, <4>5, <4>8
        <5>2. /\ listener'[s] \in Listeners /\ Ordered(listener'[s])
              /\ listener'[s].closed = listener[s].closed
              /\ Range(listener'[s].connections) = Range(listener[s].connections) \cup {r}
          BY <2>1, <4>1, <4>4, <4>8, <5>1, AddConnectionOrdered
        <5> QED
          BY <2>1, <4>4, <4>6, <4>8, <5>2
      <4> QED
        BY <4>7, <4>8
    <3> QED
      BY <3>1, <3>2
  <2>3. listener' \in [Sockets -> Listeners]
    <3>1. listener' = [s \in Sockets |-> listener'[s]]
      BY <1>5
    <3> QED
      BY <2>2, <3>1
  <2> QED
    BY <2>2, <2>3
<1>15. net' \subseteq net \cup {q \in Packets(Ids) : q.type # "SYN"}
  <2>1. FinsOf(after, no) \subseteq {q \in Packets(Ids) : q.type # "SYN"}
    BY <1>3, <1>6, SentFins
  <2>2. ASSUME NEW i \in R
        PROVE  Reply(i, p) \subseteq {q \in Packets(Ids) : q.type # "SYN"}
    <3>1. /\ Sent(i, "RESET") \subseteq {q \in Packets(Ids) : q.type # "SYN"}
          /\ Sent(i, "STATE") \subseteq {q \in Packets(Ids) : q.type # "SYN"}
          /\ Sent(i, "FIN") \subseteq {q \in Packets(Ids) : q.type # "SYN"}
      BY <1>3, SentPackets
    <3> QED
      BY <3>1 DEF Reply
  <2>3. ASSUME NEW q \in net'
        PROVE  q \in net \/ q \in {x \in Packets(Ids) : x.type # "SYN"}
    <3> DEFINE replies == UNION {Reply(i, p) : i \in R}
    <3>1. net' = net \cup replies \cup FinsOf(after, no)
      BY <1>5
    <3>2. ASSUME q \in replies
          PROVE  \E i \in R : q \in Reply(i, p)
      BY <3>2
    <3> HIDE DEF replies
    <3>3. q \in net \/ q \in replies \/ q \in FinsOf(after, no)
      BY <2>3, <3>1
    <3> QED
      BY <2>1, <2>2, <3>2, <3>3, Zenon
  <2> QED
    BY <2>3
<1>16. /\ Ids' = Ids /\ TypesOK' /\ EndsMatch' /\ OneForAnId'
       /\ IdsApart' <=> IdsApart
  <2>1. \A i \in Ids : Kept(conns[i], conns'[i])
    BY <1>10
  <2>2. /\ listener' \in [Sockets -> Listeners]
        /\ \A s \in Sockets : Range(listener'[s].connections) \subseteq Ids
    BY <1>14
  <2>3. /\ closes' \in Nat /\ sockState' \in [Sockets -> {"ACTIVE", "CLOSE_WAIT", "CLOSED"}]
        /\ connTable' \subseteq connTable
    BY <1>2, <1>5, OldTypes
  <2> QED
    BY <1>9, <1>15, <2>1, <2>2, <2>3, KeptStep
<1>17. Handshake'
  <2>1. ASSUME NEW i \in Ids
        PROVE  /\ conns'[i].state = "SYN_SENT" => conns'[i].initiator /\ conns'[i].synAck = None
               /\ conns'[i].state = "SYN_RECV" => ~conns'[i].initiator
               /\ ~conns'[i].initiator => conns'[i].synAck = None
               /\ conns'[i].promise = "resolved" => conns'[i].state \notin {"SYN_SENT", "SYN_RECV"}
    <3>1. CASE Ordinary(conns[i], conns'[i])
      BY <1>10, <1>11, <3>1 DEF Handshake, Ordinary, Opening
    <3>2. CASE GetsSynAck(conns[i], conns'[i], p)
      BY <1>10, <1>11, <3>2 DEF Handshake, GetsSynAck
    <3>3. CASE GetsAnswer(conns[i], conns'[i], p, i)
      BY <1>10, <1>11, <3>3 DEF Handshake, GetsAnswer
    <3> QED
      BY <1>10, <3>1, <3>2, <3>3
  <2> QED
    BY <1>16, <2>1 DEF Handshake, None
<1>18. ListenersOK'
  BY <1>14 DEF ListenersOK, Ordered
<1>19. ClosedListenerClosesAll'
  <2>1. SUFFICES ASSUME NEW i \in Ids, ~conns'[i].initiator,
                        listener'[conns'[i].sock].closed, conns'[i].promise = "resolved"
                 PROVE  conns'[i].state # "CONNECTED"
    BY <1>16 DEF ClosedListenerClosesAll
  <2> DEFINE s == conns[i].sock
  <2>2. s \in Sockets /\ conns'[i].sock = s /\ ~conns[i].initiator
    BY <1>10, <2>1, OldTypes, ConnType DEF Conns
  <2>3. listener[s].closed
    BY <1>14, <2>1, <2>2
  <2>4. CASE i \in new
    BY <1>6, <1>9, <2>3, <2>4 DEF Opening
  <2>5. CASE i \notin new
    <3>1. conns[i].promise = "resolved"
      BY <1>12, <2>1, <2>2, <2>5
    <3>2. conns[i].state \notin {"CONNECTED", "SYN_SENT", "SYN_RECV"}
      BY <1>11, <2>2, <2>3, <3>1 DEF SockIInv, ClosedListenerClosesAll, Handshake
    <3>3. Ordinary(conns[i], conns'[i])
      BY <1>10, <3>2 DEF GetsSynAck, GetsAnswer
    <3> QED
      BY <3>2, <3>3 DEF Ordinary, Opening
  <2> QED
    BY <2>4, <2>5
<1>20. AnswersItsPeer'
  <2>1. SUFFICES ASSUME IdsApart PROVE AnswersItsPeer'
    BY <1>16 DEF AnswersItsPeer
  <2>2. /\ \A k \in Ids : conns[k].synAck # None =>
              conns[k].synAck \in Ids /\ conns[conns[k].synAck].cause = k
        /\ \A i \in Ids : ~conns[i].initiator /\ conns[i].promise = "resolved" =>
              conns[conns[i].cause].synAck = i
    BY <2>1 DEF SockIInv, AnswersItsPeer
  \* The initiator that gets a SYN-ACK is the cause of its sender.
  <2>3. ASSUME NEW k \in R, GetsSynAck(conns[k], conns'[k], p)
        PROVE  conns[p.from].cause = k
    <3>1. conns[k].initiator
      BY <1>3, <1>11, <2>3 DEF Handshake, GetsSynAck
    <3>2. conns[k].cause = None
      BY <1>3, <3>1 DEF SockIInv, EndsMatch
    <3>3. k \in {i \in connTable : conns[p.from].cause = i \/ conns[i].cause = p.from}
      BY <1>2, <1>3, <2>1, ReachesPeer DEF SockIInv
    <3> QED
      BY <1>4, <3>2, <3>3
  <2>4. ASSUME NEW k \in Ids, conns'[k].synAck # None
        PROVE  conns'[k].synAck \in Ids /\ conns'[conns'[k].synAck].cause = k
    <3>1. CASE conns'[k].synAck = conns[k].synAck
      BY <1>10, <2>2, <2>4, <3>1
    <3>2. CASE k \in R /\ GetsSynAck(conns[k], conns'[k], p)
      <4>1. conns'[k].synAck = p.from
        BY <3>2 DEF GetsSynAck
      <4> QED
        BY <1>4, <1>10, <2>3, <3>2, <4>1
    <3> QED
      BY <1>10, <3>1, <3>2 DEF Ordinary, GetsAnswer
  <2>5. ASSUME NEW i \in Ids, ~conns'[i].initiator, conns'[i].promise = "resolved"
        PROVE  conns'[conns'[i].cause].synAck = i
    <3> DEFINE c == conns[i].cause
    <3>1. conns'[i].cause = c /\ ~conns[i].initiator /\ c \in Ids /\ i # None
      BY <1>10, <2>5 DEF SockIInv, EndsMatch, Ids, None
    <3>2. conns[c].synAck = i
      <4>1. CASE conns[i].promise = "resolved"
        BY <2>2, <3>1, <4>1
      <4>2. CASE conns[i].promise # "resolved"
        <5>1. i \in new /\ i \in R
          BY <1>6, <1>12, <2>5, <3>1, <4>2
        <5>2. conns[i].promise = "waiting" /\ after[i].promise = "resolved"
          BY <1>6, <1>7, <5>1
        <5>3. ~Ordinary(conns[i], after[i])
          BY <5>2 DEF Ordinary
        <5>4. ~GetsSynAck(conns[i], after[i], p)
          BY <1>11, <3>1 DEF GetsSynAck, Handshake
        <5>5. conns[p.from].synAck = i
          BY <1>7, <5>3, <5>4 DEF GetsAnswer
        <5> QED
          BY <1>4, <2>2, <3>1, <5>5
      <4> QED
        BY <4>1, <4>2
    <3> HIDE DEF c
    <3>3. conns[c].state # "SYN_SENT"
      BY <1>11, <3>1, <3>2 DEF Handshake
    <3>4. conns'[c].synAck = conns[c].synAck
      BY <1>10, <3>1, <3>3 DEF GetsSynAck, GetsAnswer, Ordinary
    <3> QED
      BY <3>1, <3>2, <3>4
  <2> QED
    BY <1>16, <2>4, <2>5 DEF AnswersItsPeer, None
<1> QED
  BY <1>16, <1>17, <1>18, <1>19, <1>20 DEF SockIInv

-----------------------------------------------------------------------------
(* The table *)

Ended == {"CLOSED", "RESET"}

\* The initiator has taken the SYN-ACK of another responder of its SYN, which
\* has ended: this one, made by a copy of the SYN, is never established.
Superseded(i) ==
    /\ ~conns[i].initiator
    /\ LET k == conns[conns[i].cause].synAck
       IN  k # None /\ k # i /\ conns[k].state \in Ended

\* What is in the table has not ended, and what has not ended is in the table
\* or superseded: reset() of the responder that has ended removes by the id
\* that both have.
TableInv ==
    /\ \A i \in connTable : conns[i].state \notin Ended
    /\ IdsApart =>
          /\ \A i \in Ids : conns[i].state \notin Ended => i \in connTable \/ Superseded(i)
          /\ \A i \in Ids : ~conns[i].initiator /\ conns[i].state = "CONNECTED" =>
                conns[conns[i].cause].synAck = i

\* close() ends no connection by itself.
LEMMA ClosedByEndsNone ==
    ASSUME NEW cs \in Seq(Conns), NEW I, NEW i \in 1 .. Len(cs)
    PROVE  ClosedBy(cs, I)[i].state \in Ended <=> cs[i].state \in Ended
<1>1. cs[i] \in Conns /\ i \in DOMAIN cs
  OBVIOUS
<1>2. ClosedBy(cs, I)[i] = IF i \in I /\ cs[i].state \in Opening
                           THEN InState(cs[i], "CLOSE_WAIT") ELSE cs[i]
  BY <1>1 DEF ClosedBy
<1>3. InState(cs[i], "CLOSE_WAIT").state = "CLOSE_WAIT"
  BY <1>1, InStateKeeps DEF States
<1> QED
  BY <1>2, <1>3 DEF Ended, Opening

\* A connection of the table is the only one there with its id.
LEMMA OnlyItself ==
    ASSUME SockIInv, NEW i \in connTable
    PROVE  FindConn(UniqueId(conns[i])) = {i}
BY DEF SockIInv, OneForAnId, FindConn

\* Unless ids collide, two connections of one socket with the same id are
\* responders of the same SYN.
LEMMA SameId ==
    ASSUME SockIInv, IdsApart, NEW i \in Ids, NEW j \in Ids, i # j,
           UniqueId(conns[i]) = UniqueId(conns[j])
    PROVE  ~conns[i].initiator /\ ~conns[j].initiator /\ conns[i].cause = conns[j].cause
<1>1. /\ conns[i].sock = conns[j].sock /\ conns[i].sendId = conns[j].sendId
      /\ conns[i].recvId = conns[j].recvId
  BY DEF UniqueId
<1>2. /\ conns[i].sendId \in Int /\ conns[i].recvId \in Int
      /\ conns[j].sendId \in Int /\ conns[j].recvId \in Int
  BY OldTypes, ConnType
<1>3. \A k \in Ids : IF conns[k].initiator THEN conns[k].sendId = conns[k].recvId + 1
                     ELSE /\ conns[k].cause \in Ids /\ conns[conns[k].cause].initiator
                          /\ conns[k].sock = Peer(conns[conns[k].cause].sock)
                          /\ conns[k].sendId = conns[conns[k].cause].recvId
                          /\ conns[k].recvId = conns[conns[k].cause].recvId + 1
  BY DEF SockIInv, EndsMatch
<1>4. \A k \in Ids : conns[k].initiator => conns[k].sendId = conns[k].recvId + 1
  BY <1>3
<1>5. \A k \in Ids : ~conns[k].initiator => conns[k].recvId = conns[k].sendId + 1
  BY <1>3
<1>6. ~(conns[i].initiator /\ conns[j].initiator)
  BY <1>1 DEF IdsApart
<1>7. ~conns[i].initiator /\ ~conns[j].initiator
  BY <1>1, <1>2, <1>4, <1>5, <1>6
<1> DEFINE c == conns[i].cause
           d == conns[j].cause
<1>8. /\ c \in Ids /\ d \in Ids /\ conns[c].initiator /\ conns[d].initiator
      /\ Peer(conns[c].sock) = Peer(conns[d].sock)
      /\ conns[c].recvId = conns[d].recvId
  BY <1>1, <1>3, <1>7
<1>9. conns[c].sock \in Sockets /\ conns[d].sock \in Sockets
  BY <1>8, OldTypes, ConnType DEF Conns
<1> HIDE DEF c, d
<1>10. conns[c].sock = conns[d].sock
  BY <1>8, <1>9, Peers
<1>11. c = d
  BY <1>8, <1>10 DEF IdsApart
<1> QED
  BY <1>7, <1>11 DEF c, d

\* A step that creates no connection keeps the table current if it removes only
\* what ends or is superseded, and establishes no responder but the one whose
\* SYN-ACK has been taken.
LEMMA TableStep ==
    ASSUME SockIInv, TableInv, Len(conns') = Len(conns),
           \A i \in Ids :
              /\ Kept(conns[i], conns'[i])
              /\ conns'[i].synAck = conns[i].synAck \/ conns[i].synAck = None
              /\ conns[i].state \in Ended => conns'[i].state \in Ended
              /\ IdsApart /\ ~conns[i].initiator /\ conns'[i].state = "CONNECTED" =>
                    conns[i].state = "CONNECTED" \/ conns[conns[i].cause].synAck = i,
           \A i \in connTable' : i \in connTable /\ conns'[i].state \notin Ended,
           IdsApart => \A i \in connTable \ connTable' :
              conns'[i].state \in Ended \/ Superseded(i)'
    PROVE  TableInv'
<1>1. \A i \in Ids : conns'[i].initiator = conns[i].initiator /\ conns'[i].cause = conns[i].cause
  BY DEF Kept
<1>2. \A i \in Ids : ~conns[i].initiator => conns[i].cause \in Ids
  BY DEF SockIInv, EndsMatch
<1>3. \A i \in Ids : i # None
  BY OldTypes, ConnType DEF Ids, None
<1>4. SUFFICES ASSUME IdsApart
               PROVE  /\ \A i \in Ids : conns'[i].state \notin Ended =>
                            i \in connTable' \/ Superseded(i)'
                      /\ \A i \in Ids : ~conns'[i].initiator /\ conns'[i].state = "CONNECTED" =>
                            conns'[conns'[i].cause].synAck = i
  BY KeptIds DEF TableInv, Ended
<1>5. /\ \A i \in Ids : conns[i].state \notin Ended => i \in connTable \/ Superseded(i)
      /\ \A i \in Ids : ~conns[i].initiator /\ conns[i].state = "CONNECTED" =>
            conns[conns[i].cause].synAck = i
  BY <1>4 DEF TableInv
<1>6. \A k \in Ids : conns[k].synAck # None => conns[k].synAck \in Ids
  BY <1>4 DEF SockIInv, AnswersItsPeer
<1>7. ASSUME NEW i \in Ids, Superseded(i)
      PROVE  Superseded(i)'
  <2> DEFINE c == conns[i].cause
             k == conns[c].synAck
  <2>1. ~conns[i].initiator /\ k # None /\ k # i /\ conns[k].state \in Ended
    BY <1>7 DEF Superseded
  <2>2. c \in Ids /\ k \in Ids
    BY <1>2, <1>6, <2>1
  <2>3. ~conns'[i].initiator /\ conns'[i].cause = c
    BY <1>1, <2>1
  <2>4. conns'[c].synAck = k
    BY <2>1, <2>2
  <2>5. conns'[k].state \in Ended
    BY <2>1, <2>2
  <2> QED
    BY <2>1, <2>3, <2>4, <2>5 DEF Superseded, Ended, None
<1>8. ASSUME NEW i \in Ids, conns'[i].state \notin Ended
      PROVE  i \in connTable' \/ Superseded(i)'
  <2>1. conns[i].state \notin Ended
    BY <1>8
  <2>2. i \in connTable \/ Superseded(i)
    BY <1>5, <2>1
  <2> QED
    BY <1>4, <1>7, <1>8, <2>2
<1>9. ASSUME NEW i \in Ids, ~conns'[i].initiator, conns'[i].state = "CONNECTED"
      PROVE  conns'[conns'[i].cause].synAck = i
  <2>1. ~conns[i].initiator /\ conns'[i].cause = conns[i].cause /\ conns[i].cause \in Ids
    BY <1>1, <1>2, <1>9
  <2>2. conns[conns[i].cause].synAck = i
    BY <1>4, <1>5, <1>9, <2>1
  <2> QED
    BY <1>3, <2>1, <2>2
<1> QED
  BY <1>8, <1>9

\* A step that removes nothing from the table, ends nothing and establishes
\* nothing.
LEMMA QuietTableStep ==
    ASSUME SockIInv, TableInv, Len(conns') = Len(conns),
           \A i \in Ids :
              /\ Kept(conns[i], conns'[i])
              /\ conns'[i].synAck = conns[i].synAck
              /\ conns'[i].state \in Ended <=> conns[i].state \in Ended
              /\ conns'[i].state = "CONNECTED" => conns[i].state = "CONNECTED",
           connTable' = connTable
    PROVE  TableInv'
<1>1. \A i \in connTable' : i \in connTable /\ conns'[i].state \notin Ended
  BY OldTypes DEF TableInv
<1> QED
  BY <1>1, TableStep

\* One connection ends and is removed by its id.
LEMMA EndKeepsTable ==
    ASSUME SockIInv, TableInv, NEW i \in Ids, SynTimeout(i) \/ Release(i) \/ ResetConn(i)
    PROVE  TableInv'
<1>1. PICK state \in Ended : conns' = [conns EXCEPT ![i] = InState(conns[i], state)]
  BY DEF SynTimeout, Release, ResetConn, Ended
<1>2. conns[i] \in Conns /\ DOMAIN conns = Ids /\ connTable \subseteq Ids
  BY OldTypes, ConnType
<1>3. /\ Kept(conns[i], InState(conns[i], state)) /\ InState(conns[i], state).state = state
      /\ InState(conns[i], state).synAck = conns[i].synAck
  BY <1>2, InStateKeeps DEF States, Ended
<1>4. /\ Len(conns') = Len(conns)
      /\ \A j \in Ids : j # i => conns'[j] = conns[j]
      /\ conns'[i].state \in Ended /\ Kept(conns[i], conns'[i])
      /\ conns'[i].synAck = conns[i].synAck
  <2>1. Len(conns') = Len(conns)
    BY <1>1
  <2> QED
    BY <1>1, <1>2, <1>3, <2>1
<1>5. \A j \in Ids :
         /\ Kept(conns[j], conns'[j])
         /\ conns'[j].synAck = conns[j].synAck
         /\ conns[j].state \in Ended => conns'[j].state \in Ended
         /\ conns'[j].state = "CONNECTED" => conns[j].state = "CONNECTED"
  <2>1. \A j \in Ids : Kept(conns[j], conns[j])
    BY OldTypes, ConnType DEF Kept
  <2> QED
    BY <1>4, <2>1 DEF Ended
<1> DEFINE same == FindConn(UniqueId(conns[i]))
<1>6. connTable' = connTable \ same
  BY DEF SynTimeout, Release, ResetConn, WithoutConns
<1>7. /\ \A j \in same : j \in connTable /\ UniqueId(conns[j]) = UniqueId(conns[i])
      /\ i \in connTable => same = {i}
  BY OnlyItself DEF FindConn
<1> HIDE DEF same
<1>8. \A j \in connTable' : j \in connTable /\ conns'[j].state \notin Ended
  <2>1. \A j \in connTable' : j \in connTable /\ j # i
    BY <1>6, <1>7
  <2> QED
    BY <1>2, <1>4, <2>1 DEF TableInv
<1>9. ASSUME IdsApart, NEW j \in connTable, j \notin connTable'
      PROVE  conns'[j].state \in Ended \/ Superseded(j)'
  <2>1. CASE j = i
    BY <1>4, <2>1
  <2>2. CASE j # i
    <3>1. j \in same /\ i \notin connTable /\ j \in Ids
      BY <1>2, <1>6, <1>7, <1>9, <2>2
    <3>2. ~conns[i].initiator /\ ~conns[j].initiator /\ conns[i].cause = conns[j].cause
      BY <1>7, <1>9, <2>2, <3>1, SameId
    <3> DEFINE c == conns[i].cause
               k == conns[c].synAck
    <3>3. c \in Ids
      BY <3>2 DEF SockIInv, EndsMatch
    <3>4. k # None /\ k # j /\ k \in Ids /\ conns'[k].state \in Ended
      <4>1. CASE Release(i)
        <5>1. conns[i].state = "CLOSE_WAIT"
          BY <4>1 DEF Release
        <5>2. Superseded(i)
          BY <1>9, <3>1, <5>1 DEF TableInv, Ended
        <5>3. k # None /\ conns[k].state \in Ended
          BY <5>2 DEF Superseded
        <5>4. k \in Ids
          BY <1>9, <3>3, <5>3 DEF SockIInv, AnswersItsPeer
        <5>5. k # j
          BY <5>3 DEF TableInv
        <5> QED
          BY <1>5, <5>3, <5>4, <5>5
      <4>2. CASE ResetConn(i)
        <5>1. conns[i].promise = "resolved"
          BY <4>2 DEF ResetConn, Held
        <5>2. k = i
          BY <1>9, <3>2, <5>1 DEF SockIInv, AnswersItsPeer
        <5>3. i # None
          BY OldTypes, ConnType DEF Ids, None
        <5> QED
          BY <1>4, <2>2, <5>2, <5>3
      <4> QED
        BY <3>1, <4>1, <4>2 DEF SynTimeout
    <3>5. conns'[c].synAck = k
      BY <1>5, <3>3
    <3>6. ~conns'[j].initiator /\ conns'[j].cause = c
      BY <1>5, <3>1, <3>2 DEF Kept
    <3> HIDE DEF c, k
    <3> QED
      BY <3>4, <3>5, <3>6 DEF Superseded, Ended, None
  <2> QED
    BY <2>1, <2>2
<1> QED
  BY <1>4, <1>5, <1>8, <1>9, TableStep

\* A new connection enters the table and, unless ids collide, replaces none.
LEMMA CreateKeepsTable ==
    ASSUME SockIInv, TableInv, NEW c \in Conns, NEW type, Create(c, type),
           c.state \in {"SYN_SENT", "SYN_RECV"},
           (c.initiator /\ c.sendId = c.recvId + 1) \/ FindConn(UniqueId(c)) = {}
    PROVE  TableInv'
<1> DEFINE new == Len(conns) + 1
<1>1. conns \in Seq(Conns) /\ Len(conns) \in Nat /\ Ids = 1 .. Len(conns)
  BY OldTypes, ConnType DEF Ids
<1>2. conns' = Append(conns, c) /\ connTable' = (connTable \ FindConn(UniqueId(c))) \cup {new}
  BY DEF Create, WithConn
<1>3. /\ \A i \in Ids : conns'[i] = conns[i]
      /\ conns'[new] = c
      /\ Ids' = 1 .. new
  BY <1>1, <1>2 DEF Ids
<1>4. /\ \A i \in Ids' : i \in Ids \/ i = new
      /\ \A i \in Ids : i \in Ids' /\ i # new
      /\ new \in Ids'
  BY <1>1, <1>3
<1>5. connTable \subseteq Ids
  BY OldTypes
<1> HIDE DEF new
<1>6. \A i \in connTable' : conns'[i].state \notin Ended
  <2>1. \A i \in connTable' : i \in connTable \/ i = new
    BY <1>2
  <2>2. c.state \notin Ended
    BY DEF Ended
  <2> QED
    BY <1>3, <1>5, <2>1, <2>2 DEF TableInv
<1>7. SUFFICES ASSUME IdsApart'
               PROVE  /\ \A i \in Ids' : conns'[i].state \notin Ended =>
                            i \in connTable' \/ Superseded(i)'
                      /\ \A i \in Ids' : ~conns'[i].initiator /\ conns'[i].state = "CONNECTED" =>
                            conns'[conns'[i].cause].synAck = i
  BY <1>6 DEF TableInv, Ended
<1>8. IdsApart
  BY <1>3, <1>4, <1>7 DEF IdsApart
<1>9. FindConn(UniqueId(c)) = {}
  <2>1. SUFFICES ASSUME c.initiator, c.sendId = c.recvId + 1, NEW i \in FindConn(UniqueId(c))
                 PROVE  FALSE
    OBVIOUS
  <2>2. /\ i \in Ids /\ conns[i].sock = c.sock /\ conns[i].sendId = c.sendId
        /\ conns[i].recvId = c.recvId
    BY <1>5, <2>1 DEF FindConn, UniqueId
  <2>3. conns[i].sendId \in Int /\ conns[i].recvId \in Int
    BY <2>2, OldTypes, ConnType
  <2>4. CASE conns[i].initiator
    <3>1. /\ conns'[i].initiator /\ conns'[new].initiator /\ i \in Ids' /\ new \in Ids' /\ i # new
          /\ conns'[i].sock = conns'[new].sock /\ conns'[i].recvId = conns'[new].recvId
      BY <1>3, <1>4, <2>1, <2>2, <2>4
    <3> QED
      BY <1>7, <3>1 DEF IdsApart
  <2>5. CASE ~conns[i].initiator
    <3>1. conns[i].recvId = conns[i].sendId + 1
      BY <2>2, <2>5 DEF SockIInv, EndsMatch
    <3> QED
      BY <2>1, <2>2, <2>3, <3>1
  <2> QED
    BY <2>4, <2>5
<1>10. connTable' = connTable \cup {new}
  BY <1>2, <1>9
<1>11. /\ \A i \in Ids : conns[i].state \notin Ended => i \in connTable \/ Superseded(i)
       /\ \A i \in Ids : ~conns[i].initiator /\ conns[i].state = "CONNECTED" =>
             conns[conns[i].cause].synAck = i
  BY <1>8 DEF TableInv
<1>12. \A k \in Ids : conns[k].synAck # None => conns[k].synAck \in Ids
  BY <1>8 DEF SockIInv, AnswersItsPeer
<1>13. \A i \in Ids : ~conns[i].initiator => conns[i].cause \in Ids
  BY DEF SockIInv, EndsMatch
<1>14. ASSUME NEW i \in Ids, Superseded(i)
       PROVE  Superseded(i)'
  <2> DEFINE d == conns[i].cause
             k == conns[d].synAck
  <2>1. ~conns[i].initiator /\ k # None /\ k # i /\ conns[k].state \in Ended
    BY <1>14 DEF Superseded
  <2>2. d \in Ids /\ k \in Ids
    BY <1>12, <1>13, <2>1
  <2>3. conns'[i] = conns[i] /\ conns'[d] = conns[d] /\ conns'[k] = conns[k]
    BY <1>3, <2>2
  <2> QED
    BY <2>1, <2>3 DEF Superseded, Ended, None
<1>15. ASSUME NEW i \in Ids', conns'[i].state \notin Ended
       PROVE  i \in connTable' \/ Superseded(i)'
  <2>1. CASE i = new
    BY <1>10, <2>1
  <2>2. CASE i \in Ids
    BY <1>3, <1>10, <1>11, <1>14, <1>15, <2>2
  <2> QED
    BY <1>4, <2>1, <2>2
<1>16. ASSUME NEW i \in Ids', ~conns'[i].initiator, conns'[i].state = "CONNECTED"
       PROVE  conns'[conns'[i].cause].synAck = i
  <2>1. i \in Ids
    BY <1>3, <1>4, <1>16
  <2>2. conns'[i] = conns[i]
    BY <1>3, <2>1
  <2>3. conns[i].cause \in Ids /\ conns[conns[i].cause].synAck = i
    BY <1>11, <1>13, <1>16, <2>1, <2>2
  <2>4. conns'[conns[i].cause] = conns[conns[i].cause]
    BY <1>3, <2>3
  <2> QED
    BY <2>2, <2>3, <2>4
<1> QED
  BY <1>15, <1>16

\* What a packet makes of the state of a connection that gets to see it: only a
\* RST ends it, and only DATA that answers its SYN-ACK establishes a responder.
LEMMA AfterPacketStates ==
    ASSUME SockIInv, NEW p \in net, NEW i \in Ids
    PROVE  /\ AfterPacket(i, p).state \in Ended <=> conns[i].state \in Ended \/ p.type = "RESET"
           /\ ~conns[i].initiator /\ AfterPacket(i, p).state = "CONNECTED" =>
                 conns[i].state = "CONNECTED" \/ conns[p.from].synAck = i
<1> DEFINE c == conns[i]
           d == AfterPacket(i, p)
           e == InState(c, "CONNECTED")
<1>1. c \in Conns
  BY OldTypes, ConnType
<1>2. /\ InState(c, "RESET").state = "RESET" /\ InState(c, "CLOSE_WAIT").state = "CLOSE_WAIT"
      /\ e \in Conns /\ e.state = "CONNECTED"
  BY <1>1, InStateKeeps DEF States, Opening, Kept
<1>3. c.state = "SYN_SENT" => c.initiator
  BY DEF SockIInv, Handshake
<1>4. CASE p.type = "RESET"
  <2>1. d = InState(c, "RESET")
    BY <1>4 DEF AfterPacket
  <2> HIDE DEF d, c, e
  <2> QED
    BY <1>2, <1>4, <2>1 DEF Ended, c, d
<1>5. CASE p.type # "RESET" /\ ~Handles(i, p)
  <2>1. d = c
    BY <1>5 DEF AfterPacket
  <2> HIDE DEF d
  <2> QED
    BY <1>5, <2>1 DEF d
<1>6. CASE p.type # "RESET" /\ Handles(i, p)
  <2>1. CASE c.state = "SYN_SENT"
    <3>1. p.type = "STATE"
      BY <1>6, <2>1 DEF Handles
    <3>2. d = [e EXCEPT !.synAck = p.from]
      BY <1>6, <2>1, <3>1 DEF AfterPacket
    <3> HIDE DEF e, d
    <3>3. d.state = "CONNECTED"
      BY <1>2, <3>2 DEF Conns
    <3> QED
      BY <1>3, <1>6, <2>1, <3>3 DEF Ended, d
  <2>2. CASE c.state = "SYN_RECV"
    <3>1. p.type = "DATA" /\ conns[p.from].synAck = i
      BY <1>6, <2>2 DEF Handles, Answers
    <3>2. d = e
      BY <1>6, <2>2, <3>1 DEF AfterPacket
    <3> HIDE DEF e, d
    <3> QED
      BY <1>2, <1>6, <2>2, <3>1, <3>2 DEF Ended, d
  <2>3. CASE c.state \in {"CONNECTED", "CLOSE_WAIT"}
    <3>1. d = c \/ d = InState(c, "CLOSE_WAIT")
      <4>1. CASE p.type = "FIN"
        BY <1>6, <2>3, <4>1 DEF AfterPacket
      <4>2. CASE p.type # "FIN"
        BY <1>6, <2>3, <4>2 DEF AfterPacket
      <4> QED
        BY <4>1, <4>2
    <3> HIDE DEF d
    <3> QED
      BY <1>2, <1>6, <2>3, <3>1 DEF Ended, d
  <2>4. c.state \in {"SYN_SENT", "SYN_RECV", "CONNECTED", "CLOSE_WAIT"}
    BY <1>6 DEF Handles
  <2> QED
    BY <2>1, <2>2, <2>3, <2>4
<1> QED
  BY <1>4, <1>5, <1>6

\* A packet arrives: a RST removes exactly those it ends, any other packet
\* removes and ends none.
LEMMA ReceiveKeepsTable ==
    ASSUME SockIInv, TableInv, NEW p \in net, Receive(p)
    PROVE  TableInv'
<1>1. PICK R \in Receivers(p) : ReceiveBy(R, p)
  BY DEF Receive
<1>2. p.type # "SYN"
  BY DEF Receive
<1> DEFINE after == [i \in Ids |-> IF i \in R THEN AfterPacket(i, p) ELSE conns[i]]
           no == Refused(Established(R, p))
<1>3. R \subseteq Ids /\ R \subseteq connTable
  <2>1. InitiatorFor(p) \cup ResponderFor(p) \subseteq connTable
    BY DEF InitiatorFor, ResponderFor, FindConn
  <2> QED
    BY <1>2, <2>1, WhoReceives
<1>4. /\ conns' = ClosedBy(after, no)
      /\ connTable' = IF p.type = "RESET" THEN WithoutConns(R) ELSE connTable
  BY <1>1 DEF ReceiveBy
<1>5. ASSUME NEW i \in Ids
      PROVE  /\ Kept(conns[i], after[i])
             /\ after[i].synAck = conns[i].synAck \/ conns[i].synAck = None
             /\ after[i].state \in Ended <=>
                   conns[i].state \in Ended \/ (i \in R /\ p.type = "RESET")
             /\ ~conns[i].initiator /\ after[i].state = "CONNECTED" =>
                   conns[i].state = "CONNECTED" \/ conns[p.from].synAck = i
  <2>1. CASE i \in R
    <3>1. after[i] = AfterPacket(i, p)
      BY <2>1
    <3> HIDE DEF after
    <3>2. Kept(conns[i], after[i])
      BY <3>1, AfterPacketFacts
    <3>3. after[i].synAck = conns[i].synAck \/ conns[i].synAck = None
      <4>1. conns[i].state = "SYN_SENT" => conns[i].synAck = None
        BY DEF SockIInv, Handshake
      <4> QED
        BY <3>1, <4>1, AfterPacketFacts DEF Ordinary, GetsSynAck, GetsAnswer
    <3> QED
      BY <2>1, <3>1, <3>2, <3>3, AfterPacketStates
  <2>2. CASE i \notin R
    <3>1. after[i] = conns[i] /\ conns[i] \in Conns
      BY <2>2, OldTypes, ConnType
    <3> HIDE DEF after
    <3> QED
      BY <2>2, <3>1 DEF Kept
  <2> QED
    BY <2>1, <2>2
<1>6. after \in Seq(Conns) /\ Len(after) = Len(conns)
  <2>1. Len(conns) \in Nat /\ Ids = 1 .. Len(conns)
    BY OldTypes, ConnType DEF Ids
  <2>2. \A i \in Ids : after[i] \in Conns
    BY <1>5 DEF Kept
  <2>3. DOMAIN after = Ids /\ after = [i \in Ids |-> after[i]]
    OBVIOUS
  <2> HIDE DEF after
  <2>4. after \in [1 .. Len(conns) -> Conns]
    BY <2>1, <2>2, <2>3
  <2> QED
    BY <2>1, <2>4, FunctionIsSeq
<1> HIDE DEF after, no
<1>7. /\ Len(conns') = Len(conns)
      /\ \A i \in Ids : /\ Kept(after[i], conns'[i])
                        /\ conns'[i].synAck = after[i].synAck
                        /\ conns'[i].state = after[i].state \/ conns'[i].state = "CLOSE_WAIT"
                        /\ conns'[i].state \in Ended <=> after[i].state \in Ended
  BY <1>4, <1>6, ClosedByKeeps, ClosedByEndsNone DEF Ids
<1>8. ASSUME NEW i \in Ids
      PROVE  /\ Kept(conns[i], conns'[i])
             /\ conns'[i].synAck = conns[i].synAck \/ conns[i].synAck = None
             /\ conns'[i].state \in Ended <=>
                   conns[i].state \in Ended \/ (i \in R /\ p.type = "RESET")
             /\ IdsApart /\ ~conns[i].initiator /\ conns'[i].state = "CONNECTED" =>
                   conns[i].state = "CONNECTED" \/ conns[conns[i].cause].synAck = i
  <2>1. Kept(conns[i], conns'[i])
    BY <1>5, <1>7 DEF Kept
  <2>2. conns'[i].synAck = conns[i].synAck \/ conns[i].synAck = None
    BY <1>5, <1>7
  <2>3. conns'[i].state \in Ended <=> conns[i].state \in Ended \/ (i \in R /\ p.type = "RESET")
    BY <1>5, <1>7
  <2>4. ASSUME IdsApart, ~conns[i].initiator, conns'[i].state = "CONNECTED"
        PROVE  conns[i].state = "CONNECTED" \/ conns[conns[i].cause].synAck = i
    <3>1. after[i].state = "CONNECTED"
      BY <1>7, <2>4
    <3>2. SUFFICES ASSUME conns[p.from].synAck = i
                   PROVE  conns[conns[i].cause].synAck = i
      BY <1>5, <2>4, <3>1
    <3>3. p.from \in Ids /\ i # None
      BY OldTypes, ConnType DEF TypesOK, SocketTypeOK, Ids, None
    <3>4. conns[i].cause = p.from
      BY <2>4, <3>2, <3>3 DEF SockIInv, AnswersItsPeer
    <3> QED
      BY <3>2, <3>4
  <2> QED
    BY <2>1, <2>2, <2>3, <2>4
<1>9. \A i : i \in connTable' <=> i \in connTable /\ ~(p.type = "RESET" /\ i \in R)
  <2>1. CASE p.type # "RESET"
    BY <1>4, <2>1
  <2>2. CASE p.type = "RESET"
    <3>1. connTable' = connTable \ UNION {FindConn(UniqueId(conns[i])) : i \in R}
      BY <1>4, <2>2 DEF WithoutConns
    <3>2. \A i \in R : FindConn(UniqueId(conns[i])) = {i}
      BY <1>3, OnlyItself
    <3> QED
      BY <2>2, <3>1, <3>2
  <2> QED
    BY <2>1, <2>2
<1>10. \A i \in connTable' : i \in connTable /\ conns'[i].state \notin Ended
  BY <1>8, <1>9, OldTypes DEF TableInv
<1>11. \A i \in connTable \ connTable' : conns'[i].state \in Ended
  BY <1>3, <1>8, <1>9
<1> QED
  BY <1>7, <1>8, <1>10, <1>11, TableStep

\* Every other step changes no state, or closes.
LEMMA TableNext ==
    ASSUME SockIInv, TableInv, [SocketNext]_socketVars
    PROVE  TableInv'
<1>1. ASSUME NEW s \in Sockets, NEW id \in RandomUn16Int, Connect(s, id)
      PROVE  TableInv'
  <2> DEFINE c == NewConn(s, id + 1, id, "SYN_SENT", None)
  <2>1. id \in Int /\ id \in WireIds /\ id + 1 \in WireIds
    BY SocketAssumption DEF RandomUn16Int, WireIds
  <2>2. c \in Conns /\ c.initiator /\ c.state = "SYN_SENT" /\ c.sendId = c.recvId + 1
    BY <2>1 DEF NewConn, Conns, States, Opening, Promises, None
  <2>3. Create(c, "SYN")
    BY <1>1 DEF Connect
  <2> HIDE DEF c
  <2> QED
    BY <2>2, <2>3, CreateKeepsTable
<1>2. ASSUME NEW p \in net, ReceiveSyn(p)
      PROVE  TableInv'
  <2> DEFINE f == p.from
             id == conns[f].recvId
             c == NewConn(Peer(conns[f].sock), id, id + 1, "SYN_RECV", f)
  <2>1. f \in Ids /\ f \in Nat /\ conns[f].initiator /\ id \in RandomUn16Int
        /\ conns[f].sock \in Sockets
    <3>1. f \in Ids /\ p.type = "SYN"
      BY <1>2, OldTypes DEF TypesOK, SocketTypeOK, ReceiveSyn
    <3> QED
      BY <3>1, OldTypes, ConnType DEF SockIInv, EndsMatch, Conns
  <2>2. id \in WireIds /\ id + 1 \in WireIds /\ Peer(conns[f].sock) \in Sockets
    BY <2>1, SocketAssumption, Peers DEF RandomUn16Int, WireIds
  <2>3. Create(c, "STATE") /\ FindConn(UniqueId(c)) = {}
    BY <1>2 DEF ReceiveSyn, Destination, ConnId
  <2> HIDE DEF f, id
  <2>4. f \in Nat /\ conns[f].sock \in Sockets
    BY <2>1
  <2>5. c \in Conns /\ c.state = "SYN_RECV"
    BY <2>2, <2>4 DEF NewConn, Conns, States, Opening, Promises, None
  <2> HIDE DEF c
  <2> QED
    BY <2>3, <2>5, CreateKeepsTable
<1>3. CASE \E p \in net : Receive(p)
  BY <1>3, ReceiveKeepsTable
<1>4. CASE \E i \in Ids : SynTimeout(i) \/ Release(i) \/ ResetConn(i)
  BY <1>4, EndKeepsTable
<1>5. ASSUME NEW i \in Ids, SendEnds(i) \/ ConnectTimeout(i)
      PROVE  TableInv'
  <2>1. PICK q \in {"waiting", "rejected"} : conns' = [conns EXCEPT ![i].promise = q]
    BY <1>5 DEF SendEnds, ConnectTimeout
  <2>2. connTable' = connTable
    BY <1>5 DEF SendEnds, ConnectTimeout
  <2>3. /\ conns[i] \in Conns /\ DOMAIN conns = Ids /\ \A j \in Ids : conns[j] \in Conns
        /\ conns \in Seq(Conns)
    BY OldTypes, ConnType
  <2> DEFINE d == [conns[i] EXCEPT !.promise = q]
  <2>4. conns' = [conns EXCEPT ![i] = d]
    BY <2>1, <2>3
  <2>5. Kept(conns[i], d) /\ d.state = conns[i].state /\ d.synAck = conns[i].synAck
    BY <2>3 DEF Kept, Conns, Promises
  <2> HIDE DEF d
  <2>6. /\ Len(conns') = Len(conns)
        /\ \A j \in Ids : conns'[j] = IF j = i THEN d ELSE conns[j]
    BY <2>3, <2>4
  <2>7. \A j \in Ids : /\ Kept(conns[j], conns'[j]) /\ conns'[j].synAck = conns[j].synAck
                       /\ conns'[j].state = conns[j].state
    BY <2>3, <2>5, <2>6 DEF Kept
  <2> QED
    BY <2>2, <2>6, <2>7, QuietTableStep
<1>6. ASSUME connTable' = connTable, NEW I, conns' = ClosedBy(conns, I)
      PROVE  TableInv'
  <2>1. conns \in Seq(Conns)
    BY OldTypes, ConnType
  <2>2. /\ Len(conns') = Len(conns)
        /\ \A i \in Ids : /\ Kept(conns[i], conns'[i]) /\ conns'[i].synAck = conns[i].synAck
                          /\ conns'[i].state \in Ended <=> conns[i].state \in Ended
                          /\ conns'[i].state = "CONNECTED" => conns[i].state = "CONNECTED"
    BY <1>6, <2>1, ClosedByKeeps, ClosedByEndsNone DEF Ids
  <2> QED
    BY <1>6, <2>2, QuietTableStep
<1>7. CASE \/ \E i \in Ids : CloseConn(i)
           \/ \E s \in Sockets : TryCloseSocket(s) \/ StopListening(s) \/ CloseSocket(s)
  <2>1. connTable' = connTable /\ \E I : conns' = ClosedBy(conns, I)
    BY <1>7 DEF CloseConn, TryCloseSocket, StopListening, CloseSocket
  <2> QED
    BY <1>6, <2>1
<1>8. ASSUME conns' = conns, connTable' = connTable
      PROVE  TableInv'
  <2>1. \A i \in Ids : Kept(conns[i], conns'[i])
    BY <1>8, OldTypes, ConnType DEF Kept
  <2> QED
    BY <1>8, <2>1, QuietTableStep
<1>9. CASE (\E i \in Ids : Write(i)) \/ (\E s \in Sockets : Accept(s)) \/ UNCHANGED socketVars
  BY <1>8, <1>9 DEF Write, Accept, socketVars
<1> QED
  BY <1>1, <1>2, <1>3, <1>4, <1>5, <1>7, <1>9 DEF SocketNext

-----------------------------------------------------------------------------
(* The invariant and the theorems *)

\* No connection exists, and the listeners are open and empty.
LEMMA SockInitEstablishes == SocketInit => SockIInv
<1> SUFFICES ASSUME SocketInit PROVE SockIInv
  OBVIOUS
<1>1. Ids = {} /\ connTable = {} /\ net = {}
  BY DEF SocketInit, Ids
<1>2. /\ listener \in [Sockets -> Listeners]
      /\ \A s \in Sockets : listener[s] = NewListener
  BY DEF SocketInit, NewListener, Listeners
<1>3. Range(NewListener.connections) = {} /\ Ordered(NewListener)
  <2>1. <<>> \o <<>> = <<>>
    OBVIOUS
  <2> QED
    BY <2>1 DEF NewListener, Range, Ordered, IsInjective
<1>4. TypesOK
  BY <1>1, <1>2, <1>3 DEF SocketInit, TypesOK, SocketTypeOK
<1>5. EndsMatch /\ OneForAnId /\ Handshake /\ ClosedListenerClosesAll /\ AnswersItsPeer
  BY <1>1 DEF EndsMatch, OneForAnId, Handshake, ClosedListenerClosesAll, AnswersItsPeer
<1>6. ListenersOK
  BY <1>1, <1>2, <1>3 DEF ListenersOK, Responders
<1> QED
  BY <1>4, <1>5, <1>6 DEF SockIInv

\* Every step of the two sockets preserves the invariant.
LEMMA SockNextPreserves ==
    ASSUME SockIInv, [SocketNext]_socketVars
    PROVE  SockIInv'
<1>1. CASE \E s \in Sockets, id \in RandomUn16Int : Connect(s, id)
  BY <1>1, ConnectPreserves
<1>2. CASE \E p \in net : ReceiveSyn(p)
  BY <1>2, ReceiveSynPreserves
<1>3. CASE \E p \in net : Receive(p)
  BY <1>3, ReceivePreserves
<1>4. CASE \E i \in Ids : SendEnds(i) \/ ConnectTimeout(i)
  BY <1>4, PromisePreserves
<1>5. CASE \E i \in Ids : SynTimeout(i) \/ Release(i) \/ ResetConn(i)
  BY <1>5, EndPreserves
<1>6. CASE \/ \E i \in Ids : Write(i) \/ CloseConn(i)
           \/ \E s \in Sockets : TryCloseSocket(s)
  BY <1>6, ClosePreserves
<1>7. CASE \E s \in Sockets : Accept(s)
  BY <1>7, AcceptPreserves
<1>8. CASE \E s \in Sockets : StopListening(s) \/ CloseSocket(s)
  BY <1>8, StopPreserves
<1>9. CASE UNCHANGED socketVars
  <2>1. /\ conns' = conns /\ connTable' = connTable /\ net' = net /\ sockState' = sockState
        /\ listener' = listener /\ closes' = closes
    BY <1>9 DEF socketVars
  <2>2. /\ conns' \in Seq(Conns) /\ Len(conns') = Len(conns)
        /\ \A j \in Ids : Ordinary(conns[j], conns'[j])
    BY <2>1, OldTypes, NoConnection
  <2> QED
    BY <2>1, <2>2, OldTypes, ListenersStay, OrdinaryStep
<1> QED
  BY <1>1, <1>2, <1>3, <1>4, <1>5, <1>6, <1>7, <1>8, <1>9 DEF SocketNext

\* The invariant holds in every behaviour of the sockets.
THEOREM SockInvariance == SocketSpec => []SockIInv
<1>1. SockIInv /\ [SocketNext]_socketVars => SockIInv'
  BY SockNextPreserves
<1> QED
  BY <1>1, SockInitEstablishes, PTL DEF SocketSpec

\* The sockets' state keeps its types; in particular no id leaves the 16 bits
\* of the wire, although a responder's receive id is one above the one drawn.
THEOREM SocketTypeCorrect == SocketSpec => []SocketTypeOK
<1>1. SockIInv => SocketTypeOK
  BY DEF SockIInv, TypesOK
<1> QED
  BY <1>1, SockInvariance, PTL

\* Unless ids collide, dispatch() leads every packet, however late or often it
\* arrives, to the other end of its connection and to no other connection.
THEOREM PacketsReachTheirPeer == SocketSpec => []ReachesItsPeer
<1>1. SockIInv => ReachesItsPeer
  BY ReachesPeer DEF SockIInv, ReachesItsPeer
<1> QED
  BY <1>1, SockInvariance, PTL

\* Unless ids collide, one connect() is accepted once at most, although copies
\* of its SYN make more than one responder.
THEOREM AcceptedOnce == SocketSpec => []OneAcceptPerConnect
<1>1. SockIInv => OneAcceptPerConnect
  <2>1. SUFFICES ASSUME SockIInv, IdsApart, NEW i \in Ids, NEW j \in Ids,
                        ~conns[i].initiator, conns[i].cause = conns[j].cause, i # j,
                        conns[i].promise = "resolved", conns[j].promise = "resolved"
                 PROVE  FALSE
    BY DEF OneAcceptPerConnect
  <2>2. ~conns[j].initiator
    <3>1. conns[i].cause # None
      BY <2>1 DEF SockIInv, EndsMatch, Ids, None
    <3> QED
      BY <2>1, <3>1 DEF SockIInv, EndsMatch
  <2> QED
    BY <2>1, <2>2 DEF SockIInv, AnswersItsPeer
<1> QED
  BY <1>1, SockInvariance, PTL

\* A listener hands every incoming connection whose handshake promise has
\* resolved to accept() once, in the order in which the promises resolved, and
\* accept() waits only for new ones. It says nothing of a responder whose
\* promise its timer rejected, also when late data establishes it after all.
THEOREM EachHandedOutOnce == SocketSpec => []HandedOutOnce
<1>1. SockIInv => HandedOutOnce
  BY DEF SockIInv, ListenersOK, Ordered, Responders, HandedOutOnce
<1> QED
  BY <1>1, SockInvariance, PTL

\* After close() of a listener no incoming connection whose handshake promise
\* has resolved, before the close or after it, stays established. It says
\* nothing of a responder whose promise was rejected.
THEOREM NoneLeftOpen == SocketSpec => []ClosedListenerClosesAll
<1>1. SockIInv => ClosedListenerClosesAll
  BY DEF SockIInv
<1> QED
  BY <1>1, SockInvariance, PTL

\* dispatch() finds what it should find: the table keeps no connection that has
\* ended and, unless ids collide, has every established one, although
\* removeCon() removes by the id and responders of one SYN share theirs.
THEOREM TableStaysCurrent == SocketSpec => []TableIsCurrent
<1>1. SocketInit => TableInv
  BY DEF SocketInit, Ids, TableInv
<1>2. SockIInv /\ TableInv /\ [SocketNext]_socketVars => TableInv'
  BY TableNext
<1>3. SockIInv /\ TableInv => TableIsCurrent
  <2> SUFFICES ASSUME SockIInv, TableInv, IdsApart, NEW i \in Ids, conns[i].state = "CONNECTED"
               PROVE  i \in connTable
    BY DEF TableIsCurrent, TableInv, Ended
  <2>1. i \in connTable \/ Superseded(i)
    BY DEF TableInv, Ended
  <2>2. ~Superseded(i)
    BY DEF TableInv, Superseded
  <2> QED
    BY <2>1, <2>2
<1> QED
  BY <1>1, <1>2, <1>3, SockInvariance, PTL DEF SocketSpec
=============================================================================
