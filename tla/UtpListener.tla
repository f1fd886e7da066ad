----------------------------- MODULE UtpListener -----------------------------
(***************************************************************************)
(* utp_listener.ts: the queue between the socket, which adds connections   *)
(* as their handshakes end, and the application, which accepts them.  A    *)
(* listener is a record; `accepted`, what accept() has returned so far, is *)
(* a history component.                                                    *)
(***************************************************************************)
EXTENDS Sequences

NewListener ==
    [closed      |-> FALSE,   \* isClosed
     connections |-> <<>>,    \* every connection added
     pending     |-> <<>>,    \* pendingConnections: added and not yet accepted
     waiting     |-> FALSE,   \* resolveNext is set: an accept() waits
     accepted    |-> <<>>]

\* A connection handed to the waiting accept() stays in the queue as well.
AddAndKeepPending(l, conn) ==
    LET added == [l EXCEPT !.connections = Append(@, conn)]
    IN  IF l.closed THEN l
        ELSE IF l.waiting
        THEN [added EXCEPT !.waiting = FALSE, !.accepted = Append(@, conn),
                           !.pending = Append(@, conn)]
        ELSE [added EXCEPT !.pending = Append(@, conn)]

\* addConnection(); closing the connection when the listener is closed is left
\* to the caller.
AddConnection(l, conn) ==
    LET added == [l EXCEPT !.connections = Append(@, conn)]
    IN  IF l.closed THEN l
        ELSE IF l.waiting
        THEN [added EXCEPT !.waiting = FALSE, !.accepted = Append(@, conn)]
        ELSE [added EXCEPT !.pending = Append(@, conn)]

\* accept() on an open listener.  A second accept() that has to wait takes the
\* place of the first one, which nobody resolves then.
AcceptNext(l) ==
    IF l.pending # <<>>
    THEN [l EXCEPT !.pending = Tail(@), !.accepted = Append(@, Head(l.pending))]
    ELSE [l EXCEPT !.waiting = TRUE]

\* close(): an accept() that waits is resolved with null.
CloseListener(l) ==
    [l EXCEPT !.closed = TRUE, !.connections = <<>>, !.pending = <<>>, !.waiting = FALSE]
=============================================================================
