# A formal model of deno-torrent/utp

TLA+ modules, TLC runs and TLAPS proofs for the µTP implementation of this
repository. File names without a directory are files of `src/` (the
implementation); `Module.definition` names are definitions of this directory.

## 1. The system

A `Utp` socket owns one UDP socket, a table of connections, a receive loop and a
300 ms timer. A `UtpConn` is one connection: a send window for what it writes, a
receive queue and a receive buffer for what it reads, and a state
(`SYN_SENT`/`SYN_RECV`, `CONNECTED`, `CLOSE_WAIT`, `CLOSED`, `RESET`).
JavaScript runs one task at a time, so what lies between two `await`s is atomic;
concurrency comes from the awaits and from the network.

| Component | State | Operations | What makes it correct |
|---|---|---|---|
| `utilt.ts` `Seq` | none | `add diff lt le gt ge` on 16-bit numbers | order of numbers less than half a circle apart |
| `blocking_map.ts` | map, capacity, waiting setters | `set delete clear updateCapacity` | nobody waits beside a free slot; first come, first served |
| `utp_send_window.ts` | packet map, newest ACK, peer's window, congestion control, RTT | `waitForAck handleAck resend reset` | every packet in flight, waiting, acknowledged or given up, and only once |
| `utp_congestion_control.ts`, `utp_rtt_tracker.ts` | window, delays; RTT, RTO | `updateRtt onPacketLoss`; `update` | window at least 1, RTO in bounds |
| `circular_queue.ts` | items, cached oldest key | `enqueue dequeueByKey clear` | the cache follows the items; nothing wanted is evicted |
| `utp_ext_sack.ts`, `utp_packet.ts` | none | `create`, `getRemoteReceivedSeqNrs`, `toBytes`, `fromBytes` | the sender reads what the receiver holds; ids survive 16 bits |
| `utp_conn.ts`, receiving | `localAckNr`, queue, FIN packets, state | `handleAtSynSent handleAtSynReceived handleAtConnected processReceivedPackets` | the stream is delivered once, in order, from its first byte, and ends at its end |
| `blocking_buffer.ts` | bytes, waiting reads, two closed flags | `write read drain` | no read waits beside bytes; EOF after the last byte |
| `utp_conn.ts`, closing | state, FINs, close time | `close trySafeRelease forceClose reset timeoutCheck` | one FIN, an end in bounded time, and an ended connection stays ended |
| `utp_conn.ts`, opening | state, state listener, 5 s timer | `connectTo waitForConnecting` | `connect()` settles; one `connect()` is accepted once |
| `utp_socket.ts`, `utp_listener.ts` | table, accept queue | `connect dispatch close`; `accept addConnection close` | a packet reaches its connection; each incoming connection whose handshake succeeds is handed out once; `close()` ends |
| `statistic.ts`, `logger.ts`, `utp_context.ts`, `utp_addr.ts`, `utp_ext_bits.ts`, `timer_manager.ts`, `blocking_queue.ts` | display, logging, values, intervals; the last is unused | | |

How they interact: `write()` → `sendUtpPacket()` → `waitForAck()` (may block) →
UDP. Receive loop → `dispatch()` → `handleIncomingPacket()` → `handleAck()` for
ACKs, receive queue → receive buffer for data, FIN branch for FINs; for a SYN →
`connectTo()` → SYN-ACK, and `listener.addConnection()` once the connection is
established. `handleAck()` → RTT tracker → congestion control → capacity of the
packet map. Timer →
`timeoutCheck()` → `resend()`, `trySafeRelease()`. `close()` has a 100 ms timer
of its own that also calls `trySafeRelease()`.

What is hard here: sequence numbers that wrap; datagrams lost, duplicated and
reordered; ACKs that are late or lost; a window whose capacity changes while
writers wait; four activities that all may close a connection, with awaits
between a check of its state and its use; promises that somebody must resolve;
random ids and repeated SYNs; timers that reject while the handshake goes on.
`PROJECT.json` lists these hazards line by line, each with the properties aimed
at it.

## 2. The modules

| Module | Models | State and actions |
|---|---|---|
| `SeqNr` | `Seq` | operators over any even modulus `SeqMod` (65536 in the code) |
| `BlockingMap` | `blocking_map.ts` | a record `[map, capacity, waiting]`; one operator per method. `AdmitCount`/`LetIn` are the `while` loop of `resolveNextSetter` in closed form |
| `CongestionWindow` | what the send window relies on of the congestion control | operators |
| `UtpSendWindow` | `utp_send_window.ts` | one variable per field; `WaitForAck`, `IncomingAck`/`HandleAck`, `Resend`, `GiveUp`, `Close`, `Release`, `Reset`; `acked`, `lost`, `discarded`, `written` are history |
| `CircularQueue` | `circular_queue.ts` | a record `[items, oldest]` |
| `UtpReceiver` | receiving half of `utp_conn.ts` | one action per state and packet kind: `HandleAtSynSent`, `HandleAtSynReceived`, `HandleData`, `HandleFin`, `HandleReset`, ignored packets |
| `UtpPacing` | `utp_rtt_tracker.ts`, `utp_congestion_control.ts` | `HandleAck` (several samples and one update of the window), `PacketLost`, `PacingReset` |
| `Sack` | `utp_ext_sack.ts` and its bytes in `utp_packet.ts` | operators: `CreateMask`, `OnTheWire`, the two readers |
| `ReceiverSack` | `createFromConn` | composes `UtpReceiver` and `Sack`: the mask of the queue of every state |
| `ByteStream` | the abstract promise of one direction of a connection, in two grades | whether the reader knows the start, written, delivered, ended, eof |
| `UtpTransfer` | one direction end to end | instances of `UtpSendWindow` (`W`) and `UtpReceiver` (`R`) and a network with packets `net` and `acks` in flight; an ACK is what `ReceiverAcks` makes of the queue, with the mask of `Sack` as its length byte leaves it |
| `UtpLifecycle` | how a connection ends | receive loop `rx`, socket timer `timer`, `close()` as `closer`, each a small state machine split at its awaits, and the application's `AppRead`, `AppWrite`, `AppClose`, `AppReset` at any point between them; `revived` is history |
| `UtpListener` | `utp_listener.ts` | a record; one operator per method |
| `UtpSocket` | `utp_socket.ts`, opening of connections | two sockets, their tables, listeners and connections, and the packets between them; `Connect`, `ReceiveSyn`, `Receive`, `SendEnds`, `ConnectTimeout`, `SynTimeout`, `Accept`, and `close()` of connection, listener and socket |
| `BlockingBuffer` | `blocking_buffer.ts` | `write()` and `read()` split at their awaits, `drain()` |
| `SeqNrProofs` | `Seq` | lemmas on wrapping numbers that the other proofs cite |
| `UtpSendWindowProofs`, `UtpReceiverProofs`, `UtpTransferProofs`, `UtpPacingProofs`, `UtpSocketProofs`, `UtpLifecycleProofs`, `BlockingBufferProofs` | | theorems, section 5 |
| `MC*` | | the modules TLC is started on |

Abstractions. Payloads are positions in the stream. Time is absent: a
retransmission timer, the 10 s of `close()` and the keep-alive interval run out
at any moment, except where `AccurateTimers` restricts `UtpTransfer` (see
below). In `UtpSendWindow` the congestion window grows to any value on an ACK
(`AfterUpdateRtt`: no branch of `updateWindowSize` makes it smaller) and halves
on a loss; `UtpPacing` computes it from delays, in exact fractions instead of
floating point, and shows that this is what it does. `#ackCounter` and `#sackExtension` are never read and are left out.
In `UtpLifecycle` the send window is the number of its packets and the resends
of the oldest, and the receive buffer is whether it holds data; one
`timeoutCheck()` is finished before the next starts (a UDP send takes less than
300 ms). `reset()` also empties the send window, where a writer
that waits may take the room. The type predicates `RecvTypeOK`, `LifecycleTypeOK`, `BufferTypeOK` and
`SocketTypeOK` document the state of their modules; no run is spent on them, and they are
proved (section 5).

`UtpSocket` keeps the control of opening and closing and leaves the stream to
`UtpTransfer`. A packet is its type and the connection that sent it; packets stay
in `net`, so each may be lost, late, repeated or overtaken. A copy of a DATA
packet may be handled or not (a duplicate). The random sequence numbers of
different SYN-ACKs differ. `Release`, the way from `CLOSE_WAIT` to `CLOSED`, is
one step, because `UtpLifecycle` shows that it is taken; the rejections of the
receive loop and of the timer that `UtpLifecycle` has are not repeated. The
promise of a responder and `addConnection()` are one step with the packet that
establishes it: only microtasks lie between. `PromptSends` says whether a UDP
send has ended before an answer to it is handled; both are checked.

A definition that differs from the code on purpose, such as
`BMSetOverfull`, stands beside the definition it would break; it is used only to
make sure that a property notices that mistake.

## 3. The runs

Passing runs:

| Run | Shows |
|---|---|
| `send_window` | no writer is forgotten, each packet is in one place, acknowledgements count once and leave nothing they cover behind, admission is in order, in-flight packets are bounded, the blocked writers of a live connection get in |
| `receiver` | in both roles: delivery in order, gap-free, once; `localAckNr` is the last packet delivered; a queued packet stays until consumed and is not left behind; with the SACK of every state the sender never reads a packet the receiver does not hold, reads all of them if the queue has no old duplicates, and its two readers are complements |
| `transfer` | at either role, with loss, duplication and cut masks across the wrap: what is struck off as acknowledged is held or consumed by the reader (but for what lies before the start of a responder); sender, network and reader together implement `ByteStream`, and with a writer that closes an idle window its end is not early |
| `transfer_live` | the same two with a writer that closes at any time, retransmission timers that run out at any time and a lost copy: the stream is still a stretch in order, its end may be early; and while the writer does not close, the reader gets every packet from the one it started with (an initiator: the first) to the last, if the network loses no more copies than the resend limit allows |
| `lifecycle` | with `reset()` at any point: table and state agree but for the connection that the FIN branch revives, at most one FIN, nothing else leaves an ended state but by `reset()`, `CLOSE_WAIT` in the table ends, `close()` returns |
| `socket` | two connections between two sockets, in one or both directions: the table leads every packet to the other end of its own connection and to no other, unless ids collide; every incoming connection whose handshake promise has resolved is handed out by an open listener once and in order (one that was rejected is `socket_orphan`) |
| `socket_live` | one `connect()`: however often its SYN arrives it is accepted at most once; the table keeps no connection that has ended and lacks none that is established; no connection whose promise has resolved, before or after, stays open behind a closed listener; `connect()` settles; `close()` of a socket ends |
| `pacing` | the timeout covers the round trip time it was computed for; the congestion window does what `CongestionWindow` says |
| `buffer` | no read waits beside bytes or after `drain()`; EOF only at the end; totals agree |

Runs that end in a counterexample show where the code does something else than
its documents or comments say; `PROJECT.json` quotes each under `findings`:

| Run | Behaviour |
|---|---|
| `receiver_eof` | a FIN that overtakes data ends the stream before it |
| `lifecycle_loop` | the receive loop dies if the connection is closed while the FIN handler awaits its send (nothing catches the rejection of `startListen()`) |
| `socket_orphan` | a responder whose 5 s timer has rejected is established by data that comes later; no `accept()` returns it, and the client's data is acknowledged and read by nobody |

Other behaviours of the code that the models have, and that limit what a
property may claim; no run is spent on them:

- A writer that is still blocked when its connection is released or reset stays
  blocked (`UtpSendWindow.Reset` and `Release` leave it in `waiting`):
  `BlockedWriterAdmitted` is about live connections.
- The responder's stream starts at whichever data packet arrives first
  (`UtpReceiver.HandleAtSynReceived`): if packet 2 overtakes packet 1 it starts
  there, acknowledges both, and its `read()` returns `null` without packet 1, with
  no packet lost and an orderly close. In `ByteStream` only a reader that
  `knowsStart` gets the first chunk, and `AckedIsHeld` leaves out what a responder
  has skipped.
- Only a copy of the newest packet is dropped as a duplicate. An older one stays
  queued (`Dropped`, `AfterQueueing`) and is delivered again when the numbers
  come round to it: `ConsumedInOrder` is checked for less than one round.
- An old duplicate in the queue makes the SACK mask longer than its length byte
  can say (`Sack.OnTheWire`), and queued packets go unreported:
  `SackIsCompleteWithoutDuplicates` carries that condition.
- A full receive queue evicts its numerically smallest key. With old duplicates
  before the wrap and packets ahead after it, that is a packet the peer believes
  delivered: `QueuedUntilConsumed` allows this one case.
- A packet given up after the last resend leaves a window that looks
  acknowledged (`UtpTransfer.Abandon`): delivery needs losses within the limit.
- A resent copy of the newest packet is dropped before an ACK is sent, so that a
  lost ACK of the last packet ends in `Abandon` although the packet arrived.
- Packets 65535 and 0 that arrive in the wrong order: `keys()` sorts numerically
  although `utilt.ts:97` asks for `Seq` in every comparison, the loop of
  `processReceivedPackets` is past key 0 when its turn comes, both packets are
  acknowledged, and 0 stays queued until some other packet arrives, which need not
  be. `NothingDeliverableWaits` leaves key 0 out.
- A `reset()` by the application between the arrival of a FIN and line 339 of
  `utp_conn.ts` is undone, although the comment at line 448 says that a reset
  connection handles no packet: the connection goes on to `CLOSE_WAIT`, out of the
  table and without a timer (`UtpLifecycle.ReceiveFin`, `revived`).
- After `close()` the connection is released as soon as its window is empty
  (`UtpLifecycle.TrySafeRelease`), where the comment at `utp_conn.ts:631` waits for
  the peer's FIN first.
- No FIN ever enters the send window, although the comment at `utp_conn.ts:783`
  says so: `close()` and the FIN branch leave `CONNECTED` first
  (`UtpTransfer.CloseWriter`). A lost FIN is not resent, and the reader of the
  other side waits for ever.
- A `read()` that waits when its connection is released by the last branch of
  `trySafeRelease()` or reset waits for ever (`UtpLifecycle`: no `Drain` there).
- `connect()` keeps what it drew: two connections of one socket with the same id,
  or of both sockets with neighbouring ids, share table entries (`IdsApart` is
  false then). The newer one replaces the older in the table, `removeCon()` of
  the older removes the newer, a RST resets both candidates.
- `removeCon()` goes by the id, and the responders that copies of one SYN make
  have the same id. `reset()` of one that has ended removes its successor, which
  is still in `SYN_RECV` then; that this never hits an established connection is
  `TableIsCurrent`.
- What is selectively acknowledged leaves the send window, so that behind one
  missing packet the sender goes on beyond 64 packets, for as long as it resends
  that one (`UtpSendWindow.HandleAck`, `UtpReceiver.MayArrive`). More than 2000
  packets ahead the length byte of the SACK wraps, and more than the capacity of
  the queue ahead an acknowledged packet is evicted: the proofs say how far ahead
  each promise reaches.
- The SYN-ACK can come before `waitForConnecting` listens, or between its 5 s
  timer and the socket's next tick: `connect()` rejects, and the connection is
  established with nobody holding it. This is the initiator's side of
  `socket_orphan`.
- A second `accept()` that waits replaces the first, which never returns;
  `listener.close()` resolves a waiting one with `null`, which the async iterator
  passes on as a connection.
- `connect()` of a closed socket creates a connection, sends nothing and rejects
  after 5 s; a socket that is closing still answers SYNs. `SocketCloses` is about
  a bounded number of them. `close()` of a socket that never listened or
  connected throws, as there is no UDP socket; in the model there always is one.
- Beyond the target delay the congestion window is multiplied by
  delay / target, which is above 1, where the comment at
  `utp_congestion_control.ts:49` says that it is reduced (`UtpPacing.WindowAfter`).
- The comment at `utp_send_window.ts:182` says that the tracker guarantees
  rtt >= 1. Before the first sample it is 0, and the SYN-ACK passes it on: the
  base delay is 0 from then on and the whole round trip counts as queueing
  (`UtpPacing.UpdateRtt`).
- A refused estimate (`sanityCheckRtt`) stays in `rtt` and `rttVar`; the timeout
  has no upper limit of its own.
- `timeoutCheck()` rejects if the connection leaves `CLOSE_WAIT` while it awaits
  a resend (`UtpLifecycle.TimerResumesTooLate`), and nothing catches it.

Where these behaviours would hide everything else, the passing runs stay clear
of them by their bounds or by a condition in the property, not by changing the
model: the end of the stream is promised for writers that close after their
window is empty and for losses within the resend limit, the start for initiators,
`AllDelivered` away from the wrap, `NothingDeliverableWaits` for every key but 0,
the one the numerical order of `keys()` puts first; `TableMatchesState` names the
revived connection, and the listener's properties speak of promises that have
resolved.

### Bounds

- `SeqMod` 8 to 32 for 65536. Window and span are kept below half of it, as in
  the code; `send_window`, `receiver` and `transfer` cross its end.
- Windows of 1 to 3 packets for 4 to 64, with advertised windows of 0 and more,
  and a congestion window that outgrows the maximum, so that the capacity shrinks
  below the packets in flight and grows by more than one while writers wait; 5
  packets, more than the window holds.
- One resend for three: the limit is reached and passed.
- `QueueCapacity` 6 in `receiver`, so that old duplicates fill the queue and
  evict; it exceeds the stream elsewhere, as `ShortTransfer` asks.
- `transfer` has 3 packets from number 15 of 16, so that the second has number 0,
  one loss and one duplicate. `transfer_live` has 2 packets, the second of which
  may have to wait for room, one loss and no duplicate of the network: timers that
  run out at any time make copies and give packets up as it is.
- `MaxLoss` and `MaxDup` at most 1, the resend limit.
- `Sack`: bytes of 2 bits, words of 2 bytes, a length byte modulo 8; an old
  duplicate is almost a circle ahead, so that the length wraps.
- `UtpSocket`: ids modulo 3, so that both ids that can be drawn and the id at the
  end of the range are used. `socket` has two `connect()` and four connections:
  one or both directions, or responders from copies of a SYN, and one close,
  listener close, socket close or reset at any time. `socket_live` has one
  `connect()`, two responders for its SYN and two closes. Swapping the two
  sockets is a symmetry of `socket`, which has no temporal property.
- `UtpPacing`: delays on both sides of the target and of the largest round trip
  time, two samples per ACK; times and windows in units small enough for every
  division to be exact.
- `BlockingBuffer`: reads of 2 bytes, chunks of 1 and 3: a chunk serves a part
  of a read, or two reads.
- `UtpLifecycle` is finite but for `MaxUnacked`; 2 packets tell an empty window,
  the last packet and one of several apart.

### Deadlock

`BlockingBuffer`, `UtpTransfer`, `UtpLifecycle`, `UtpSocket` and `UtpPacing` may
stop: all reads have returned, the stream is over, the connections are gone, the
connection has been reset.
`UtpSendWindow` and `UtpReceiver` are checked for deadlock.

### Fairness

- `FairSpec`: the socket's interval calls `resend()` for every connection of the
  table, so as long as packets stay in the window some of them are resent or given
  up. Which one is left open.
- `TransferFairness`: a data packet that is not lost arrives; timers as above; the
  application writes what it has. ACKs, `KeepAlive` and `close()` are not fair: no
  delivery rests on them. With `AccurateTimers` a retransmission timer
  (at least 1 s) runs out only after all copies and ACKs have arrived, except that
  the first timer of a packet may run out at once (`FirstTimer`): its clock starts
  when the writer asks for room, not when the packet is sent.
- `FairLifecycleSpec`: UDP sends complete, both intervals fire, 10 s pass.
  Arrival of packets and the application's calls are not fair.
- `FairSocketSpec`: UDP sends end, the 5 s timer and the intervals of socket,
  `close()` and `tryCloseSocket` fire. No packet need arrive, and nobody need
  accept, write or close.
- `BufferSpec`: an await on the inner buffer, which never does I/O, ends.

## 4. The abstract specification

`ByteStream` says what a direction of a connection promises: the reader gets a
stretch of the chunks written, each once, in order and without a gap, and meets the
end behind the last. The promise has two grades, as the code keeps it in two: a
reader that does not know where the stream starts (`knowsStart`) may begin with any
chunk, and where `MayCutShort` holds the end may be reported before all chunks are
delivered.

`UtpTransfer.ImplementsByteStream` is `ByteStream!StreamSpec` under the mapping
knowsStart ↦ the reader is the initiator, which learns the first number from the
SYN-ACK; MayCutShort ↦ not `OrderlyClose`; written ↦ packets handed to the window,
delivered ↦ the packets consumed without the FIN, ended ↦ the writer has left
`CONNECTED`, eof ↦ `closedForWriting` of the reader. A step of the transfer is a
write, a delivery of one or more chunks (a gap is filled), an end, an EOF (possibly
with the last chunks, when the FIN fills the gap), or a stutter (ACKs,
retransmissions, losses).

## 5. The proofs

A theorem holds for every value of the constants that the named `ASSUME`s of
its modules allow: any even modulus above 3, any window sizes, capacities,
limits, numbers of packets, readers and connections. Where a theorem needs more,
it says so as a hypothesis, and each hypothesis is the condition under which the
code does what is claimed, not a convenience:

| Hypothesis | Says | In the code | Needed because |
|---|---|---|---|
| `ShortStream` (send window) | `MaxPackets <= HalfSeq` | up to 32768 packets of a connection | two packets further apart than half a round compare the wrong way, and the properties name a packet by its number |
| `ShortStream` (receiver) | `NumData + 1 < SeqMod` | up to 65534 packets | an old duplicate that stays queued is delivered again when its number comes round (section 3) |
| `HalfStream` | `NumData <= HalfSeq` | up to 32768 packets | an older packet would look newer to `Seq.gt` |
| `MaskFits` | the longest mask the length field allows covers less than a round | 2040 bits of 65536 | otherwise two bits stand for one number |
| `WindowFits` | how far ahead a packet may arrive, rounded up to the mask's unit, fits the length field | up to 2016 packets ahead; 64 in the window, and those already acknowledged behind a gap | otherwise the length wraps and the mask is cut |
| `PeerWindow < QueueCapacity` | packets arrive less far ahead than the queue has room | less than 4096 or 8192 ahead | a full queue evicts what was acknowledged; `receiver` runs at `PeerWindow = QueueCapacity` |
| `ShortTransfer` | `NumData < HalfSeq`, `NumData < QueueCapacity` | up to 8191 packets in one direction | numbers as above; nothing is evicted behind a gap |

`OrderlyClose` is not a hypothesis but a grade of the promise: where it holds (the
writer does not close, or closes with an empty window, accurate timers and
`MaxLoss <= ResendTimesLimit`), the end is not reported before all data; where it
does not, a FIN that overtakes data or comes after a packet was given up ends the
stream early (run `receiver_eof`), and everything else of the promise holds
(run `transfer_live`).

`IdsApart`, in three of the properties of the socket, is a condition on the state:
ids are drawn at random, and nothing keeps two connections from drawing the same.

**Numbers** (`SeqNrProofs`). `SeqAdd` and `SeqDiff` as one addition or
subtraction and at most one wrap, so that the arithmetic of every other proof is
linear; sets of numbers are finite, have a least and a greatest element
(well-foundedness of the naturals). Where an argument would go by induction over
data, it looks for a least counterexample instead: the set of counterexamples is
a set, and no operator has to be instantiated.

**Send window** (`UtpSendWindowProofs`).

- Any length: `TypeCorrect`, `NoForgottenWriter` (`BlockedOnlyWhenFull`),
  `BoundedInFlight` (`InFlightBounded`). The inductive invariant `IInv` is `TypeOK` with
  `MapOK`: the packet map is *bounded* (well formed, at most `MaxWindow`
  packets) and *settled* (if somebody waits, it is full). That it is settled
  after an operation rests on where the loop of `resolveNextSetter` stops
  (`AdmitCountStops`); one lemma per operation of the map carries it to the
  actions.
- Under `ShortStream`: `EveryPacketPlaced` (`EveryPacketInOnePlace`),
  `CountedOnce` (`AckedCountedOnce`), `NothingAckedLingers`
  (`NoAckedPacketLingers`), `AdmittedInOrder` (`AdmissionInOrder`). None of the
  four is inductive: which packets wait, and that an acknowledgement never
  covers one of them, has to be known by position in the stream. `OrderInv`
  therefore says that the map is *in line* (after `written` packets, what waits
  are the last of them, in order, and what is inside are some of the others),
  that the packets let in are in one place each (`Placed`) and that the newest
  acknowledgement is of a packet that was let in and has left nothing up to it
  (`Covered`). `ShortStreamOrder` turns the code's comparisons into positions.
  Every operation of the map is a *move* (`Moves`: some keys go, the first who
  wait come in); moves compose, and `DeletingStep` says once for an
  acknowledgement, a packet given up and a reset what a move does to the
  invariant. That the second `handleAck` of `CLOSE_WAIT` counts nothing twice is
  a step of `HandleAckOrders`: it finds nothing left to delete.

**Receiver** (`UtpReceiverProofs`).

- Any length: `RecvTypeCorrect`, `AcknowledgesWhatItConsumed`
  (`AckNrIsLastConsumed`), `OldestKeyIsRight` (`OldestKeyIsSmallest`),
  `DeliverableIsDelivered` (`NothingDeliverableWaits`), `SackNeverInvents`
  (`SackIsSound`). The invariant `RecvIInv` adds to the types that the queue is
  well formed, with every packet under its own number and its smallest key
  cached, that `ackNr` is the last packet consumed, and that nothing is queued or
  consumed before the handshake is over. The loop of `processReceivedPackets` is
  reasoned about as the run it takes (`ProcessTakesRun`, `ProcessConsumes`).
- `DeliveryInOrder` (`ConsumedInOrder`) under `ShortStream`, with `RecvOrder`:
  the next number is the next packet's (`NextNumberIsNextPacket`).
- `SackReadersNeverDisagree` (`SackReadersAgree`) under `MaskFits`.
- `SackLeavesNothingOut` (`SackIsCompleteWithoutDuplicates`) under `HalfStream`
  and `WindowFits`, with `NearBy`: a queued packet was in flight when as much or
  less was consumed, so it is still within `PeerWindow` of `ackNr`;
  `MaskBytesBounds` is the rounding of the mask's length.
- `QueuedStaysQueued` (`QueuedUntilConsumed`) under `HalfStream` and `PeerWindow
  < QueueCapacity`, with `RecvOrder`, `NearBy` and `BeforeFin` (while `CONNECTED`
  the FIN is neither queued nor consumed): the eviction of a packet ahead needs a
  full queue, and a full queue that lacks the next packet holds old ones too, by
  counting (`FullQueueHoldsOldOnes`); the smallest key is then one of these,
  except in the case that the property names.

**Transfer** (`UtpTransferProofs`), for every window, queue and modulus, every
number of losses and duplicates, and every order in which packets, ACKs and
timers come. What is known of the two ends is not proved again: `WP` and `RP`
are instances of `UtpSendWindowProofs` and `UtpReceiverProofs`, and
`SameWriter` and `SameReader` say that the operators of the model's instances
are theirs.

- `NothingAckedIsLost` (`AckedIsHeld`) under `ShortTransfer`, at either role, with
  any close and any timers. What is struck off was stated by an ACK, which may be
  old, and the packets it is about may have been repeated; so the inductive
  invariant `TransferIInv` says that every ACK in flight is true of the reader as it
  is now (`AcksAreTrue`: what it states up to its number is consumed or lies before
  a responder's start, what its mask states beyond is held, and both only grow), as
  is the newest one that the window remembers (`LatestIsTrue`), that only packets let
  through the window are under way or with the reader (`OnlySent`), and that what is
  struck off is held (`StruckOffIsHeld`). The mask is the code's, with any length
  byte: a cut only takes statements away.
- `TransferImplementsStream` (`ImplementsByteStream`) under `ShortTransfer`, in the
  grade of the role and the close: the initial state is the stream's, and every step
  is one of `ByteStream` or a stutter (`EveryStepIsTheStreams`; `FirstIsDelivered`,
  `DataIsDelivered` and `FinReportsTheEnd` are the steps that are not obvious, and
  `StretchGrows` says that consuming a run after a stretch makes a longer one). The
  invariant `StreamIInv` adds `Phases` to `TransferIInv`, at any close: a FIN exists
  only once the writer has ended, and the reader is told of the end only with it.
  That an orderly end is reported only after everything was delivered needs
  `Orderly` as well: it accounts for the copies of every packet that the reader
  lacks, each of which is under way or lost (`CopiesAccounted`), so that what is
  given up is held (`GivenUpIsHeld`) and the FIN finds the reader with all data
  (`AllBeforeFin`).

**Pacing** (`UtpPacingProofs`), for all delays, numbers of samples and targets:
`TimeoutAlwaysCovers` (`TimeoutCoversEstimate`), `CongestionIsAsAssumed`
(`CongestionAsAssumed`).
`PacingIInv` says that the estimate lies between the smallest and the largest
delay measured and that a timeout computed from it covers it (`TrackerOK`), and
that the window is a whole number of packets divided by a divisor of `Fraction`
since (`Exact`), so that no division of the model rounds where the code's floating
point does not. The loops of `handleAck` over the samples are a recursive function
in the model (`AfterSamples`); that it follows them from one to the next
(`CourseExists`, `AfterSamplesFollows`) and keeps the invariant
(`AfterSamplesKeeps`) are least-counterexample arguments.

**Sockets** (`UtpSocketProofs`). `SocketTypeCorrect`, `PacketsReachTheirPeer`
(`ReachesItsPeer`), `TableStaysCurrent` (`TableIsCurrent`), `AcceptedOnce`
(`OneAcceptPerConnect`), `EachHandedOutOnce` (`HandedOutOnce`), `NoneLeftOpen`
(`ClosedListenerClosesAll`), for every number of connections, ids and closes, and
for prompt and late sends. The two about listeners speak of connections whose
handshake promise has resolved. The invariant
`SockIInv` says how the ids of the two ends mirror each other (`EndsMatch`), that
the table has one connection for an id, what a connection knows in each state of
the handshake, that an open listener has exactly the responders with a resolved
promise, each once (`ListenersOK`), and who answered whom (`AnswersItsPeer`): the last is why
copies of a SYN do not lead to two accepted connections; only the responder whose
SYN-ACK the initiator took ever gets data that its number fits.
`TableStaysCurrent` adds `TableInv`: what has not ended is in the table, or is
*superseded*: a responder made by a copy of the SYN after the initiator had taken
the SYN-ACK of one that has ended since. That one's late `reset()` may take the
new one out of the table, but a superseded responder is never established.

**Receive buffer** (`BlockingBufferProofs`). `BufferTypeCorrect`,
`ReadersAreServed` (`NoReaderStranded`), `EofIsTheEnd` (`EofOnlyAtEnd`),
`TotalsAgree` (`TotalsSettle`). The invariant `BufferIInv` accounts for every
byte: counted as read, in the buffer, or taken by a read whose await has not
ended (`BytesAccountedFor`, a set of pairs whose cardinality the steps change);
the queue has each waiting read once; after `drain()` no write is under way.

**Closing** (`UtpLifecycleProofs`). `LifecycleTypeCorrect`, `TableAgrees`
(`TableMatchesState`), `SingleFin` (`OneFin`), `EndIsFinal` (`EndedStaysEnded`), for
every resend limit and window bound, and with `reset()` by a packet or the
application between any two steps. `LifecycleInv` adds to the types and the table
`FinOK` (the FINs sent are counted by `localFin`, and `CLOSE_WAIT` is never reached
without one) and `GapOK` (nothing closes a connection in the gap of its FIN branch,
where no timer runs). `EndedStaysEnded` is about single steps: that no activity which
resumes after an await brings an ended connection back, except where the FIN branch
does (section 3), and that only `reset()` leaves `CLOSED`.

The inductive invariants were checked with TLC before they were proved, the
hypotheses also at the last value they allow.

Every invariant and every action property of the passing runs, and the
refinement, is the subject of a theorem. Only model-checked is what happens
eventually, under fairness: `BlockedWriterAdmitted`, `AllDelivered`,
`ConnectSettles`, `SocketCloses`, `CloseWaitEnds`, `CloseReturns` and
`ReadsEndAfterDrain`. The prover has no `ENABLED`. Outside the hypotheses of a
theorem the property stays checked as far as the bounds of its run go.

## 6. Not modelled

- `statistic.ts`, `logger.ts`, `utp_context.ts`, `utp_addr.ts`,
  `utp_ext_bits.ts`: display, logging and values that nothing in the protocol
  depends on;
- `timer_manager.ts`: the models start from the intervals it creates, one per
  socket under a name of its own;
- `blocking_queue.ts`: no other file uses it;
- the layout of the packet header and `isPacket()`: no state, and everything that
  is read from a header is a field of the models' packets; what the width of a
  field does to a value is modelled where a value can exceed it (ids, sequence
  numbers, the length of the SACK);
- `close()` and `trySafeClose()` of the receive buffer, called by tests only;
- a `write()` of several chunks that is still running during `close()`: it sends
  its rest outside the window and behind the FIN's number, where the stream is
  over.
