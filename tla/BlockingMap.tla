----------------------------- MODULE BlockingMap -----------------------------
(***************************************************************************)
(* blocking_map.ts: a map with a capacity whose set() waits, in FIFO       *)
(* order, while the map is full.  A map is the record                      *)
(*    [map |-> key -> value, capacity |-> n, waiting |-> <<key, ...>>].    *)
(* In this program a value is what the send window remembers of an         *)
(* unacknowledged packet; the model keeps its resendTimes.  Every set()    *)
(* passes a fresh record (utp_send_window.ts:128), so a waiting setter is  *)
(* its key alone and enters the map with the value Fresh.                  *)
(***************************************************************************)
EXTENDS Naturals, Sequences, FiniteSets

Fresh == 0

BM(map, capacity, waiting) == [map |-> map, capacity |-> capacity, waiting |-> waiting]

EmptyMap == [k \in {} |-> Fresh]

EmptyBlockingMap(capacity) == BM(EmptyMap, capacity, <<>>)

Keys(bm) == DOMAIN bm.map

Size(bm) == Cardinality(Keys(bm))

\* The keys of the map once the first n waiting setters have been let in.
KeysAfter(bm, n) == Keys(bm) \cup {bm.waiting[i] : i \in 1 .. n}

HasRoomAfter(bm, n) == Cardinality(KeysAfter(bm, n)) < bm.capacity

\* The number of waiting setters the loop of resolveNextSetter lets in: it
\* stops at the first point where nobody waits or the map is full.
AdmitCount(bm) ==
    CHOOSE n \in 0 .. Len(bm.waiting) :
        /\ \A m \in 0 .. n - 1 : HasRoomAfter(bm, m)
        /\ n = Len(bm.waiting) \/ ~HasRoomAfter(bm, n)

LetIn(bm, n) ==
    BM([k \in KeysAfter(bm, n) |->
            IF \E i \in 1 .. n : bm.waiting[i] = k THEN Fresh ELSE bm.map[k]],
       bm.capacity,
       SubSeq(bm.waiting, n + 1, Len(bm.waiting)))

\* One setter only is let in, where the code loops (`if` for `while`).
ResolveOneSetter(bm) ==
    IF bm.waiting # <<>> /\ HasRoomAfter(bm, 0) THEN LetIn(bm, 1) ELSE bm

ResolveNextSetter(bm) == LetIn(bm, AdmitCount(bm))

Put(bm, key) ==
    BM([k \in Keys(bm) \cup {key} |-> IF k = key THEN Fresh ELSE bm.map[k]],
       bm.capacity, bm.waiting)

Without(bm, K) == BM([k \in Keys(bm) \ K |-> bm.map[k]], bm.capacity, bm.waiting)

\* set() lets a newcomer in when the map is exactly full.
BMSetOverfull(bm, key) ==
    IF Size(bm) <= bm.capacity
    THEN ResolveNextSetter(Put(bm, key))
    ELSE BM(bm.map, bm.capacity, Append(bm.waiting, key))

\* set() puts the newcomer before the setters that already wait.
BMSetUnfair(bm, key) ==
    IF Size(bm) < bm.capacity
    THEN ResolveNextSetter(Put(bm, key))
    ELSE BM(bm.map, bm.capacity, <<key>> \o bm.waiting)

BMSet(bm, key) ==
    IF Size(bm) < bm.capacity
    THEN ResolveNextSetter(Put(bm, key))
    ELSE BM(bm.map, bm.capacity, Append(bm.waiting, key))

\* delete() frees the slots and wakes nobody.
BMDeleteSilently(bm, K) == Without(bm, K)

\* delete(), once for each key of K.  No waiting setter has a key of K, so
\* deleting them one by one, each followed by resolveNextSetter, ends in the
\* same map as deleting them together.
BMDelete(bm, K) ==
    IF Keys(bm) \cap K = {} THEN bm ELSE ResolveNextSetter(Without(bm, K))

\* clear() forgets the waiting setters as well.
BMClearAll(bm) == EmptyBlockingMap(bm.capacity)

\* clear() empties the map and does not look at the waiting setters.
BMClear(bm) == BM(EmptyMap, bm.capacity, bm.waiting)

BMUpdateCapacity(bm, capacity) ==
    ResolveNextSetter(BM(bm.map, capacity, bm.waiting))
=============================================================================
