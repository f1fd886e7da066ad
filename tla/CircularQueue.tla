---------------------------- MODULE CircularQueue ----------------------------
(***************************************************************************)
(* circular_queue.ts: the packets received out of order, by sequence       *)
(* number.  A queue is the record [items |-> key -> item, oldest |-> key]; *)
(* oldest is the cached #oldestKey that decides what a full queue evicts.  *)
(***************************************************************************)
EXTENDS Integers, FiniteSets

NoKey == -1

QKeys(q) == DOMAIN q.items

EmptyQueue == [items |-> [k \in {} |-> 0], oldest |-> NoKey]

SmallestKey(K) == CHOOSE k \in K : \A j \in K : k <= j

\* updateOldestKey: numerically the smallest key, also when numbers wrapped.
OldestOf(K) == IF K = {} THEN NoKey ELSE SmallestKey(K)

\* One slot of the queue is never used.
IsAtCapacityEarly(q, capacity) == Cardinality(QKeys(q)) >= capacity - 1

IsAtCapacity(q, capacity) == Cardinality(QKeys(q)) >= capacity

\* enqueue(): a known key gets the new item; otherwise a full queue first drops
\* its oldest key.
Enqueue(q, capacity, key, item) ==
    IF key \in QKeys(q)
    THEN [q EXCEPT !.items[key] = item]
    ELSE LET kept == IF IsAtCapacity(q, capacity) THEN QKeys(q) \ {q.oldest} ELSE QKeys(q)
         IN  [items |-> [k \in kept \cup {key} |-> IF k = key THEN item ELSE q.items[k]],
              oldest |-> OldestOf(kept \cup {key})]

\* dequeueByKey() does not refresh the cached oldest key.
DequeueKeepingOldest(q, K) ==
    [items |-> [k \in QKeys(q) \ K |-> q.items[k]], oldest |-> q.oldest]

\* dequeueByKey(), once for each key of K.
Dequeue(q, K) ==
    LET left == QKeys(q) \ K
    IN  [items |-> [k \in left |-> q.items[k]],
         oldest |-> IF q.oldest \in K THEN OldestOf(left) ELSE q.oldest]
=============================================================================
