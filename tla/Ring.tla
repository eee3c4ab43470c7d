-------------------------------- MODULE Ring --------------------------------
(***************************************************************************)
(* The single-producer single-consumer ring (base/spsc_ring.hpp).  A ring  *)
(* is a record: the two cursors, the copy each side keeps of the other's   *)
(* cursor, and the slots.  Each operator is what one call of one side      *)
(* leaves behind; a call reads the other side's cursor at most once, so it *)
(* is one atomic step, and release/acquire on the cursors makes the slot   *)
(* visible with them.  Cursors are 64 bits wide and never wrap in practice. *)
(***************************************************************************)
EXTENDS Integers

CONSTANTS Capacity, Items, NoItem

\* The source requires a power of two so that a mask takes the remainder.
ASSUME RingAssumption ==
  /\ Capacity \in Nat \ {0}
  /\ NoItem \notin Items

Index(n) == n % Capacity

Rings == [head : Nat, tail : Nat, tail_cache : Nat, head_cache : Nat,
          slots : [0 .. Capacity - 1 -> Items \cup {NoItem}]]

EmptyRing == [head |-> 0, tail |-> 0, tail_cache |-> 0, head_cache |-> 0,
              slots |-> [i \in 0 .. Capacity - 1 |-> NoItem]]

\* Mutant: the last slot is given out while it is still in use.
LooksFullMut(r) == r.head - r.tail_cache > Capacity

\* claim: the copy of tail is refreshed only when it says the ring is full.
LooksFull(r) == r.head - r.tail_cache >= Capacity
Claimed(r) == IF LooksFull(r) THEN [r EXCEPT !.tail_cache = r.tail] ELSE r
ClaimFails(r) == LooksFull(Claimed(r))

\* The slot is written in place, then publish makes it visible.
Written(r, item) == [r EXCEPT !.slots[Index(r.head)] = item]
Published(r) == [r EXCEPT !.head = @ + 1]

\* peek: the copy of head is refreshed only when it says the ring is empty.
LooksEmpty(r) == r.tail >= r.head_cache
Peeked(r) == IF LooksEmpty(r) THEN [r EXCEPT !.head_cache = r.head] ELSE r
PeekFails(r) == LooksEmpty(Peeked(r))
Oldest(r) == r.slots[Index(r.tail)]
Popped(r) == [r EXCEPT !.tail = @ + 1]

\* What is in the ring, oldest first.
Contents(r) == [i \in 1 .. r.head - r.tail |-> r.slots[Index(r.tail + i - 1)]]

\* The cursors and their copies are in order: what the producer believes free is
\* free and what the consumer believes published is published.
CursorsInOrder(r) ==
  /\ r.tail_cache <= r.tail
  /\ r.tail <= r.head_cache
  /\ r.head_cache <= r.head
  /\ r.head <= r.tail_cache + Capacity
=============================================================================
