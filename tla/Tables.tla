------------------------------- MODULE Tables -------------------------------
(***************************************************************************)
(* Open addressing with linear probing: DenseIndex (base/dense_index.hpp)  *)
(* maps a key to a row, PairIndex (base/pair_index.hpp) is a set of keys   *)
(* and TwoGenSet a pair of those.  mix64 is any function of the key into   *)
(* the slots; several keys may share a slot.                               *)
(***************************************************************************)
EXTENDS Columns

CONSTANTS
  TableSlots,  \* cap_, a power of two in the source
  Hash         \* mix64(key) & mask_

ASSUME TableAssumption ==
  /\ TableSlots \in Nat \ {0}
  /\ \A k \in DOMAIN Hash : Hash[k] \in 0 .. TableSlots - 1

SlotIds == 0 .. TableSlots - 1
Free == [used |-> FALSE, key |-> 0, val |-> 0]
EmptyTable == [i \in SlotIds |-> Free]
kEmpty == -1

\* init: a table for max elements has at least this many slots.
SlotsFor(max) == (max * 10 + 6) \div 7

Size(t) == Cardinality({i \in SlotIds : t[i].used})

\* The load factor: no new key beyond seven tenths of the slots.
Overloaded(t) == Size(t) * 10 >= TableSlots * 7

\* The slots a probe for k may end at: free, or holding k, in probing order.
Probed(t, k) ==
  LET At(j) == (Hash[k] + j) % TableSlots
      ends == {j \in SlotIds : ~t[At(j)].used \/ t[At(j)].key = k}
  IN  IF ends = {} THEN {} ELSE {At(Min(ends))}

Find(t, k) ==
  IF \E i \in Probed(t, k) : t[i].used /\ t[i].key = k
  THEN t[CHOOSE i \in Probed(t, k) : TRUE].val
  ELSE kEmpty

Has(t, k) == Find(t, k) # kEmpty

\* insert_or_get and insert: a known key is left alone, a new one takes the free
\* slot unless the table is loaded.
Refuses(t, k) == ~Has(t, k) /\ (Probed(t, k) = {} \/ Overloaded(t))
InsertOrGet(t, k, v) ==
  IF Has(t, k) \/ Refuses(t, k) THEN t
  ELSE [t EXCEPT ![CHOOSE i \in Probed(t, k) : TRUE] = [used |-> TRUE, key |-> k, val |-> v]]

\* for_each: the keys in slot order.
InSlotOrder(t) ==
  Kept([n \in 1 .. TableSlots |-> t[n - 1].key], {n \in 1 .. TableSlots : t[n - 1].used})

\* An empty table after the insertion of each key with its value, in order.
Filled(keys, vals) ==
  LET upto[n \in 0 .. Len(keys)] ==
        IF n = 0 THEN EmptyTable ELSE InsertOrGet(upto[n - 1], keys[n], vals[n])
  IN  upto[Len(keys)]

\* The index of a column: each element at its row.
Indexed(column) == Filled(column, [i \in DOMAIN column |-> i])

-----------------------------------------------------------------------------
(* TwoGenSet *)

EmptySet == [gen |-> [g \in 1 .. 2 |-> EmptyTable], cur |-> 1, rot |-> 0]

SetHas(u, k) == Has(u.gen[1], k) \/ Has(u.gen[2], k)
SetInsert(u, k) == [u EXCEPT !.gen[u.cur] = InsertOrGet(@, k, 1)]

\* The generation that comes back into use is cleared.
Rotated(u, today, window) ==
  CASE u.rot = 0 -> [u EXCEPT !.rot = today]
    [] u.rot # 0 /\ today - u.rot < window -> u
    [] OTHER -> [gen |-> [u.gen EXCEPT ![3 - u.cur] = EmptyTable], cur |-> 3 - u.cur, rot |-> today]

\* for_each of the set: the keys of each generation.
Records(u) == [g \in 1 .. 2 |-> InSlotOrder(u.gen[g])]

\* The table insert_into leaves, from the records of a generation.
OfRecords(keys) == Filled(keys, [n \in DOMAIN keys |-> 1])

\* Mutant: every key goes to the generation in use.
RestoredMut(cur, rot, recs) ==
  [gen |-> [g \in 1 .. 2 |-> IF g = cur THEN OfRecords(recs[1] \o recs[2]) ELSE EmptyTable],
   cur |-> cur, rot |-> rot]

\* set_state, then insert_into for each record.
Restored(cur, rot, recs) ==
  [gen |-> [g \in 1 .. 2 |-> OfRecords(recs[g])], cur |-> cur, rot |-> rot]
=============================================================================
