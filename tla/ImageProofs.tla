---------------------------- MODULE ImageProofs ----------------------------
(***************************************************************************)
(* Proofs about state images (module Image) and the tables they rebuild    *)
(* (module Tables): the state is a function of the log, whatever images a  *)
(* recovery starts from.                                                   *)
(***************************************************************************)
EXTENDS Image, ColumnTheorems

-----------------------------------------------------------------------------
(* Probing.  SlotAt is the slot a probe for k sees at its step j, and       *)
(* StopsAt the step it ends at.                                             *)

SlotAt(k, j) == (Hash[k] + j) % TableSlots
Ends(t, k, j) == ~t[SlotAt(k, j)].used \/ t[SlotAt(k, j)].key = k
StopsAt(t, k, j) == j \in SlotIds /\ Ends(t, k, j) /\ \A h \in SlotIds : h < j => ~Ends(t, k, h)

\* Every step of a probe sees a slot of the table.
LEMMA SlotAtType ==
  ASSUME NEW k \in DOMAIN Hash, NEW j \in SlotIds
  PROVE  SlotAt(k, j) \in SlotIds
<1>1. TableSlots \in Nat /\ TableSlots > 0 /\ Hash[k] \in Nat /\ j \in Nat
  BY TableAssumption DEF SlotIds
<1>2. \A a, b \in Nat : b > 0 => a % b \in 0 .. b - 1
  OBVIOUS
<1>3. Hash[k] + j \in Nat
  BY <1>1
<1> QED  BY <1>1, <1>2, <1>3 DEF SlotAt, SlotIds

\* A probe that goes round the table sees every slot.
LEMMA SlotReached ==
  ASSUME NEW k \in DOMAIN Hash, NEW i \in SlotIds
  PROVE  \E j \in SlotIds : SlotAt(k, j) = i
<1>1. TableSlots \in Nat /\ TableSlots > 0 /\ Hash[k] \in 0 .. TableSlots - 1 /\ i \in 0 .. TableSlots - 1
  BY TableAssumption DEF SlotIds
<1>2. PICK h \in Nat : h = Hash[k]
  BY <1>1
<1>3. CASE h <= i
  <2>1. i - h \in SlotIds /\ h + (i - h) = i
    BY <1>1, <1>2, <1>3 DEF SlotIds
  <2>2. i % TableSlots = i
    BY <1>1
  <2> QED  BY <1>2, <2>1, <2>2 DEF SlotAt
<1>4. CASE h > i
  <2>1. i + TableSlots - h \in SlotIds /\ h + (i + TableSlots - h) = i + TableSlots
    BY <1>1, <1>2, <1>4 DEF SlotIds
  <2>2. \A a, b \in Nat : a < b => (a + b) % b = a
    OBVIOUS
  <2>3. (i + TableSlots) % TableSlots = i
    BY <1>1, <2>2
  <2> QED  BY <1>2, <2>1, <2>3 DEF SlotAt
<1> QED  BY <1>1, <1>2, <1>3, <1>4

\* Probed is the slot of the first step that may end the probe.
LEMMA ProbedStop ==
  ASSUME NEW t, NEW k, NEW j, StopsAt(t, k, j)
  PROVE  Probed(t, k) = {SlotAt(k, j)}
<1> DEFINE E == {h \in SlotIds : Ends(t, k, h)}
<1>1. Probed(t, k) = IF E = {} THEN {} ELSE {SlotAt(k, Min(E))}
  BY DEF Probed, Ends, SlotAt
<1>2. j \in E /\ SlotIds \subseteq Int /\ E \subseteq SlotIds
  BY TableAssumption DEF StopsAt, SlotIds
<1>3. \A h \in E : j <= h
  BY <1>2 DEF StopsAt
<1> HIDE DEF E
<1>4. Min(E) = j
  <2>1. Min(E) \in E /\ \A y \in E : Min(E) <= y
    BY <1>2, <1>3 DEF Min
  <2>2. PICK m : m = Min(E)
    OBVIOUS
  <2>3. m \in Int /\ j \in Int /\ m <= j /\ j <= m
    BY <1>2, <1>3, <2>1, <2>2
  <2> QED  BY <2>2, <2>3
<1> QED  BY <1>1, <1>2, <1>4

\* A probe that does not stop has no slot.
LEMMA ProbedNone ==
  ASSUME NEW t, NEW k, ~\E j \in SlotIds : StopsAt(t, k, j)
  PROVE  Probed(t, k) = {} /\ \A h \in SlotIds : ~Ends(t, k, h)
<1> DEFINE E == {h \in SlotIds : Ends(t, k, h)}
<1>1. Probed(t, k) = IF E = {} THEN {} ELSE {SlotAt(k, Min(E))}
  BY DEF Probed, Ends, SlotAt
<1>2. E \subseteq Nat /\ E \subseteq SlotIds
  BY TableAssumption DEF SlotIds
<1>3. ASSUME E # {} PROVE FALSE
  <2>1. PICK x \in E : \A y \in E : x <= y
    <3> HIDE DEF E
    <3> QED  BY <1>2, <1>3, LeastNatural
  <2>2. \A h \in SlotIds : h < x => ~Ends(t, k, h)
    BY <1>2, <2>1
  <2>3. x \in SlotIds /\ StopsAt(t, k, x)
    BY <2>2 DEF StopsAt
  <2> QED  BY <2>3
<1> QED  BY <1>1, <1>3

\* Every probe stops somewhere or sees no slot it may end at.
LEMMA ProbedCases ==
  ASSUME NEW t, NEW k
  PROVE  \/ \E j \in SlotIds : StopsAt(t, k, j) /\ Probed(t, k) = {SlotAt(k, j)}
         \/ Probed(t, k) = {} /\ \A h \in SlotIds : ~Ends(t, k, h)
<1>1. CASE \E j \in SlotIds : StopsAt(t, k, j)
  BY <1>1, ProbedStop
<1>2. CASE ~\E j \in SlotIds : StopsAt(t, k, j)
  BY <1>2, ProbedNone
<1> QED  BY <1>1, <1>2

-----------------------------------------------------------------------------
(* Tables whose every entry is found where it stands. *)

Holds(t, i, k) == t[i].used /\ t[i].key = k

TableOK(t) ==
  /\ t = [i \in SlotIds |-> t[i]]
  /\ \A i \in SlotIds : t[i].used \in BOOLEAN
  /\ \A i \in SlotIds : t[i].used =>
       t[i].key \in DOMAIN Hash /\ t[i].val \in Nat /\ Probed(t, t[i].key) = {i}

\* A probe ends inside the table.
LEMMA ProbedType ==
  ASSUME NEW t, NEW k \in DOMAIN Hash
  PROVE  Probed(t, k) \subseteq SlotIds
BY ProbedCases, SlotAtType

\* find returns the value of the entry that holds the key.
LEMMA FindSlot ==
  ASSUME NEW t, TableOK(t), NEW k, NEW i \in SlotIds, Holds(t, i, k)
  PROVE  Find(t, k) = t[i].val /\ Has(t, k) /\ k \in DOMAIN Hash
<1>1. Probed(t, k) = {i} /\ k \in DOMAIN Hash /\ t[i].val \in Nat
  BY DEF TableOK, Holds
<1>2. (CHOOSE x \in Probed(t, k) : TRUE) = i
  BY <1>1
<1>3. Find(t, k) = t[i].val
  BY <1>1, <1>2 DEF Find, Holds
<1> QED  BY <1>1, <1>3 DEF Has, kEmpty

\* find returns kEmpty when no entry holds the key.
LEMMA FindMiss ==
  ASSUME NEW t, NEW k \in DOMAIN Hash, \A i \in SlotIds : ~Holds(t, i, k)
  PROVE  Find(t, k) = kEmpty /\ ~Has(t, k)
<1>1. Find(t, k) = kEmpty
  BY ProbedType DEF Find, Holds
<1> QED  BY <1>1 DEF Has

\* What the table has stands in some slot.
LEMMA HasSlot ==
  ASSUME NEW t, TableOK(t), NEW k \in DOMAIN Hash, Has(t, k)
  PROVE  \E i \in SlotIds : Holds(t, i, k) /\ Find(t, k) = t[i].val
<1>1. PICK i \in SlotIds : Holds(t, i, k)
  BY FindMiss
<1> QED  BY <1>1, FindSlot

\* An empty table has nothing.
LEMMA EmptyTableOK ==
  /\ TableOK(EmptyTable)
  /\ \A k \in DOMAIN Hash : Find(EmptyTable, k) = kEmpty /\ ~Has(EmptyTable, k)
  /\ Size(EmptyTable) = 0
<1>1. \A i \in SlotIds : EmptyTable[i].used = FALSE
  BY DEF EmptyTable, Free
<1>2. EmptyTable = [i \in SlotIds |-> EmptyTable[i]]
  BY DEF EmptyTable
<1>3. TableOK(EmptyTable)
  BY <1>1, <1>2 DEF TableOK
<1>4. {i \in SlotIds : EmptyTable[i].used} = {}
  BY <1>1
<1> QED  BY <1>1, <1>3, <1>4, FindMiss, FS_EmptySet DEF Holds, Size

\* A key that insert accepts takes the free slot its probe ends at.
LEMMA InsertSlot ==
  ASSUME NEW t, TableOK(t), NEW k \in DOMAIN Hash, NEW v, ~Has(t, k), ~Refuses(t, k)
  PROVE  \E j \in SlotIds :
           /\ StopsAt(t, k, j) /\ ~t[SlotAt(k, j)].used
           /\ InsertOrGet(t, k, v) = [t EXCEPT ![SlotAt(k, j)] = [used |-> TRUE, key |-> k, val |-> v]]
<1>1. Probed(t, k) # {}
  BY DEF Refuses
<1>2. PICK j \in SlotIds : StopsAt(t, k, j) /\ Probed(t, k) = {SlotAt(k, j)}
  BY <1>1, ProbedCases
<1>3. SlotAt(k, j) \in SlotIds
  BY SlotAtType
<1>4. ~t[SlotAt(k, j)].used
  <2>1. ~Holds(t, SlotAt(k, j), k)
    BY <1>3, FindSlot
  <2>2. Ends(t, k, j)
    BY <1>2 DEF StopsAt
  <2> QED  BY <2>1, <2>2 DEF Ends, Holds
<1>5. (CHOOSE x \in Probed(t, k) : TRUE) = SlotAt(k, j)
  BY <1>2
<1>6. InsertOrGet(t, k, v) = [t EXCEPT ![SlotAt(k, j)] = [used |-> TRUE, key |-> k, val |-> v]]
  BY <1>5 DEF InsertOrGet
<1> QED  BY <1>2, <1>4, <1>6

\* The table t with a new entry in its slot i.
Put(t, i, k, v) == [t EXCEPT ![i] = [used |-> TRUE, key |-> k, val |-> v]]

\* What stands in each slot after the entry is written.
LEMMA PutSlots ==
  ASSUME NEW t, TableOK(t), NEW i \in SlotIds, NEW k, NEW v
  PROVE  /\ Put(t, i, k, v) = [x \in SlotIds |-> Put(t, i, k, v)[x]]
         /\ Put(t, i, k, v)[i].used /\ Put(t, i, k, v)[i].used \in BOOLEAN
         /\ Put(t, i, k, v)[i].key = k /\ Put(t, i, k, v)[i].val = v
         /\ \A x \in SlotIds : x # i => Put(t, i, k, v)[x] = t[x]
<1>1. t = [x \in SlotIds |-> t[x]]
  BY DEF TableOK
<1>2. Put(t, i, k, v) = [x \in SlotIds |-> IF x = i THEN [used |-> TRUE, key |-> k, val |-> v] ELSE t[x]]
  BY <1>1 DEF Put
<1>3. PICK u, e : u = Put(t, i, k, v) /\ e = [used |-> TRUE, key |-> k, val |-> v]
  OBVIOUS
<1>4. u = [x \in SlotIds |-> IF x = i THEN e ELSE t[x]] /\ u = [x \in SlotIds |-> u[x]]
  BY <1>2, <1>3
<1>5. e.used /\ e.used \in BOOLEAN /\ e.key = k /\ e.val = v
  BY <1>3
<1>6. u[i] = e /\ \A x \in SlotIds : x # i => u[x] = t[x]
  BY <1>4
<1> QED  BY <1>3, <1>4, <1>5, <1>6

\* A new entry in a free slot no longer ends the probes of the other keys.
LEMMA PutEnds ==
  ASSUME NEW t, TableOK(t), NEW i \in SlotIds, NEW k, NEW v, ~t[i].used,
         NEW q \in DOMAIN Hash, NEW h \in SlotIds
  PROVE  Ends(Put(t, i, k, v), q, h) <=> Ends(t, q, h) /\ (SlotAt(q, h) = i => q = k)
<1>1. SlotAt(q, h) \in SlotIds
  BY SlotAtType
<1>2. CASE SlotAt(q, h) = i
  BY <1>2, PutSlots DEF Ends
<1>3. CASE SlotAt(q, h) # i
  BY <1>1, <1>3, PutSlots DEF Ends
<1> QED  BY <1>2, <1>3

\* A probe that ended elsewhere, or is for the new key, ends where it did.
LEMMA PutStops ==
  ASSUME NEW t, TableOK(t), NEW i \in SlotIds, NEW k, NEW v, ~t[i].used,
         NEW q \in DOMAIN Hash, NEW j \in SlotIds, StopsAt(t, q, j),
         SlotAt(q, j) = i => q = k
  PROVE  StopsAt(Put(t, i, k, v), q, j)
<1>1. Ends(t, q, j) /\ \A h \in SlotIds : h < j => ~Ends(t, q, h)
  BY DEF StopsAt
<1>2. Ends(Put(t, i, k, v), q, j)
  BY <1>1, PutEnds
<1>3. \A h \in SlotIds : ~Ends(t, q, h) => ~Ends(Put(t, i, k, v), q, h)
  BY PutEnds
<1>4. \A h \in SlotIds : h < j => ~Ends(Put(t, i, k, v), q, h)
  BY <1>1, <1>3
<1> QED  BY <1>2, <1>4 DEF StopsAt

\* A new entry at the end of its own probe keeps every entry where it is found.
LEMMA PutOK ==
  ASSUME NEW t, TableOK(t), NEW k \in DOMAIN Hash, NEW v \in Nat, NEW j \in SlotIds,
         StopsAt(t, k, j), ~t[SlotAt(k, j)].used
  PROVE  TableOK(Put(t, SlotAt(k, j), k, v))
<1>1. PICK i \in SlotIds : i = SlotAt(k, j)
  BY SlotAtType
<1>2. PICK u : u = Put(t, i, k, v)
  OBVIOUS
<1>3. /\ u = [x \in SlotIds |-> u[x]]
      /\ u[i].used /\ u[i].used \in BOOLEAN /\ u[i].key = k /\ u[i].val = v
      /\ \A x \in SlotIds : x # i => u[x] = t[x]
  BY <1>2, PutSlots
<1>4. Probed(u, k) = {i}
  <2>1. StopsAt(u, k, j)
    BY <1>1, <1>2, PutStops
  <2> QED  BY <1>1, <2>1, ProbedStop
<1>5. ASSUME NEW x \in SlotIds, x # i, t[x].used
      PROVE  t[x].key \in DOMAIN Hash /\ t[x].val \in Nat /\ Probed(u, t[x].key) = {x}
  <2>1. PICK q : q = t[x].key
    OBVIOUS
  <2>2. q \in DOMAIN Hash /\ t[x].val \in Nat /\ Probed(t, q) = {x}
    BY <1>5, <2>1 DEF TableOK
  <2>3. PICK h \in SlotIds : StopsAt(t, q, h) /\ Probed(t, q) = {SlotAt(q, h)}
    BY <2>2, ProbedCases
  <2>4. SlotAt(q, h) = x
    BY <2>2, <2>3
  <2>5. StopsAt(u, q, h)
    BY <1>1, <1>2, <1>5, <2>2, <2>3, <2>4, PutStops
  <2> QED  BY <2>1, <2>2, <2>4, <2>5, ProbedStop
<1>6. \A x \in SlotIds : u[x].used \in BOOLEAN
  BY <1>3 DEF TableOK
<1>7. \A x \in SlotIds : u[x].used =>
        u[x].key \in DOMAIN Hash /\ u[x].val \in Nat /\ Probed(u, u[x].key) = {x}
  BY <1>3, <1>4, <1>5
<1>8. TableOK(u)
  BY <1>3, <1>6, <1>7 DEF TableOK
<1> QED  BY <1>1, <1>2, <1>8

\* insert_or_get keeps every entry where find looks for it.
LEMMA InsertOK ==
  ASSUME NEW t, TableOK(t), NEW k \in DOMAIN Hash, NEW v \in Nat, ~Has(t, k), ~Refuses(t, k)
  PROVE  /\ TableOK(InsertOrGet(t, k, v))
         /\ Find(InsertOrGet(t, k, v), k) = v /\ Has(InsertOrGet(t, k, v), k)
         /\ \A q \in DOMAIN Hash : q # k => Find(InsertOrGet(t, k, v), q) = Find(t, q)
         /\ Size(InsertOrGet(t, k, v)) = Size(t) + 1
<1>1. PICK j \in SlotIds :
        /\ StopsAt(t, k, j) /\ ~t[SlotAt(k, j)].used
        /\ InsertOrGet(t, k, v) = Put(t, SlotAt(k, j), k, v)
  BY InsertSlot DEF Put
<1>2. PICK i \in SlotIds : i = SlotAt(k, j)
  BY SlotAtType
<1>3. PICK u : u = InsertOrGet(t, k, v)
  OBVIOUS
<1>4. u = Put(t, i, k, v) /\ ~t[i].used
  BY <1>1, <1>2, <1>3
<1>5. TableOK(u)
  BY <1>1, <1>2, <1>4, PutOK
<1>6. /\ u[i].used /\ u[i].key = k /\ u[i].val = v
      /\ \A x \in SlotIds : x # i => u[x] = t[x]
  BY <1>4, PutSlots
<1>7. Find(u, k) = v /\ Has(u, k)
  BY <1>5, <1>6, FindSlot DEF Holds
<1>8. ASSUME NEW q \in DOMAIN Hash, q # k PROVE Find(u, q) = Find(t, q)
  <2>1. \A x \in SlotIds : Holds(u, x, q) <=> Holds(t, x, q)
    BY <1>4, <1>6, <1>8 DEF Holds
  <2>2. CASE \E x \in SlotIds : Holds(t, x, q)
    <3>1. PICK x \in SlotIds : Holds(t, x, q)
      BY <2>2
    <3>2. Holds(u, x, q) /\ u[x] = t[x]
      BY <1>4, <1>6, <1>8, <2>1, <3>1 DEF Holds
    <3>3. Find(t, q) = t[x].val
      BY <3>1, FindSlot
    <3>4. Find(u, q) = u[x].val
      BY <1>5, <3>2, FindSlot
    <3> QED  BY <3>2, <3>3, <3>4
  <2>3. CASE ~\E x \in SlotIds : Holds(t, x, q)
    BY <2>1, <2>3, FindMiss
  <2> QED  BY <2>2, <2>3
<1>9. Size(u) = Size(t) + 1
  <2> DEFINE A == {x \in SlotIds : t[x].used}
  <2>1. {x \in SlotIds : u[x].used} = A \cup {i}
    BY <1>6, Zenon
  <2>2. IsFiniteSet(A) /\ i \notin A
    <3>1. IsFiniteSet(SlotIds)
      BY TableAssumption, FS_Interval DEF SlotIds
    <3> QED  BY <1>4, <3>1, FS_Subset
  <2>3. Cardinality(A \cup {i}) = Cardinality(A) + 1
    BY <2>2, FS_AddElement
  <2> QED  BY <2>1, <2>3 DEF Size
<1> QED  BY <1>3, <1>5, <1>7, <1>8, <1>9

\* A table below its load factor takes every key.
LEMMA NotRefused ==
  ASSUME NEW t, NEW k \in DOMAIN Hash, Size(t) * 10 < TableSlots * 7
  PROVE  ~Refuses(t, k)
<1>1. Size(t) \in Nat /\ TableSlots \in Nat /\ (Size(t) = TableSlots => FALSE)
  <2>1. IsFiniteSet(SlotIds)
    BY TableAssumption, FS_Interval DEF SlotIds
  <2>2. Size(t) \in Nat
    BY <2>1, FS_Subset, FS_CardinalityType DEF Size
  <2> QED  BY <2>2, TableAssumption
<1>2. ~Overloaded(t)
  BY <1>1 DEF Overloaded
<1>3. ASSUME Probed(t, k) = {} PROVE FALSE
  <2>1. \A h \in SlotIds : ~Ends(t, k, h)
    BY <1>3, ProbedCases
  <2>2. \A i \in SlotIds : t[i].used
    BY <2>1, SlotReached DEF Ends
  <2>3. {i \in SlotIds : t[i].used} = SlotIds
    BY <2>2
  <2>4. Cardinality(SlotIds) = TableSlots
    <3>1. TableSlots \in Nat /\ 0 \in Int /\ TableSlots - 1 \in Int
      BY TableAssumption
    <3>2. Cardinality(0 .. TableSlots - 1) = IF 0 > TableSlots - 1 THEN 0 ELSE TableSlots - 1 - 0 + 1
      BY <3>1, FS_Interval
    <3> QED  BY <3>1, <3>2, TableAssumption DEF SlotIds
  <2> QED  BY <1>1, <2>3, <2>4 DEF Size
<1> QED  BY <1>2, <1>3 DEF Refuses

-----------------------------------------------------------------------------
(* The two loops that copy what they keep. *)

\* for_each of a table yields every key it has, once.
LEMMA InSlotOrderHolds ==
  ASSUME NEW t, TableOK(t)
  PROVE  /\ InSlotOrder(t) \in Seq(DOMAIN Hash)
         /\ Len(InSlotOrder(t)) = Size(t)
         /\ Injective(InSlotOrder(t), 1 .. Len(InSlotOrder(t)))
         /\ \A k \in DOMAIN Hash :
              Has(t, k) <=> \E j \in 1 .. Len(InSlotOrder(t)) : InSlotOrder(t)[j] = k
<1> DEFINE used == {n \in 1 .. TableSlots : t[n - 1].used}
           seq == [n \in 1 .. TableSlots |-> t[n - 1].key]
           U == {i \in SlotIds : t[i].used}
           K == {seq[n] : n \in 1 .. TableSlots}
<1>1. TableSlots \in Nat /\ \A n \in 1 .. TableSlots : n - 1 \in SlotIds
  BY TableAssumption DEF SlotIds
<1>2. \A i \in SlotIds : i + 1 \in 1 .. TableSlots /\ (i + 1) - 1 = i
  BY TableAssumption DEF SlotIds
<1>3. seq \in Seq(K) /\ Len(seq) = TableSlots
  <2>1. \A n \in 1 .. TableSlots : seq[n] \in K
    OBVIOUS
  <2>2. seq = [n \in 1 .. TableSlots |-> seq[n]]
    OBVIOUS
  <2> HIDE DEF seq, K
  <2>3. seq \in [1 .. TableSlots -> K]
    BY <2>1, <2>2
  <2> QED  BY <1>1, <2>3
<1>4. KeptOK(K, InSlotOrder(t), TableSlots, seq, used)
  <2>1. InSlotOrder(t) = Kept(seq, used)
    BY DEF InSlotOrder
  <2> HIDE DEF seq, K, used
  <2>2. used \subseteq 1 .. Len(seq)
    BY <1>3 DEF used
  <2> QED  BY <1>3, <2>1, <2>2, KeptHolds
<1>5. used \cap (1 .. TableSlots) = used
  OBVIOUS
<1>6. PICK q : q = InSlotOrder(t)
  OBVIOUS
<1>7. /\ q \in Seq(K) /\ Len(q) = Cardinality(used)
      /\ \A i \in used : \E j \in 1 .. Len(q) : q[j] = seq[i]
      /\ \A j \in 1 .. Len(q) : \E i \in used : q[j] = seq[i]
      /\ Injective(seq, used) => Injective(q, 1 .. Len(q))
  <2> HIDE DEF seq, K, used
  <2> QED  BY <1>4, <1>5, <1>6 DEF KeptOK
<1>8. \A n \in used : n - 1 \in SlotIds /\ seq[n] = t[n - 1].key /\ Holds(t, n - 1, seq[n])
  BY <1>1 DEF Holds
<1>9. Injective(seq, used)
  <2>1. ASSUME NEW a \in used, NEW b \in used, seq[a] = seq[b] PROVE a = b
    <3>1. Probed(t, t[a - 1].key) = {a - 1} /\ Probed(t, t[b - 1].key) = {b - 1}
      BY <1>1, <1>8 DEF TableOK
    <3>2. t[a - 1].key = t[b - 1].key
      BY <1>8, <2>1
    <3>3. a - 1 = b - 1
      BY <3>1, <3>2
    <3> QED  BY <1>1, <3>3
  <2> QED  BY <2>1 DEF Injective
<1>10. q \in Seq(DOMAIN Hash)
  <2>1. \A n \in used : seq[n] \in DOMAIN Hash
    BY <1>8 DEF TableOK, Holds
  <2>2. \A j \in 1 .. Len(q) : q[j] \in DOMAIN Hash
    BY <1>7, <2>1
  <2> HIDE DEF seq, K, used
  <2>3. q = [j \in 1 .. Len(q) |-> q[j]] /\ Len(q) \in Nat
    BY <1>7
  <2> QED  BY <2>2, <2>3
<1>11. ASSUME NEW k \in DOMAIN Hash
       PROVE  Has(t, k) <=> \E j \in 1 .. Len(q) : q[j] = k
  <2>1. ASSUME Has(t, k) PROVE \E j \in 1 .. Len(q) : q[j] = k
    <3>1. PICK i \in SlotIds : Holds(t, i, k)
      BY <2>1, HasSlot
    <3>2. i + 1 \in used /\ seq[i + 1] = k
      BY <1>2, <3>1 DEF Holds
    <3> QED  BY <1>7, <3>2
  <2>2. ASSUME NEW j \in 1 .. Len(q), q[j] = k PROVE Has(t, k)
    <3>1. PICK n \in used : q[j] = seq[n]
      BY <1>7
    <3> QED  BY <1>8, <2>2, <3>1, FindSlot
  <2> QED  BY <2>1, <2>2
<1>12. Len(q) = Size(t)
  <2>1. used \subseteq 1 .. TableSlots /\ IsFiniteSet(used)
    <3>1. IsFiniteSet(1 .. TableSlots) /\ used \subseteq 1 .. TableSlots
      BY <1>1, FS_Interval
    <3> HIDE DEF used
    <3> QED  BY <3>1, FS_Subset
  <2> DEFINE g == [n \in used |-> n - 1]
  <2>2. g \in Bijection(used, U)
    <3>1. g \in [used -> U]
      BY <1>8
    <3>2. \A a, b \in used : g[a] = g[b] => a = b
      BY <1>1
    <3>3. \A i \in U : i + 1 \in used /\ g[i + 1] = i
      BY <1>2
    <3> HIDE DEF g, used, U
    <3>4. \A i \in U : \E a \in used : g[a] = i
      BY <3>3
    <3> QED  BY <3>1, <3>2, <3>4 DEF Bijection, Injection, Surjection, IsInjective
  <2>3. Cardinality(U) = Cardinality(used)
    <3> HIDE DEF g, used, U
    <3> QED  BY <2>1, <2>2, FS_Bijection DEF ExistsBijection
  <2> QED  BY <1>7, <2>3 DEF Size
<1> QED  BY <1>6, <1>7, <1>9, <1>10, <1>11, <1>12

FilledBody(f, n, keys, vals) ==
  IF n = 0 THEN EmptyTable ELSE InsertOrGet(f[n - 1], keys[n], vals[n])
FilledUpto(keys, vals, m) == CHOOSE f : f = [n \in 0 .. m |-> FilledBody(f, n, keys, vals)]

\* The recursion of Filled has a solution.
LEMMA FilledSolves ==
  ASSUME NEW keys, NEW vals, NEW m \in Nat
  PROVE  FilledUpto(keys, vals, m) =
           [n \in 0 .. m |-> FilledBody(FilledUpto(keys, vals, m), n, keys, vals)]
<1> DEFINE Solved(x) == \E f : f = [n \in 0 .. x |-> FilledBody(f, n, keys, vals)]
<1> SUFFICES ASSUME ~Solved(m) PROVE FALSE
  BY DEF FilledUpto
<1>1. PICK x \in {y \in Nat : ~Solved(y)} : \A y \in {y \in Nat : ~Solved(y)} : x <= y
  <2>1. {y \in Nat : ~Solved(y)} # {} /\ {y \in Nat : ~Solved(y)} \subseteq Nat
    OBVIOUS
  <2> HIDE DEF Solved
  <2> QED  BY <2>1, LeastNatural
<1>2. x \in Nat /\ ~Solved(x)
  OBVIOUS
<1>3. CASE x = 0
  <2> DEFINE f == [n \in 0 .. 0 |-> EmptyTable]
  <2>1. f = [n \in 0 .. x |-> FilledBody(f, n, keys, vals)]
    BY <1>3 DEF FilledBody
  <2> QED  BY <1>2, <2>1
<1>4. CASE x # 0
  <2>1. x - 1 \in Nat /\ ~(x <= x - 1)
    BY <1>2, <1>4
  <2>2. Solved(x - 1)
    <3> HIDE DEF Solved
    <3> QED  BY <1>1, <2>1
  <2>3. PICK g : g = [n \in 0 .. x - 1 |-> FilledBody(g, n, keys, vals)]
    BY <2>2
  <2> DEFINE f == [n \in 0 .. x |-> FilledBody(g, n, keys, vals)]
  <2>4. ASSUME NEW n \in 0 .. x, n # 0 PROVE f[n - 1] = g[n - 1]
    <3>1. n - 1 \in 0 .. x - 1 /\ n - 1 \in 0 .. x
      BY <2>4, <1>2
    <3>2. g[n - 1] = FilledBody(g, n - 1, keys, vals)
      BY <2>3, <3>1
    <3> QED  BY <3>1, <3>2
  <2>5. \A n \in 0 .. x : FilledBody(g, n, keys, vals) = FilledBody(f, n, keys, vals)
    BY <2>4 DEF FilledBody
  <2>6. f = [n \in 0 .. x |-> FilledBody(f, n, keys, vals)]
    BY <2>5
  <2> QED  BY <1>2, <2>6
<1> QED  BY <1>3, <1>4

\* t has the first n keys, each with its value, and nothing else.
FilledOK(t, n, keys, vals) ==
  /\ TableOK(t)
  /\ Size(t) = n
  /\ \A i \in 1 .. n : Find(t, keys[i]) = vals[i]
  /\ \A k \in DOMAIN Hash : Has(t, k) => \E i \in 1 .. n : keys[i] = k

\* A sequence of keys a table can take: no key twice, and room for the last one.
Fits(keys) ==
  /\ keys \in Seq(DOMAIN Hash)
  /\ Injective(keys, 1 .. Len(keys))
  /\ Len(keys) # 0 => (Len(keys) - 1) * 10 < TableSlots * 7

\* One insertion of Filled.
LEMMA FilledInsert ==
  ASSUME NEW keys, Fits(keys), NEW vals, NEW n \in 1 .. Len(keys), vals[n] \in Nat,
         NEW t, FilledOK(t, n - 1, keys, vals)
  PROVE  FilledOK(InsertOrGet(t, keys[n], vals[n]), n, keys, vals)
<1>1. Len(keys) \in Nat /\ n \in Nat /\ n # 0 /\ n <= Len(keys) /\ keys[n] \in DOMAIN Hash
  BY DEF Fits
<1>2. PICK k \in DOMAIN Hash : k = keys[n]
  BY <1>1
<1>3. TableOK(t) /\ Size(t) = n - 1
  BY DEF FilledOK
<1>4. \A i \in 1 .. n - 1 : i \in 1 .. Len(keys) /\ keys[i] \in DOMAIN Hash /\ keys[i] # k
  <2>1. \A i \in 1 .. n - 1 : i \in 1 .. Len(keys) /\ i # n
    BY <1>1
  <2>2. \A i \in 1 .. Len(keys) : keys[i] \in DOMAIN Hash
    BY DEF Fits
  <2> QED  BY <1>2, <2>1, <2>2 DEF Fits, Injective
<1>5. ~Has(t, k)
  BY <1>4 DEF FilledOK
<1>6. ~Refuses(t, k)
  <2>1. TableSlots \in Nat /\ (n - 1) * 10 < TableSlots * 7
    BY <1>1, TableAssumption DEF Fits
  <2> QED  BY <1>3, <2>1, NotRefused
<1>7. PICK u : u = InsertOrGet(t, k, vals[n])
  OBVIOUS
<1>8. /\ TableOK(u) /\ Find(u, k) = vals[n] /\ Size(u) = Size(t) + 1
      /\ \A q \in DOMAIN Hash : q # k => Find(u, q) = Find(t, q)
  BY <1>3, <1>5, <1>6, <1>7, InsertOK
<1>9. Size(u) = n
  BY <1>1, <1>3, <1>8
<1>10. \A i \in 1 .. n : Find(u, keys[i]) = vals[i]
  <2>1. \A i \in 1 .. n : i \in 1 .. n - 1 \/ i = n
    BY <1>1
  <2>2. \A i \in 1 .. n - 1 : Find(u, keys[i]) = vals[i]
    BY <1>4, <1>8 DEF FilledOK
  <2> QED  BY <1>2, <1>8, <2>1, <2>2
<1>11. ASSUME NEW q \in DOMAIN Hash, Has(u, q) PROVE \E i \in 1 .. n : keys[i] = q
  <2>1. \A i \in 1 .. n - 1 : i \in 1 .. n
    BY <1>1
  <2>2. n \in 1 .. n
    BY <1>1
  <2>3. CASE q = k
    BY <1>2, <2>2, <2>3
  <2>4. CASE q # k
    <3>1. Has(t, q)
      BY <1>8, <1>11, <2>4 DEF Has
    <3> QED  BY <2>1, <3>1 DEF FilledOK
  <2> QED  BY <2>3, <2>4
<1>12. FilledOK(u, n, keys, vals)
  BY <1>8, <1>9, <1>10, <1>11 DEF FilledOK
<1> QED  BY <1>2, <1>7, <1>12

\* A table filled from a sequence that fits has its keys, each with its value.
LEMMA FilledHolds ==
  ASSUME NEW keys, Fits(keys), NEW vals, \A n \in 1 .. Len(keys) : vals[n] \in Nat
  PROVE  FilledOK(Filled(keys, vals), Len(keys), keys, vals)
<1> DEFINE f == FilledUpto(keys, vals, Len(keys))
<1>1. Len(keys) \in Nat /\ f = [n \in 0 .. Len(keys) |-> FilledBody(f, n, keys, vals)]
  <2>1. Len(keys) \in Nat
    BY DEF Fits
  <2> QED  BY <2>1, FilledSolves
<1>2. Filled(keys, vals) = f[Len(keys)]
  BY DEF Filled, FilledUpto, FilledBody
<1> HIDE DEF f
<1> DEFINE Bad == {n \in Nat : n <= Len(keys) /\ ~FilledOK(f[n], n, keys, vals)}
<1> SUFFICES ASSUME Bad # {} PROVE FALSE
  BY <1>1, <1>2
<1>3. PICK x \in Bad : \A y \in Bad : x <= y
  <2>1. Bad \subseteq Nat
    OBVIOUS
  <2> HIDE DEF Bad
  <2> QED  BY <2>1, LeastNatural
<1>4. x \in Nat /\ x <= Len(keys) /\ ~FilledOK(f[x], x, keys, vals)
  OBVIOUS
<1>5. f[x] = FilledBody(f, x, keys, vals)
  BY <1>1, <1>4
<1>6. CASE x = 0
  <2>1. f[x] = EmptyTable /\ 1 .. x = {}
    BY <1>5, <1>6 DEF FilledBody
  <2>2. FilledOK(f[x], x, keys, vals)
    BY <1>6, <2>1, EmptyTableOK DEF FilledOK
  <2> QED  BY <1>4, <2>2
<1>7. CASE x # 0
  <2>1. x - 1 \in Nat /\ x - 1 <= Len(keys) /\ ~(x <= x - 1) /\ x \in 1 .. Len(keys)
    BY <1>1, <1>4, <1>7
  <2>2. FilledOK(f[x - 1], x - 1, keys, vals)
    BY <1>3, <2>1
  <2>3. f[x] = InsertOrGet(f[x - 1], keys[x], vals[x])
    BY <1>5, <1>7 DEF FilledBody
  <2>4. FilledOK(f[x], x, keys, vals)
    BY <2>1, <2>2, <2>3, FilledInsert
  <2> QED  BY <1>4, <2>4
<1> QED  BY <1>6, <1>7

-----------------------------------------------------------------------------
(* The index of a column. *)

RowsOK(rows) ==
  rows \in Seq(Trades) /\ Injective(rows, 1 .. Len(rows)) /\ Len(rows) <= MaxRows

IndexOK(t, rows) ==
  /\ TableOK(t)
  /\ Size(t) = Len(rows)
  /\ \A i \in 1 .. Len(rows) : Find(t, rows[i]) = i
  /\ \A k \in DOMAIN Hash : Has(t, k) => \E i \in 1 .. Len(rows) : rows[i] = k

\* Ids have a hash.
LEMMA Hashed == Trades \subseteq DOMAIN Hash /\ Keys \subseteq DOMAIN Hash
BY ImageAssumption

\* init gives the index of a column room for every row.
LEMMA RoomForRows ==
  ASSUME NEW n \in Nat, n < MaxRows
  PROVE  n * 10 < TableSlots * 7
<1>1. MaxRows \in Nat /\ TableSlots \in Nat /\ (MaxRows * 10 + 6) \div 7 <= TableSlots
  BY ImageAssumption, TableAssumption DEF SlotsFor
<1>2. PICK m, b \in Nat : m = MaxRows /\ b = TableSlots
  BY <1>1
<1>3. (m * 10 + 6) \div 7 <= b
  BY <1>1, <1>2
<1>4. m * 10 <= b * 7
  BY <1>3
<1> QED  BY <1>2, <1>4

\* A column of distinct ids fits its index.
LEMMA RowsFit ==
  ASSUME NEW rows, RowsOK(rows)
  PROVE  Fits(rows)
<1>1. Len(rows) \in Nat /\ MaxRows \in Nat
  BY ImageAssumption DEF RowsOK
<1>2. Len(rows) # 0 => Len(rows) - 1 \in Nat /\ Len(rows) - 1 < MaxRows
  BY <1>1 DEF RowsOK
<1>3. Len(rows) # 0 => (Len(rows) - 1) * 10 < TableSlots * 7
  BY <1>2, RoomForRows
<1>4. rows \in Seq(DOMAIN Hash)
  BY Hashed DEF RowsOK
<1> QED  BY <1>3, <1>4 DEF Fits, RowsOK

\* rebuild_indexes: the index built from a column finds every row of it.
LEMMA IndexedOK ==
  ASSUME NEW rows, RowsOK(rows)
  PROVE  IndexOK(Indexed(rows), rows)
<1> DEFINE vals == [i \in DOMAIN rows |-> i]
<1>1. Fits(rows) /\ Len(rows) \in Nat
  BY RowsFit DEF RowsOK
<1>2. DOMAIN rows = 1 .. Len(rows)
  BY DEF RowsOK
<1>3. \A n \in 1 .. Len(rows) : vals[n] = n /\ vals[n] \in Nat
  BY <1>1, <1>2
<1>4. Indexed(rows) = Filled(rows, vals)
  BY DEF Indexed
<1> HIDE DEF vals
<1>5. FilledOK(Indexed(rows), Len(rows), rows, vals)
  BY <1>1, <1>3, <1>4, FilledHolds
<1> QED  BY <1>3, <1>5 DEF FilledOK, IndexOK

\* The index has exactly the ids of the column.
LEMMA IndexHas ==
  ASSUME NEW t, NEW rows, RowsOK(rows), IndexOK(t, rows), NEW k \in DOMAIN Hash
  PROVE  Has(t, k) <=> \E i \in 1 .. Len(rows) : rows[i] = k
<1>1. \A i \in 1 .. Len(rows) : Find(t, rows[i]) = i /\ i \in Nat
  BY DEF IndexOK, RowsOK
<1>2. ASSUME NEW i \in 1 .. Len(rows), rows[i] = k PROVE Has(t, k)
  BY <1>1, <1>2 DEF Has, kEmpty
<1> QED  BY <1>2 DEF IndexOK

\* A new row is added to the column and to its index.
LEMMA IndexInsert ==
  ASSUME NEW t, NEW rows, RowsOK(rows), IndexOK(t, rows), Len(rows) < MaxRows,
         NEW k \in Trades, ~Has(t, k)
  PROVE  /\ RowsOK(Append(rows, k))
         /\ IndexOK(InsertOrGet(t, k, Len(rows) + 1), Append(rows, k))
<1>1. rows \in Seq(Trades) /\ Len(rows) \in Nat /\ MaxRows \in Nat /\ k \in DOMAIN Hash
  BY ImageAssumption, Hashed DEF RowsOK
<1>2. PICK r, n : r = Append(rows, k) /\ n = Len(rows) + 1
  OBVIOUS
<1>3. /\ r \in Seq(Trades) /\ n \in Nat /\ Len(r) = n /\ r[n] = k
      /\ \A i \in 1 .. Len(rows) : r[i] = rows[i]
      /\ \A i \in 1 .. n : i \in 1 .. Len(rows) \/ i = n
      /\ \A i \in 1 .. Len(rows) : i \in 1 .. n
      /\ n \in 1 .. n
  BY <1>1, <1>2
<1>4. \A i \in 1 .. Len(rows) : rows[i] # k
  BY <1>1, IndexHas
<1>5. RowsOK(r)
  <2>1. ASSUME NEW a \in 1 .. n, NEW b \in 1 .. n, r[a] = r[b] PROVE a = b
    <3>1. CASE a \in 1 .. Len(rows) /\ b \in 1 .. Len(rows)
      BY <1>3, <2>1, <3>1 DEF RowsOK, Injective
    <3>2. CASE a = n /\ b \in 1 .. Len(rows)
      BY <1>3, <1>4, <2>1, <3>2
    <3>3. CASE b = n /\ a \in 1 .. Len(rows)
      BY <1>3, <1>4, <2>1, <3>3
    <3> QED  BY <1>3, <3>1, <3>2, <3>3
  <2>2. n <= MaxRows
    BY <1>1, <1>2
  <2> QED  BY <1>3, <2>1, <2>2 DEF RowsOK, Injective
<1>6. ~Refuses(t, k)
  <2>1. Size(t) = Len(rows)
    BY DEF IndexOK
  <2> QED  BY <1>1, <2>1, RoomForRows, NotRefused
<1>7. PICK u : u = InsertOrGet(t, k, n)
  OBVIOUS
<1>8. /\ TableOK(u) /\ Find(u, k) = n /\ Size(u) = Size(t) + 1
      /\ \A q \in DOMAIN Hash : q # k => Find(u, q) = Find(t, q)
  <2>1. TableOK(t)
    BY DEF IndexOK
  <2> QED  BY <1>1, <1>3, <1>6, <1>7, <2>1, InsertOK
<1>9. Size(u) = n
  BY <1>2, <1>8 DEF IndexOK
<1>10. \A i \in 1 .. n : Find(u, r[i]) = i
  <2>1. \A i \in 1 .. Len(rows) : rows[i] \in DOMAIN Hash
    BY <1>1, Hashed
  <2>2. \A i \in 1 .. Len(rows) : Find(u, rows[i]) = i
    BY <1>4, <1>8, <2>1 DEF IndexOK
  <2> QED  BY <1>3, <1>8, <2>2
<1>11. ASSUME NEW q \in DOMAIN Hash, Has(u, q) PROVE \E i \in 1 .. n : r[i] = q
  <2>1. CASE q = k
    BY <1>3, <2>1
  <2>2. CASE q # k
    <3>1. Has(t, q)
      BY <1>8, <1>11, <2>2 DEF Has
    <3> QED  BY <1>3, <3>1 DEF IndexOK
  <2> QED  BY <2>1, <2>2
<1>12. IndexOK(u, r)
  BY <1>3, <1>8, <1>9, <1>10, <1>11 DEF IndexOK
<1> QED  BY <1>2, <1>5, <1>7, <1>12

\* close_and_compact_trades keeps a column of distinct ids, no longer than before.
LEMMA RowsKept ==
  ASSUME NEW rows, RowsOK(rows), NEW keep \in SUBSET DOMAIN rows
  PROVE  RowsOK(Kept(rows, keep))
<1>1. rows \in Seq(Trades) /\ Len(rows) \in Nat /\ DOMAIN rows = 1 .. Len(rows) /\ MaxRows \in Nat
  BY ImageAssumption DEF RowsOK
<1>2. PICK q : q = Kept(rows, keep)
  OBVIOUS
<1>3. KeptOK(Trades, q, Len(rows), rows, keep)
  BY <1>1, <1>2, KeptHolds
<1>4. q \in Seq(Trades) /\ Len(q) = Cardinality(keep \cap (1 .. Len(rows))) /\ Len(q) \in Nat
  BY <1>3 DEF KeptOK
<1>5. Injective(q, 1 .. Len(q))
  <2>1. Injective(rows, keep)
    BY <1>1 DEF RowsOK, Injective
  <2> QED  BY <1>3, <2>1 DEF KeptOK
<1>6. Len(q) <= Len(rows)
  <2>1. keep \cap (1 .. Len(rows)) \subseteq 1 .. Len(rows)
    OBVIOUS
  <2>2. IsFiniteSet(1 .. Len(rows)) /\ Cardinality(1 .. Len(rows)) = Len(rows)
    <3>1. 1 \in Int /\ Len(rows) \in Int
      BY <1>1
    <3>2. Cardinality(1 .. Len(rows)) = IF 1 > Len(rows) THEN 0 ELSE Len(rows) - 1 + 1
      BY <3>1, FS_Interval
    <3>3. IsFiniteSet(1 .. Len(rows))
      BY <3>1, FS_Interval
    <3> QED  BY <1>1, <3>2, <3>3
  <2>3. Cardinality(keep \cap (1 .. Len(rows))) <= Cardinality(1 .. Len(rows))
    BY <2>1, <2>2, FS_Subset
  <2> QED  BY <1>4, <2>2, <2>3
<1>7. Len(q) <= MaxRows
  BY <1>1, <1>4, <1>6 DEF RowsOK
<1> QED  BY <1>2, <1>4, <1>5, <1>7 DEF RowsOK

-----------------------------------------------------------------------------
(* The generations of the idempotency set. *)

GenOK(t) == TableOK(t) /\ (Size(t) # 0 => (Size(t) - 1) * 10 < TableSlots * 7)

\* The size of a table counts its entries.
LEMMA SizeType ==
  ASSUME NEW t
  PROVE  Size(t) \in Nat
<1>1. IsFiniteSet(SlotIds)
  BY TableAssumption, FS_Interval DEF SlotIds
<1> QED  BY <1>1, FS_Subset, FS_CardinalityType DEF Size

\* for_each yields keys that fit a table of the same size.
LEMMA RecordsFit ==
  ASSUME NEW t, GenOK(t)
  PROVE  /\ Fits(InSlotOrder(t))
         /\ \A k \in DOMAIN Hash :
              Has(t, k) <=> \E j \in 1 .. Len(InSlotOrder(t)) : InSlotOrder(t)[j] = k
<1>1. TableOK(t)
  BY DEF GenOK
<1>2. PICK q : q = InSlotOrder(t)
  OBVIOUS
<1>3. /\ q \in Seq(DOMAIN Hash) /\ Len(q) = Size(t) /\ Injective(q, 1 .. Len(q))
      /\ \A k \in DOMAIN Hash : Has(t, k) <=> \E j \in 1 .. Len(q) : q[j] = k
  BY <1>1, <1>2, InSlotOrderHolds
<1>4. Fits(q)
  BY <1>3 DEF Fits, GenOK
<1> QED  BY <1>2, <1>3, <1>4

\* insert_into rebuilds a generation from its records.
LEMMA OfRecordsOK ==
  ASSUME NEW q, Fits(q)
  PROVE  /\ GenOK(OfRecords(q))
         /\ \A k \in DOMAIN Hash : Has(OfRecords(q), k) <=> \E j \in 1 .. Len(q) : q[j] = k
<1> DEFINE ones == [n \in DOMAIN q |-> 1]
<1>1. \A n \in 1 .. Len(q) : ones[n] = 1 /\ ones[n] \in Nat
  BY DEF Fits
<1>2. PICK t : t = OfRecords(q)
  OBVIOUS
<1>3. FilledOK(t, Len(q), q, ones)
  <2>1. t = Filled(q, ones)
    BY <1>2 DEF OfRecords
  <2> HIDE DEF ones
  <2> QED  BY <1>1, <2>1, FilledHolds
<1> HIDE DEF ones
<1>4. GenOK(t)
  BY <1>3 DEF GenOK, FilledOK, Fits
<1>5. ASSUME NEW k \in DOMAIN Hash
      PROVE  Has(t, k) <=> \E j \in 1 .. Len(q) : q[j] = k
  <2>1. ASSUME NEW j \in 1 .. Len(q), q[j] = k PROVE Has(t, k)
    <3>1. Find(t, k) = 1
      BY <1>1, <1>3, <2>1 DEF FilledOK
    <3> QED  BY <3>1 DEF Has, kEmpty
  <2> QED  BY <1>3, <2>1 DEF FilledOK
<1> QED  BY <1>2, <1>4, <1>5

\* insert of a new key into a generation that takes it.
LEMMA GenInsert ==
  ASSUME NEW t, GenOK(t), NEW k \in DOMAIN Hash, ~Has(t, k), ~Refuses(t, k)
  PROVE  /\ GenOK(InsertOrGet(t, k, 1))
         /\ \A q \in DOMAIN Hash : Has(InsertOrGet(t, k, 1), q) <=> Has(t, q) \/ q = k
<1>1. PICK u : u = InsertOrGet(t, k, 1)
  OBVIOUS
<1>2. /\ TableOK(u) /\ Has(u, k) /\ Size(u) = Size(t) + 1
      /\ \A q \in DOMAIN Hash : q # k => Find(u, q) = Find(t, q)
  BY <1>1, InsertOK DEF GenOK
<1>3. Size(t) * 10 < TableSlots * 7
  BY SizeType, TableAssumption DEF Refuses, Overloaded
<1>4. GenOK(u)
  <2>1. Size(u) - 1 = Size(t)
    BY <1>2, SizeType
  <2> QED  BY <1>2, <1>3, <2>1 DEF GenOK
<1>5. \A q \in DOMAIN Hash : Has(u, q) <=> Has(t, q) \/ q = k
  BY <1>2 DEF Has
<1> QED  BY <1>1, <1>4, <1>5

\* A generation that was cleared is empty.
LEMMA GenEmpty == GenOK(EmptyTable) /\ \A k \in DOMAIN Hash : ~Has(EmptyTable, k)
BY EmptyTableOK DEF GenOK

-----------------------------------------------------------------------------
(* The state, and what an event makes of it. *)

\* Every field of a state.
StateOf(rows, index, amounts, gen, cur, rot, day, lsn, halted) ==
  [rows |-> rows, index |-> index, amounts |-> amounts,
   keys |-> [gen |-> gen, cur |-> cur, rot |-> rot], day |-> day, lsn |-> lsn, halted |-> halted]

IsState(st) ==
  /\ st = StateOf(st.rows, st.index, st.amounts, st.keys.gen, st.keys.cur, st.keys.rot,
                  st.day, st.lsn, st.halted)
  /\ st.halted \in {"no", "fatal"}

\* What Plain keeps of a state.
PlainOf(rows, amounts, day, gen, cur, rot) ==
  [rows |-> rows, amounts |-> amounts, day |-> day, gen |-> gen, cur |-> cur, rot |-> rot]

KeysIn(gen) == [g \in 1 .. 2 |-> {k \in Keys : Has(gen[g], k)}]

StateOK(st) ==
  /\ IsState(st)
  /\ RowsOK(st.rows) /\ IndexOK(st.index, st.rows)
  /\ st.amounts \in [Keys -> Nat]
  /\ st.keys.gen = [g \in 1 .. 2 |-> st.keys.gen[g]]
  /\ \A g \in 1 .. 2 : GenOK(st.keys.gen[g])
  /\ st.keys.cur \in 1 .. 2
  /\ st.day \in Nat /\ st.keys.rot \in Nat /\ st.lsn \in Nat

\* Plain, field by field.
LEMMA PlainIs ==
  ASSUME NEW rows, NEW index, NEW amounts, NEW gen, NEW cur, NEW rot, NEW day, NEW lsn, NEW halted
  PROVE  Plain(StateOf(rows, index, amounts, gen, cur, rot, day, lsn, halted)) =
           PlainOf(rows, amounts, day, KeysIn(gen), cur, rot)
BY DEF Plain, PlainOf, StateOf, KeysIn

\* The empty state is the one the empty log stands for.
LEMMA EmptyStateOK == StateOK(EmptyState) /\ Plain(EmptyState) = PlainInit /\ EmptyState.halted = "no" /\ EmptyState.lsn = 0
<1> DEFINE gen == [g \in 1 .. 2 |-> EmptyTable]
           am == [k \in Keys |-> 0]
<1>1. EmptyState = StateOf(<<>>, EmptyTable, am, gen, 1, 0, 0, 0, "no")
  BY DEF EmptyState, EmptySet, StateOf
<1>2. PICK e : e = EmptyState
  OBVIOUS
<1>3. /\ e.rows = <<>> /\ e.index = EmptyTable /\ e.amounts = am /\ e.keys.gen = gen /\ e.keys.cur = 1
      /\ e.keys.rot = 0 /\ e.day = 0 /\ e.lsn = 0 /\ e.halted = "no"
  BY <1>1, <1>2 DEF StateOf
<1>4. IsState(e)
  BY <1>1, <1>2, <1>3 DEF IsState
<1>5. RowsOK(<<>>) /\ IndexOK(EmptyTable, <<>>)
  BY ImageAssumption, EmptyTableOK DEF RowsOK, IndexOK, Injective
<1>6. \A g \in 1 .. 2 : gen[g] = EmptyTable /\ GenOK(gen[g])
  BY GenEmpty
<1>7. StateOK(e)
  BY <1>3, <1>4, <1>5, <1>6 DEF StateOK
<1>8. KeysIn(gen) = [g \in 1 .. 2 |-> {}]
  <2>1. ASSUME NEW g \in 1 .. 2 PROVE {k \in Keys : Has(gen[g], k)} = {}
    BY <1>6, GenEmpty, Hashed
  <2> QED  BY <2>1 DEF KeysIn
<1>9. Plain(e) = PlainInit
  <2>1. Plain(e) = PlainOf(<<>>, am, 0, KeysIn(gen), 1, 0)
    <3> HIDE DEF am, gen
    <3>1. e = StateOf(<<>>, EmptyTable, am, gen, 1, 0, 0, 0, "no")
      BY <1>1, <1>2
    <3> QED  BY <3>1 DEF Plain, PlainOf, StateOf, KeysIn
  <2> QED  BY <1>8, <2>1 DEF PlainInit, PlainOf
<1> QED  BY <1>2, <1>3, <1>7, <1>9

WithKey(keys, cur, k) == [keys EXCEPT ![cur] = @ \cup {k}]
Bumped(amounts, k) == [amounts EXCEPT ![k] = @ + 1]
NoKeys(keys, g) == [keys EXCEPT ![g] = {}]
Cleared(gen, g) == [gen EXCEPT ![g] = EmptyTable]
Turns(day, rot) == rot # 0 /\ day + 1 - rot >= Window
Inserted(gen, cur, k) == [gen EXCEPT ![cur] = InsertOrGet(@, k, 1)]

\* A trade, on the state without tables.
LEMMA PlainBook ==
  ASSUME NEW rows, NEW amounts, NEW day, NEW gen, NEW cur, NEW rot, NEW ev, ev.type = "trade"
  PROVE  PlainStep(PlainOf(rows, amounts, day, gen, cur, rot), ev) =
           PlainOf(IF \E i \in DOMAIN rows : rows[i] = ev.id THEN rows ELSE Append(rows, ev.id),
                   amounts, day, gen, cur, rot)
BY DEF PlainStep, PlainOf

\* A corporate action, on the state without tables.
LEMMA PlainAct ==
  ASSUME NEW rows, NEW amounts, NEW day, NEW gen, NEW cur, NEW rot, NEW ev, ev.type = "action"
  PROVE  PlainStep(PlainOf(rows, amounts, day, gen, cur, rot), ev) =
           IF ev.id \in gen[1] \cup gen[2] THEN PlainOf(rows, amounts, day, gen, cur, rot)
           ELSE PlainOf(rows, Bumped(amounts, ev.id), day, WithKey(gen, cur, ev.id), cur, rot)
<1>1. PICK r : r = PlainOf(rows, amounts, day, gen, cur, rot)
  OBVIOUS
<1>2. r.gen = gen /\ r.cur = cur /\ r.amounts = amounts
  BY <1>1 DEF PlainOf
<1>3. PlainStep(r, ev) =
        IF ev.id \in gen[1] \cup gen[2] THEN r
        ELSE [r EXCEPT !.gen[cur] = @ \cup {ev.id}, !.amounts[ev.id] = @ + 1]
  BY <1>2 DEF PlainStep
<1>4. [r EXCEPT !.gen[cur] = @ \cup {ev.id}, !.amounts[ev.id] = @ + 1] =
        PlainOf(rows, [amounts EXCEPT ![ev.id] = @ + 1], day,
                [gen EXCEPT ![cur] = @ \cup {ev.id}], cur, rot)
  <2>1. PICK x, y : x = gen[cur] \cup {ev.id} /\ y = amounts[ev.id] + 1
    OBVIOUS
  <2>2. PICK g, m : g = [gen EXCEPT ![cur] = x] /\ m = [amounts EXCEPT ![ev.id] = y]
    OBVIOUS
  <2>3. PICK z : z = [r EXCEPT !.gen[cur] = x]
    OBVIOUS
  <2>4. z = PlainOf(rows, amounts, day, g, cur, rot)
    BY <1>1, <2>2, <2>3 DEF PlainOf
  <2>5. [z EXCEPT !.amounts[ev.id] = y] = PlainOf(rows, m, day, g, cur, rot)
    BY <2>2, <2>4 DEF PlainOf
  <2>6. [r EXCEPT !.gen[cur] = x, !.amounts[ev.id] = y] = [z EXCEPT !.amounts[ev.id] = y]
    BY <2>3
  <2> QED  BY <1>2, <2>1, <2>2, <2>5, <2>6
<1> QED  BY <1>1, <1>3, <1>4 DEF Bumped, WithKey

\* The opening of a day, on the state without tables.
LEMMA PlainOpen ==
  ASSUME NEW rows, NEW amounts, NEW day, NEW gen, NEW cur, NEW rot, NEW ev, ev.type = "day"
  PROVE  PlainStep(PlainOf(rows, amounts, day, gen, cur, rot), ev) =
           PlainOf(Kept(rows, {i \in DOMAIN rows : rows[i] \notin ev.closed}), amounts, day + 1,
             IF Turns(day, rot) THEN NoKeys(gen, 3 - cur) ELSE gen,
             IF Turns(day, rot) THEN 3 - cur ELSE cur,
             IF Turns(day, rot) \/ rot = 0 THEN day + 1 ELSE rot)
BY DEF PlainStep, PlainOf, Turns, NoKeys

NewRows(st, a, b) == [st EXCEPT !.rows = a, !.index = b]
Marked(st, a, b) == [st EXCEPT !.halted = a, !.lsn = b]

\* How a state takes a new column and its index.
LEMMA WithRows ==
  ASSUME NEW rows, NEW index, NEW amounts, NEW gen, NEW cur, NEW rot, NEW day, NEW lsn, NEW halted,
         NEW st, st = StateOf(rows, index, amounts, gen, cur, rot, day, lsn, halted), NEW a, NEW b
  PROVE  NewRows(st, a, b) = StateOf(a, b, amounts, gen, cur, rot, day, lsn, halted)
<1>1. PICK k : k = [gen |-> gen, cur |-> cur, rot |-> rot]
  OBVIOUS
<1>2. st = [rows |-> rows, index |-> index, amounts |-> amounts, keys |-> k, day |-> day,
            lsn |-> lsn, halted |-> halted]
  BY <1>1 DEF StateOf
<1>3. PICK z : z = [st EXCEPT !.rows = a]
  OBVIOUS
<1>4. z = [rows |-> a, index |-> index, amounts |-> amounts, keys |-> k, day |-> day,
            lsn |-> lsn, halted |-> halted]
  BY <1>2, <1>3
<1>5. [z EXCEPT !.index = b] = [rows |-> a, index |-> b, amounts |-> amounts, keys |-> k, day |-> day,
            lsn |-> lsn, halted |-> halted]
  BY <1>4
<1>6. [st EXCEPT !.rows = a, !.index = b] = [z EXCEPT !.index = b]
  BY <1>3
<1> QED  BY <1>1, <1>5, <1>6 DEF StateOf, NewRows

\* How a state takes the mark of a fatal event.
LEMMA WithHalted ==
  ASSUME NEW rows, NEW index, NEW amounts, NEW gen, NEW cur, NEW rot, NEW day, NEW lsn, NEW halted,
         NEW st, st = StateOf(rows, index, amounts, gen, cur, rot, day, lsn, halted), NEW a, NEW b
  PROVE  Marked(st, a, b) = StateOf(rows, index, amounts, gen, cur, rot, day, b, a)
<1>1. PICK k : k = [gen |-> gen, cur |-> cur, rot |-> rot]
  OBVIOUS
<1>2. st = [rows |-> rows, index |-> index, amounts |-> amounts, keys |-> k, day |-> day,
            lsn |-> lsn, halted |-> halted]
  BY <1>1 DEF StateOf
<1>3. PICK z : z = [st EXCEPT !.halted = a]
  OBVIOUS
<1>4. z = [rows |-> rows, index |-> index, amounts |-> amounts, keys |-> k, day |-> day,
            lsn |-> lsn, halted |-> a]
  BY <1>2, <1>3
<1>5. [z EXCEPT !.lsn = b] = [rows |-> rows, index |-> index, amounts |-> amounts, keys |-> k, day |-> day,
            lsn |-> b, halted |-> a]
  BY <1>4
<1>6. [st EXCEPT !.halted = a, !.lsn = b] = [z EXCEPT !.lsn = b]
  BY <1>3
<1> QED  BY <1>1, <1>5, <1>6 DEF StateOf, Marked

\* The fatal handlers mark the state and leave the rest.
LEMMA WithMark ==
  ASSUME NEW rows, NEW index, NEW amounts, NEW gen, NEW cur, NEW rot, NEW day, NEW lsn, NEW halted,
         NEW st, st = StateOf(rows, index, amounts, gen, cur, rot, day, lsn, halted), NEW a
  PROVE  [st EXCEPT !.halted = a] = StateOf(rows, index, amounts, gen, cur, rot, day, lsn, a)
BY DEF StateOf

\* How a state takes an LSN.
LEMMA WithLsn ==
  ASSUME NEW rows, NEW index, NEW amounts, NEW gen, NEW cur, NEW rot, NEW day, NEW lsn, NEW halted,
         NEW st, st = StateOf(rows, index, amounts, gen, cur, rot, day, lsn, halted), NEW a
  PROVE  [st EXCEPT !.lsn = a] = StateOf(rows, index, amounts, gen, cur, rot, day, a, halted)
BY DEF StateOf

\* The fields of a state.
LEMMA StateFields ==
  ASSUME NEW rows, NEW index, NEW amounts, NEW gen, NEW cur, NEW rot, NEW day, NEW lsn, NEW halted,
         NEW st, st = StateOf(rows, index, amounts, gen, cur, rot, day, lsn, halted)
  PROVE  /\ st.rows = rows /\ st.index = index /\ st.amounts = amounts /\ st.keys.gen = gen
         /\ st.keys.cur = cur /\ st.keys.rot = rot /\ st.day = day /\ st.lsn = lsn /\ st.halted = halted
         /\ st.keys = [gen |-> gen, cur |-> cur, rot |-> rot]
BY DEF StateOf

\* A state made of good fields is good.
LEMMA StateMade ==
  ASSUME NEW rows, NEW index, NEW amounts, NEW gen, NEW cur, NEW rot, NEW day, NEW lsn, NEW halted,
         RowsOK(rows), IndexOK(index, rows), amounts \in [Keys -> Nat],
         gen = [g \in 1 .. 2 |-> gen[g]], \A g \in 1 .. 2 : GenOK(gen[g]), cur \in 1 .. 2,
         day \in Nat, rot \in Nat, lsn \in Nat, halted \in {"no", "fatal"}
  PROVE  StateOK(StateOf(rows, index, amounts, gen, cur, rot, day, lsn, halted))
<1>1. PICK st : st = StateOf(rows, index, amounts, gen, cur, rot, day, lsn, halted)
  OBVIOUS
<1>2. /\ st.rows = rows /\ st.index = index /\ st.amounts = amounts /\ st.keys.gen = gen
      /\ st.keys.cur = cur /\ st.keys.rot = rot /\ st.day = day /\ st.lsn = lsn /\ st.halted = halted
  BY <1>1 DEF StateOf
<1>3. IsState(st)
  BY <1>1, <1>2 DEF IsState
<1>4. StateOK(st)
  BY <1>2, <1>3 DEF StateOK
<1> QED  BY <1>1, <1>4

\* TradeExecuted: a known trade changes nothing, a new one takes the next row.
LEMMA BookedOK ==
  ASSUME NEW st, StateOK(st), st.halted = "no", NEW k \in Trades, NEW ev, ev.type = "trade", ev.id = k,
         Booked(st, k).halted = "no"
  PROVE  StateOK(Booked(st, k)) /\ Plain(Booked(st, k)) = PlainStep(Plain(st), ev)
<1>1. PICK rows, index, amounts, gen, cur, rot, day, lsn :
        /\ rows = st.rows /\ index = st.index /\ amounts = st.amounts /\ gen = st.keys.gen
        /\ cur = st.keys.cur /\ rot = st.keys.rot /\ day = st.day /\ lsn = st.lsn
  OBVIOUS
<1>2. st = StateOf(rows, index, amounts, gen, cur, rot, day, lsn, "no")
  BY <1>1 DEF StateOK, IsState
<1>3. /\ RowsOK(rows) /\ IndexOK(index, rows) /\ amounts \in [Keys -> Nat]
      /\ gen = [g \in 1 .. 2 |-> gen[g]] /\ (\A g \in 1 .. 2 : GenOK(gen[g]))
      /\ cur \in 1 .. 2 /\ day \in Nat /\ rot \in Nat /\ lsn \in Nat
  BY <1>1 DEF StateOK
<1>4. rows \in Seq(Trades) /\ Len(rows) \in Nat /\ MaxRows \in Nat /\ DOMAIN rows = 1 .. Len(rows)
  BY <1>3, ImageAssumption DEF RowsOK
<1>5. PlainStep(Plain(st), ev) =
        PlainOf(IF \E i \in DOMAIN rows : rows[i] = k THEN rows ELSE Append(rows, k),
                amounts, day, KeysIn(gen), cur, rot)
  <2>1. Plain(st) = PlainOf(rows, amounts, day, KeysIn(gen), cur, rot)
    BY <1>2 DEF Plain, PlainOf, StateOf, KeysIn
  <2> QED  BY <2>1, PlainBook
<1>6. Has(index, k) <=> \E i \in DOMAIN rows : rows[i] = k
  BY <1>3, <1>4, Hashed, IndexHas
<1>7. Len(rows) < MaxRows
  <2>1. SUFFICES ASSUME Len(rows) >= MaxRows PROVE FALSE
    BY <1>4
  <2>2. Booked(st, k) = [st EXCEPT !.halted = "fatal"]
    BY <1>1, <1>4, <2>1 DEF Booked
  <2>3. [st EXCEPT !.halted = "fatal"] = StateOf(rows, index, amounts, gen, cur, rot, day, lsn, "fatal")
    BY <1>2, WithMark
  <2> QED  BY <2>2, <2>3, StateFields
<1>8. CASE Has(index, k)
  <2>1. Booked(st, k) = st
    BY <1>1, <1>4, <1>7, <1>8 DEF Booked
  <2>2. Plain(st) = PlainOf(rows, amounts, day, KeysIn(gen), cur, rot)
    BY <1>2 DEF Plain, PlainOf, StateOf, KeysIn
  <2> QED  BY <1>5, <1>6, <1>8, <2>1, <2>2
<1>9. CASE ~Has(index, k)
  <2>1. PICK r, u : r = Append(rows, k) /\ u = InsertOrGet(index, k, Len(rows) + 1)
    OBVIOUS
  <2>2. Booked(st, k) = NewRows(st, r, u)
    BY <1>1, <1>4, <1>7, <1>9, <2>1 DEF Booked, NewRows
  <2>3. NewRows(st, r, u) = StateOf(r, u, amounts, gen, cur, rot, day, lsn, "no")
    BY <1>2, WithRows
  <2>4. RowsOK(r) /\ IndexOK(u, r)
    BY <1>3, <1>7, <1>9, <2>1, IndexInsert
  <2>5. StateOK(StateOf(r, u, amounts, gen, cur, rot, day, lsn, "no"))
    BY <1>3, <2>4, StateMade
  <2>6. Plain(StateOf(r, u, amounts, gen, cur, rot, day, lsn, "no")) =
          PlainOf(r, amounts, day, KeysIn(gen), cur, rot)
    BY PlainIs
  <2> QED  BY <1>5, <1>6, <1>9, <2>1, <2>2, <2>3, <2>5, <2>6
<1> QED  BY <1>8, <1>9

NewKeys(st, a, b) == [st EXCEPT !.keys = a, !.amounts = b]
NewDay(st, a, b) == [st EXCEPT !.keys = a, !.day = b]

\* How a state takes a new set of keys and new amounts.
LEMMA WithKeys ==
  ASSUME NEW rows, NEW index, NEW amounts, NEW gen, NEW cur, NEW rot, NEW day, NEW lsn, NEW halted,
         NEW st, st = StateOf(rows, index, amounts, gen, cur, rot, day, lsn, halted),
         NEW g, NEW c, NEW r, NEW b
  PROVE  NewKeys(st, [gen |-> g, cur |-> c, rot |-> r], b) =
           StateOf(rows, index, b, g, c, r, day, lsn, halted)
<1>1. PICK k, a : k = [gen |-> gen, cur |-> cur, rot |-> rot] /\ a = [gen |-> g, cur |-> c, rot |-> r]
  OBVIOUS
<1>2. st = [rows |-> rows, index |-> index, amounts |-> amounts, keys |-> k, day |-> day,
            lsn |-> lsn, halted |-> halted]
  BY <1>1 DEF StateOf
<1>3. PICK z : z = [st EXCEPT !.keys = a]
  OBVIOUS
<1>4. z = [rows |-> rows, index |-> index, amounts |-> amounts, keys |-> a, day |-> day,
           lsn |-> lsn, halted |-> halted]
  BY <1>2, <1>3
<1>5. [z EXCEPT !.amounts = b] =
        [rows |-> rows, index |-> index, amounts |-> b, keys |-> a, day |-> day,
         lsn |-> lsn, halted |-> halted]
  BY <1>4
<1>6. NewKeys(st, a, b) = [z EXCEPT !.amounts = b]
  BY <1>3 DEF NewKeys
<1> QED  BY <1>1, <1>5, <1>6 DEF StateOf

\* How a state takes a new set of keys and a new day.
LEMMA WithDay ==
  ASSUME NEW rows, NEW index, NEW amounts, NEW gen, NEW cur, NEW rot, NEW day, NEW lsn, NEW halted,
         NEW st, st = StateOf(rows, index, amounts, gen, cur, rot, day, lsn, halted),
         NEW g, NEW c, NEW r, NEW b
  PROVE  NewDay(st, [gen |-> g, cur |-> c, rot |-> r], b) =
           StateOf(rows, index, amounts, g, c, r, b, lsn, halted)
<1>1. PICK k, a : k = [gen |-> gen, cur |-> cur, rot |-> rot] /\ a = [gen |-> g, cur |-> c, rot |-> r]
  OBVIOUS
<1>2. st = [rows |-> rows, index |-> index, amounts |-> amounts, keys |-> k, day |-> day,
            lsn |-> lsn, halted |-> halted]
  BY <1>1 DEF StateOf
<1>3. PICK z : z = [st EXCEPT !.keys = a]
  OBVIOUS
<1>4. z = [rows |-> rows, index |-> index, amounts |-> amounts, keys |-> a, day |-> day,
           lsn |-> lsn, halted |-> halted]
  BY <1>2, <1>3
<1>5. [z EXCEPT !.day = b] =
        [rows |-> rows, index |-> index, amounts |-> amounts, keys |-> a, day |-> b,
         lsn |-> lsn, halted |-> halted]
  BY <1>4
<1>6. NewDay(st, a, b) = [z EXCEPT !.day = b]
  BY <1>3 DEF NewDay
<1> QED  BY <1>1, <1>5, <1>6 DEF StateOf

\* insert of a TwoGenSet, field by field.
LEMMA SetInsertIs ==
  ASSUME NEW gen, NEW cur, NEW rot, NEW k
  PROVE  SetInsert([gen |-> gen, cur |-> cur, rot |-> rot], k) =
           [gen |-> Inserted(gen, cur, k), cur |-> cur, rot |-> rot]
BY DEF SetInsert, Inserted

\* A new key of the generation in use, on the state without tables.
LEMMA KeysInserted ==
  ASSUME NEW gen, gen = [g \in 1 .. 2 |-> gen[g]], \A g \in 1 .. 2 : GenOK(gen[g]), NEW cur \in 1 .. 2,
         NEW k \in Keys, ~Has(gen[cur], k), ~Refuses(gen[cur], k),
         NEW new, new = Inserted(gen, cur, k)
  PROVE  /\ new = [g \in 1 .. 2 |-> new[g]]
         /\ \A g \in 1 .. 2 : GenOK(new[g])
         /\ KeysIn(new) = WithKey(KeysIn(gen), cur, k)
<1>1. PICK u : u = InsertOrGet(gen[cur], k, 1)
  OBVIOUS
<1>2. new = [g \in 1 .. 2 |-> IF g = cur THEN u ELSE gen[g]]
  BY <1>1 DEF Inserted
<1>3. GenOK(u) /\ \A q \in DOMAIN Hash : Has(u, q) <=> Has(gen[cur], q) \/ q = k
  BY <1>1, Hashed, GenInsert
<1>4. {q \in Keys : Has(u, q)} = {q \in Keys : Has(gen[cur], q)} \cup {k}
  BY <1>3, Hashed
<1>5. new = [g \in 1 .. 2 |-> new[g]] /\ new[cur] = u /\ \A g \in 1 .. 2 : g # cur => new[g] = gen[g]
  BY <1>2
<1>6. \A g \in 1 .. 2 : GenOK(new[g])
  BY <1>3, <1>5
<1>7. KeysIn(new) = WithKey(KeysIn(gen), cur, k)
  <2>1. ASSUME NEW g \in 1 .. 2
        PROVE  KeysIn(new)[g] = IF g = cur THEN KeysIn(gen)[cur] \cup {k} ELSE KeysIn(gen)[g]
    BY <1>4, <1>5 DEF KeysIn
  <2>2. KeysIn(new) = [g \in 1 .. 2 |-> KeysIn(new)[g]] /\ KeysIn(gen) = [g \in 1 .. 2 |-> KeysIn(gen)[g]]
    BY DEF KeysIn
  <2>3. PICK a, b : a = KeysIn(new) /\ b = KeysIn(gen)
    OBVIOUS
  <2>4. /\ a = [g \in 1 .. 2 |-> a[g]] /\ b = [g \in 1 .. 2 |-> b[g]]
        /\ \A g \in 1 .. 2 : a[g] = IF g = cur THEN b[cur] \cup {k} ELSE b[g]
    BY <2>1, <2>2, <2>3
  <2>5. a = [b EXCEPT ![cur] = @ \cup {k}]
    BY <2>4
  <2> QED  BY <2>3, <2>5 DEF WithKey
<1> QED  BY <1>5, <1>6, <1>7

\* CorporateActionApplied: a key that either generation has changes nothing, a new
\* one is applied once and remembered.
LEMMA ActedOK ==
  ASSUME NEW st, StateOK(st), st.halted = "no", NEW k \in Keys, NEW ev, ev.type = "action", ev.id = k,
         Acted(st, k).halted = "no"
  PROVE  StateOK(Acted(st, k)) /\ Plain(Acted(st, k)) = PlainStep(Plain(st), ev)
<1>1. PICK rows, index, amounts, gen, cur, rot, day, lsn :
        /\ rows = st.rows /\ index = st.index /\ amounts = st.amounts /\ gen = st.keys.gen
        /\ cur = st.keys.cur /\ rot = st.keys.rot /\ day = st.day /\ lsn = st.lsn
  OBVIOUS
<1>2. st = StateOf(rows, index, amounts, gen, cur, rot, day, lsn, "no")
  BY <1>1 DEF StateOK, IsState
<1>3. /\ RowsOK(rows) /\ IndexOK(index, rows) /\ amounts \in [Keys -> Nat]
      /\ gen = [g \in 1 .. 2 |-> gen[g]] /\ (\A g \in 1 .. 2 : GenOK(gen[g]))
      /\ cur \in 1 .. 2 /\ day \in Nat /\ rot \in Nat /\ lsn \in Nat
  BY <1>1 DEF StateOK
<1>4. Plain(st) = PlainOf(rows, amounts, day, KeysIn(gen), cur, rot)
  BY <1>2 DEF Plain, PlainOf, StateOf, KeysIn
<1>5. PlainStep(Plain(st), ev) =
        IF k \in KeysIn(gen)[1] \cup KeysIn(gen)[2] THEN Plain(st)
        ELSE PlainOf(rows, Bumped(amounts, k), day, WithKey(KeysIn(gen), cur, k), cur, rot)
  BY <1>4, PlainAct
<1>6. k \in KeysIn(gen)[1] \cup KeysIn(gen)[2] <=> Has(gen[1], k) \/ Has(gen[2], k)
  BY DEF KeysIn
<1>7. st.keys = [gen |-> gen, cur |-> cur, rot |-> rot]
  BY <1>2, StateFields
<1>8. SetHas(st.keys, k) <=> Has(gen[1], k) \/ Has(gen[2], k)
  BY <1>1 DEF SetHas
<1>9. CASE SetHas(st.keys, k)
  <2>1. Acted(st, k) = st
    BY <1>9 DEF Acted
  <2> QED  BY <1>5, <1>6, <1>8, <1>9, <2>1
<1>10. CASE ~SetHas(st.keys, k)
  <2>1. ~Refuses(gen[cur], k)
    <3>1. SUFFICES ASSUME Refuses(gen[cur], k) PROVE FALSE
      OBVIOUS
    <3>2. Acted(st, k) = [st EXCEPT !.halted = "fatal"]
      BY <1>1, <1>10, <3>1 DEF Acted
    <3>3. [st EXCEPT !.halted = "fatal"] = StateOf(rows, index, amounts, gen, cur, rot, day, lsn, "fatal")
      BY <1>2, WithMark
    <3> QED  BY <3>2, <3>3, StateFields
  <2>2. PICK new, am : new = Inserted(gen, cur, k) /\ am = Bumped(amounts, k)
    OBVIOUS
  <2>3. SetInsert(st.keys, k) = [gen |-> new, cur |-> cur, rot |-> rot]
    BY <1>7, <2>2, SetInsertIs
  <2>4. Acted(st, k) = NewKeys(st, [gen |-> new, cur |-> cur, rot |-> rot], am)
    <3>1. Acted(st, k) = [st EXCEPT !.keys = SetInsert(@, k), !.amounts[k] = @ + 1]
      BY <1>1, <1>10, <2>1 DEF Acted
    <3>2. PICK x, y : x = SetInsert(st.keys, k) /\ y = amounts[k] + 1
      OBVIOUS
    <3>3. Acted(st, k) = [st EXCEPT !.keys = x, !.amounts[k] = y]
      BY <1>1, <3>1, <3>2
    <3>4. PICK z : z = [st EXCEPT !.keys = x]
      OBVIOUS
    <3>5. z.amounts = amounts
      BY <1>2, <3>4 DEF StateOf
    <3>6. [st EXCEPT !.keys = x, !.amounts[k] = y] = [z EXCEPT !.amounts[k] = y]
      BY <3>4
    <3>7. [z EXCEPT !.amounts[k] = y] = [z EXCEPT !.amounts = am]
      BY <2>2, <3>2, <3>5 DEF Bumped
    <3>8. [z EXCEPT !.amounts = am] = NewKeys(st, x, am)
      BY <3>4 DEF NewKeys
    <3> QED  BY <2>3, <3>2, <3>3, <3>6, <3>7, <3>8
  <2>5. Acted(st, k) = StateOf(rows, index, am, new, cur, rot, day, lsn, "no")
    BY <1>2, <2>4, WithKeys
  <2>6. am \in [Keys -> Nat]
    BY <1>3, <2>2 DEF Bumped
  <2>7. ~Has(gen[cur], k)
    BY <1>3, <1>8, <1>10
  <2>8. /\ new = [g \in 1 .. 2 |-> new[g]]
        /\ \A g \in 1 .. 2 : GenOK(new[g])
        /\ KeysIn(new) = WithKey(KeysIn(gen), cur, k)
    BY <1>3, <2>1, <2>2, <2>7, KeysInserted
  <2>9. StateOK(Acted(st, k))
    BY <1>3, <2>5, <2>6, <2>8, StateMade
  <2>10. Plain(Acted(st, k)) = PlainOf(rows, am, day, KeysIn(new), cur, rot)
    <3>1. PICK u : u = StateOf(rows, index, am, new, cur, rot, day, lsn, "no")
      OBVIOUS
    <3>2. Plain(u) = PlainOf(rows, am, day, KeysIn(new), cur, rot)
      BY <3>1 DEF Plain, PlainOf, StateOf, KeysIn
    <3> QED  BY <2>5, <3>1, <3>2
  <2>11. ~(k \in KeysIn(gen)[1] \cup KeysIn(gen)[2])
    BY <1>6, <1>8, <1>10
  <2>12. PlainStep(Plain(st), ev) = PlainOf(rows, am, day, KeysIn(new), cur, rot)
    <3>1. PICK kn, bm : kn = WithKey(KeysIn(gen), cur, k) /\ bm = Bumped(amounts, k)
      OBVIOUS
    <3>2. PlainStep(Plain(st), ev) = PlainOf(rows, bm, day, kn, cur, rot)
      BY <1>5, <2>11, <3>1, Zenon
    <3> QED  BY <2>2, <2>8, <3>1, <3>2
  <2> QED  BY <2>9, <2>10, <2>12
<1> QED  BY <1>9, <1>10

\* close_and_compact_trades keeps the index in step with the column.
LEMMA CompactedIs ==
  ASSUME NEW rows, NEW index, NEW amounts, NEW gen, NEW cur, NEW rot, NEW day, NEW lsn, NEW halted,
         NEW st, st = StateOf(rows, index, amounts, gen, cur, rot, day, lsn, halted),
         RowsOK(rows), IndexOK(index, rows), NEW closed
  PROVE  \E u : /\ IndexOK(u, Kept(rows, {i \in DOMAIN rows : rows[i] \notin closed}))
                /\ RowsOK(Kept(rows, {i \in DOMAIN rows : rows[i] \notin closed}))
                /\ Compacted(st, closed) =
                     StateOf(Kept(rows, {i \in DOMAIN rows : rows[i] \notin closed}), u,
                             amounts, gen, cur, rot, day, lsn, halted)
<1>1. PICK open : open = {i \in DOMAIN rows : rows[i] \notin closed}
  OBVIOUS
<1>2. PICK kept : kept = Kept(rows, open)
  OBVIOUS
<1>3. open \in SUBSET DOMAIN rows
  BY <1>1
<1>4. RowsOK(kept)
  BY <1>2, <1>3, RowsKept
<1>5. st.rows = rows
  BY DEF StateOf
<1>6. CASE open = DOMAIN rows
  <2>1. Compacted(st, closed) = st
    BY <1>1, <1>5, <1>6 DEF Compacted
  <2>2. kept = rows
    BY <1>2, <1>6, KeptAll DEF RowsOK
  <2> QED  BY <1>1, <1>2, <2>1, <2>2
<1>7. CASE open # DOMAIN rows
  <2>1. Compacted(st, closed) = NewRows(st, kept, Indexed(kept))
    BY <1>1, <1>2, <1>5, <1>7 DEF Compacted, NewRows
  <2>2. NewRows(st, kept, Indexed(kept)) =
          StateOf(kept, Indexed(kept), amounts, gen, cur, rot, day, lsn, halted)
    BY WithRows
  <2>3. IndexOK(Indexed(kept), kept)
    BY <1>4, IndexedOK
  <2> QED  BY <1>1, <1>2, <1>4, <2>1, <2>2, <2>3
<1> QED  BY <1>6, <1>7

\* maybe_rotate, field by field.
LEMMA RotatedIs ==
  ASSUME NEW gen, NEW cur, NEW rot \in Nat, NEW day \in Nat
  PROVE  Rotated([gen |-> gen, cur |-> cur, rot |-> rot], day + 1, Window) =
           [gen |-> IF Turns(day, rot) THEN Cleared(gen, 3 - cur) ELSE gen,
            cur |-> IF Turns(day, rot) THEN 3 - cur ELSE cur,
            rot |-> IF Turns(day, rot) \/ rot = 0 THEN day + 1 ELSE rot]
<1>1. Window \in Nat
  BY ImageAssumption
<1>2. PICK u : u = [gen |-> gen, cur |-> cur, rot |-> rot]
  OBVIOUS
<1>3. u.gen = gen /\ u.cur = cur /\ u.rot = rot
  BY <1>2
<1>4. CASE rot = 0
  <2>1. Rotated(u, day + 1, Window) = [u EXCEPT !.rot = day + 1]
    BY <1>3, <1>4 DEF Rotated
  <2>2. ~Turns(day, rot)
    BY <1>4 DEF Turns
  <2>3. [u EXCEPT !.rot = day + 1] = [gen |-> gen, cur |-> cur, rot |-> day + 1]
    BY <1>2
  <2> QED  BY <1>2, <1>4, <2>1, <2>2, <2>3
<1>5. CASE rot # 0 /\ day + 1 - rot < Window
  <2>1. Rotated(u, day + 1, Window) = u
    BY <1>3, <1>5 DEF Rotated
  <2>2. ~Turns(day, rot)
    BY <1>1, <1>5 DEF Turns
  <2> QED  BY <1>2, <1>5, <2>1, <2>2
<1>6. CASE rot # 0 /\ ~(day + 1 - rot < Window)
  <2>1. Rotated(u, day + 1, Window) = [gen |-> Cleared(gen, 3 - cur), cur |-> 3 - cur, rot |-> day + 1]
    BY <1>3, <1>6 DEF Rotated, Cleared
  <2>2. Turns(day, rot)
    BY <1>1, <1>6 DEF Turns
  <2> QED  BY <1>2, <2>1, <2>2
<1> QED  BY <1>4, <1>5, <1>6

\* A generation that is cleared has no keys, and the other keeps its own.
LEMMA KeysCleared ==
  ASSUME NEW gen, gen = [g \in 1 .. 2 |-> gen[g]], \A g \in 1 .. 2 : GenOK(gen[g]), NEW h \in 1 .. 2,
         NEW new, new = Cleared(gen, h)
  PROVE  /\ new = [g \in 1 .. 2 |-> new[g]]
         /\ \A g \in 1 .. 2 : GenOK(new[g])
         /\ KeysIn(new) = NoKeys(KeysIn(gen), h)
<1>1. new = [g \in 1 .. 2 |-> IF g = h THEN EmptyTable ELSE gen[g]]
  BY DEF Cleared
<1>2. {q \in Keys : Has(EmptyTable, q)} = {}
  BY GenEmpty, Hashed
<1>3. /\ new = [g \in 1 .. 2 |-> new[g]] /\ new[h] = EmptyTable
      /\ \A g \in 1 .. 2 : g # h => new[g] = gen[g]
  BY <1>1
<1>4. \A g \in 1 .. 2 : GenOK(new[g])
  BY <1>3, GenEmpty
<1>5. KeysIn(new) = NoKeys(KeysIn(gen), h)
  <2>1. ASSUME NEW g \in 1 .. 2
        PROVE  KeysIn(new)[g] = IF g = h THEN {} ELSE KeysIn(gen)[g]
    BY <1>2, <1>3 DEF KeysIn
  <2>2. KeysIn(new) = [g \in 1 .. 2 |-> KeysIn(new)[g]] /\ KeysIn(gen) = [g \in 1 .. 2 |-> KeysIn(gen)[g]]
    BY DEF KeysIn
  <2>3. PICK a, b : a = KeysIn(new) /\ b = KeysIn(gen)
    OBVIOUS
  <2>4. /\ a = [g \in 1 .. 2 |-> a[g]] /\ b = [g \in 1 .. 2 |-> b[g]]
        /\ \A g \in 1 .. 2 : a[g] = IF g = h THEN {} ELSE b[g]
    BY <2>1, <2>2, <2>3
  <2>5. a = [b EXCEPT ![h] = {}]
    BY <2>4
  <2> QED  BY <2>3, <2>5 DEF NoKeys
<1> QED  BY <1>3, <1>4, <1>5

\* DayOpened: trades are closed, the index follows, and the set may turn.
LEMMA OpenedOK ==
  ASSUME NEW st, StateOK(st), st.halted = "no", NEW ev, ev.type = "day"
  PROVE  /\ StateOK(Opened(st, ev.closed))
         /\ Plain(Opened(st, ev.closed)) = PlainStep(Plain(st), ev)
         /\ Opened(st, ev.closed).halted = "no"
<1>1. PICK rows, index, amounts, gen, cur, rot, day, lsn :
        /\ rows = st.rows /\ index = st.index /\ amounts = st.amounts /\ gen = st.keys.gen
        /\ cur = st.keys.cur /\ rot = st.keys.rot /\ day = st.day /\ lsn = st.lsn
  OBVIOUS
<1>2. st = StateOf(rows, index, amounts, gen, cur, rot, day, lsn, "no")
  BY <1>1 DEF StateOK, IsState
<1>3. /\ RowsOK(rows) /\ IndexOK(index, rows) /\ amounts \in [Keys -> Nat]
      /\ gen = [g \in 1 .. 2 |-> gen[g]] /\ (\A g \in 1 .. 2 : GenOK(gen[g]))
      /\ cur \in 1 .. 2 /\ day \in Nat /\ rot \in Nat /\ lsn \in Nat
  BY <1>1 DEF StateOK
<1>4. Plain(st) = PlainOf(rows, amounts, day, KeysIn(gen), cur, rot)
  BY <1>2 DEF Plain, PlainOf, StateOf, KeysIn
<1>5. PICK kept : kept = Kept(rows, {i \in DOMAIN rows : rows[i] \notin ev.closed})
  OBVIOUS
<1>6. PICK gen2, cur2, rot2 :
        /\ gen2 = IF Turns(day, rot) THEN Cleared(gen, 3 - cur) ELSE gen
        /\ cur2 = IF Turns(day, rot) THEN 3 - cur ELSE cur
        /\ rot2 = IF Turns(day, rot) \/ rot = 0 THEN day + 1 ELSE rot
  OBVIOUS
<1>7. PICK u : /\ IndexOK(u, kept) /\ RowsOK(kept)
               /\ Compacted(st, ev.closed) = StateOf(kept, u, amounts, gen, cur, rot, day, lsn, "no")
  BY <1>2, <1>3, <1>5, CompactedIs
<1>8. PICK c : c = Compacted(st, ev.closed)
  OBVIOUS
<1>9. c.keys = [gen |-> gen, cur |-> cur, rot |-> rot] /\ c.day = day
  BY <1>7, <1>8, StateFields
<1>10. Opened(st, ev.closed) = NewDay(c, [gen |-> gen2, cur |-> cur2, rot |-> rot2], day + 1)
  <2>1. Rotated(c.keys, day + 1, Window) = [gen |-> gen2, cur |-> cur2, rot |-> rot2]
    BY <1>3, <1>6, <1>9, RotatedIs
  <2>2. Opened(st, ev.closed) = [c EXCEPT !.keys = Rotated(c.keys, day + 1, Window), !.day = c.day + 1]
    BY <1>1, <1>8 DEF Opened
  <2>3. PICK x, y : x = Rotated(c.keys, day + 1, Window) /\ y = c.day + 1
    OBVIOUS
  <2>4. Opened(st, ev.closed) = NewDay(c, x, y)
    BY <2>2, <2>3 DEF NewDay
  <2> QED  BY <1>9, <2>1, <2>3, <2>4
<1>11. Opened(st, ev.closed) = StateOf(kept, u, amounts, gen2, cur2, rot2, day + 1, lsn, "no")
  BY <1>7, <1>8, <1>10, WithDay
<1>12. /\ gen2 = [g \in 1 .. 2 |-> gen2[g]] /\ (\A g \in 1 .. 2 : GenOK(gen2[g])) /\ cur2 \in 1 .. 2
       /\ rot2 \in Nat /\ day + 1 \in Nat
       /\ KeysIn(gen2) = IF Turns(day, rot) THEN NoKeys(KeysIn(gen), 3 - cur) ELSE KeysIn(gen)
  <2>1. 3 - cur \in 1 .. 2
    BY <1>3
  <2>2. CASE Turns(day, rot)
    <3>1. gen2 = Cleared(gen, 3 - cur)
      BY <1>6, <2>2
    <3>2. PICK h \in 1 .. 2 : h = 3 - cur
      BY <2>1
    <3>3. gen2 = Cleared(gen, h)
      BY <3>1, <3>2
    <3>4. /\ gen2 = [g \in 1 .. 2 |-> gen2[g]] /\ (\A g \in 1 .. 2 : GenOK(gen2[g]))
          /\ KeysIn(gen2) = NoKeys(KeysIn(gen), h)
      <4>1. gen = [g \in 1 .. 2 |-> gen[g]] /\ \A g \in 1 .. 2 : GenOK(gen[g])
        BY <1>3
      <4>2. gen2 = [g \in 1 .. 2 |-> gen2[g]]
        BY <4>1, <3>3 DEF Cleared
      <4>3. \A g \in 1 .. 2 : GenOK(gen2[g])
        BY <4>1, <3>3, KeysCleared
      <4>4. KeysIn(gen2) = NoKeys(KeysIn(gen), h)
        BY <4>1, <3>3, KeysCleared
      <4> QED  BY <4>2, <4>3, <4>4
    <3>5. cur2 \in 1 .. 2 /\ rot2 \in Nat /\ day + 1 \in Nat
      BY <1>3, <1>6, <2>1, <2>2
    <3> QED  BY <2>2, <3>2, <3>4, <3>5
  <2>3. CASE ~Turns(day, rot)
    BY <1>3, <1>6, <2>3
  <2> QED  BY <2>2, <2>3
<1>13. StateOK(Opened(st, ev.closed))
  BY <1>3, <1>7, <1>11, <1>12, StateMade
<1>14. /\ Plain(Opened(st, ev.closed)) = PlainOf(kept, amounts, day + 1, KeysIn(gen2), cur2, rot2)
       /\ Opened(st, ev.closed).halted = "no"
  <2>1. PICK d, o : d = day + 1 /\ o = Opened(st, ev.closed)
    OBVIOUS
  <2>2. o = StateOf(kept, u, amounts, gen2, cur2, rot2, d, lsn, "no")
    BY <1>11, <2>1
  <2>3. o.halted = "no"
    BY <2>2 DEF StateOf
  <2>4. Plain(o) = PlainOf(kept, amounts, d, KeysIn(gen2), cur2, rot2)
    BY <2>2 DEF Plain, PlainOf, StateOf, KeysIn
  <2> QED  BY <2>1, <2>3, <2>4
<1>15. PlainStep(Plain(st), ev) =
         PlainOf(kept, amounts, day + 1, KeysIn(gen2), cur2, rot2)
  BY <1>4, <1>5, <1>6, <1>12, PlainOpen
<1> QED  BY <1>13, <1>14, <1>15

EventSet ==
  [type : {"trade"}, id : Trades] \cup [type : {"action"}, id : Keys]
    \cup [type : {"day"}, closed : SUBSET Trades]

NewLsn(st, n) == [st EXCEPT !.lsn = n]

\* A state that takes an LSN, and the mark of a fatal event, is otherwise the same.
LEMMA LsnOK ==
  ASSUME NEW st, StateOK(st), NEW n \in Nat
  PROVE  /\ StateOK(NewLsn(st, n)) /\ Plain(NewLsn(st, n)) = Plain(st)
         /\ NewLsn(st, n).lsn = n /\ NewLsn(st, n).halted = st.halted
         /\ StateOK(Marked(st, "fatal", n)) /\ Plain(Marked(st, "fatal", n)) = Plain(st)
         /\ Marked(st, "fatal", n).lsn = n /\ Marked(st, "fatal", n).halted = "fatal"
<1>1. PICK rows, index, amounts, gen, cur, rot, day, lsn, halted :
        /\ rows = st.rows /\ index = st.index /\ amounts = st.amounts /\ gen = st.keys.gen
        /\ cur = st.keys.cur /\ rot = st.keys.rot /\ day = st.day /\ lsn = st.lsn /\ halted = st.halted
  OBVIOUS
<1>2. st = StateOf(rows, index, amounts, gen, cur, rot, day, lsn, halted) /\ halted \in {"no", "fatal"}
  BY <1>1 DEF StateOK, IsState
<1>3. /\ RowsOK(rows) /\ IndexOK(index, rows) /\ amounts \in [Keys -> Nat]
      /\ gen = [g \in 1 .. 2 |-> gen[g]] /\ (\A g \in 1 .. 2 : GenOK(gen[g]))
      /\ cur \in 1 .. 2 /\ day \in Nat /\ rot \in Nat /\ lsn \in Nat
  BY <1>1 DEF StateOK
<1>4. PICK u, v, m : u = NewLsn(st, m) /\ v = Marked(st, "fatal", m) /\ m = n
  OBVIOUS
<1>5. u = StateOf(rows, index, amounts, gen, cur, rot, day, m, halted)
  BY <1>2, <1>4, WithLsn DEF NewLsn
<1>6. v = StateOf(rows, index, amounts, gen, cur, rot, day, m, "fatal")
  BY <1>2, <1>4, WithHalted
<1>7. StateOK(u) /\ StateOK(v)
  <2>1. m \in Nat
    BY <1>4
  <2> QED  BY <1>2, <1>3, <1>5, <1>6, <2>1, StateMade
<1>8. Plain(u) = Plain(st)
  BY <1>2, <1>5 DEF Plain, StateOf
<1>9. Plain(v) = Plain(st)
  BY <1>2, <1>6 DEF Plain, StateOf
<1>10. u.lsn = m /\ u.halted = halted /\ v.lsn = m /\ v.halted = "fatal"
  BY <1>5, <1>6 DEF StateOf
<1> QED  BY <1>1, <1>4, <1>7, <1>8, <1>9, <1>10

\* apply: an event makes of a good state the one the plain step makes of its content,
\* or is fatal and leaves the content alone; the LSN moves to the event either way.
LEMMA ApplyOK ==
  ASSUME NEW st, StateOK(st), st.halted = "no", NEW ev \in EventSet, NEW n \in Nat
  PROVE  /\ StateOK(Apply(st, ev, n))
         /\ Apply(st, ev, n).lsn = n
         /\ Apply(st, ev, n).halted = "no" => Plain(Apply(st, ev, n)) = PlainStep(Plain(st), ev)
         /\ Apply(st, ev, n).halted # "no" => Plain(Apply(st, ev, n)) = Plain(st)
<1>1. PICK d : d = CASE ev.type = "trade" -> Booked(st, ev.id)
                     [] ev.type = "action" -> Acted(st, ev.id)
                     [] OTHER -> Opened(st, ev.closed)
  OBVIOUS
<1>2. Apply(st, ev, n) = IF d.halted = "no" THEN NewLsn(d, n) ELSE Marked(st, "fatal", n)
  BY <1>1 DEF Apply, NewLsn, Marked
<1>3. ASSUME d.halted = "no"
      PROVE  StateOK(d) /\ Plain(d) = PlainStep(Plain(st), ev)
  <2>1. CASE ev \in [type : {"trade"}, id : Trades]
    <3>1. ev.type = "trade" /\ ev.id \in Trades
      BY <2>1
    <3>2. d = Booked(st, ev.id)
      BY <1>1, <3>1
    <3> QED  BY <1>3, <3>1, <3>2, BookedOK
  <2>2. CASE ev \in [type : {"action"}, id : Keys]
    <3>1. ev.type = "action" /\ ev.id \in Keys
      BY <2>2
    <3>2. d = Acted(st, ev.id)
      BY <1>1, <3>1
    <3> QED  BY <1>3, <3>1, <3>2, ActedOK
  <2>3. CASE ev \in [type : {"day"}, closed : SUBSET Trades]
    <3>1. ev.type = "day"
      BY <2>3
    <3>2. d = Opened(st, ev.closed)
      BY <1>1, <3>1
    <3> QED  BY <3>1, <3>2, OpenedOK
  <2> QED  BY <2>1, <2>2, <2>3 DEF EventSet
<1>4. CASE d.halted = "no"
  <2>1. Apply(st, ev, n) = NewLsn(d, n)
    BY <1>2, <1>4
  <2>2. /\ StateOK(NewLsn(d, n)) /\ Plain(NewLsn(d, n)) = Plain(d)
        /\ NewLsn(d, n).lsn = n /\ NewLsn(d, n).halted = "no"
    BY <1>3, <1>4, LsnOK
  <2> QED  BY <1>3, <1>4, <2>1, <2>2
<1>5. CASE d.halted # "no"
  <2>1. Apply(st, ev, n) = Marked(st, "fatal", n)
    BY <1>2, <1>5
  <2>2. /\ StateOK(Marked(st, "fatal", n)) /\ Plain(Marked(st, "fatal", n)) = Plain(st)
        /\ Marked(st, "fatal", n).lsn = n /\ Marked(st, "fatal", n).halted = "fatal"
    BY LsnOK
  <2> QED  BY <2>1, <2>2
<1> QED  BY <1>4, <1>5

-----------------------------------------------------------------------------
(* What a log stands for. *)

AfterBody(f, n, events) == IF n = 0 THEN PlainInit ELSE PlainStep(f[n - 1], events[n])
AfterUpto(events, m) == CHOOSE f : f = [n \in 0 .. m |-> AfterBody(f, n, events)]

\* The recursion of PlainAfter has a solution.
LEMMA AfterSolves ==
  ASSUME NEW events, NEW m \in Nat
  PROVE  AfterUpto(events, m) = [n \in 0 .. m |-> AfterBody(AfterUpto(events, m), n, events)]
<1> DEFINE Solved(x) == \E f : f = [n \in 0 .. x |-> AfterBody(f, n, events)]
<1> SUFFICES ASSUME ~Solved(m) PROVE FALSE
  BY DEF AfterUpto
<1>1. PICK x \in {y \in Nat : ~Solved(y)} : \A y \in {y \in Nat : ~Solved(y)} : x <= y
  <2>1. {y \in Nat : ~Solved(y)} # {} /\ {y \in Nat : ~Solved(y)} \subseteq Nat
    OBVIOUS
  <2> HIDE DEF Solved
  <2> QED  BY <2>1, LeastNatural
<1>2. x \in Nat /\ ~Solved(x)
  OBVIOUS
<1>3. CASE x = 0
  <2> DEFINE f == [n \in 0 .. 0 |-> PlainInit]
  <2>1. f = [n \in 0 .. x |-> AfterBody(f, n, events)]
    BY <1>3 DEF AfterBody
  <2> QED  BY <1>2, <2>1
<1>4. CASE x # 0
  <2>1. x - 1 \in Nat /\ ~(x <= x - 1)
    BY <1>2, <1>4
  <2>2. Solved(x - 1)
    <3> HIDE DEF Solved
    <3> QED  BY <1>1, <2>1
  <2>3. PICK g : g = [n \in 0 .. x - 1 |-> AfterBody(g, n, events)]
    BY <2>2
  <2> DEFINE f == [n \in 0 .. x |-> AfterBody(g, n, events)]
  <2>4. ASSUME NEW n \in 0 .. x, n # 0 PROVE f[n - 1] = g[n - 1]
    <3>1. n - 1 \in 0 .. x - 1 /\ n - 1 \in 0 .. x
      BY <2>4, <1>2
    <3>2. g[n - 1] = AfterBody(g, n - 1, events)
      BY <2>3, <3>1
    <3> QED  BY <3>1, <3>2
  <2>5. \A n \in 0 .. x : AfterBody(g, n, events) = AfterBody(f, n, events)
    BY <2>4 DEF AfterBody
  <2>6. f = [n \in 0 .. x |-> AfterBody(f, n, events)]
    BY <2>5
  <2> QED  BY <1>2, <2>6
<1> QED  BY <1>3, <1>4

\* The empty log stands for the empty state, and each event makes one plain step.
LEMMA AfterStep ==
  ASSUME NEW S, NEW events \in Seq(S)
  PROVE  /\ PlainAfter(events)[0] = PlainInit
         /\ \A n \in 1 .. Len(events) :
              PlainAfter(events)[n] = PlainStep(PlainAfter(events)[n - 1], events[n])
<1>1. Len(events) \in Nat
  OBVIOUS
<1>2. PICK f : f = AfterUpto(events, Len(events))
  OBVIOUS
<1>3. f = [n \in 0 .. Len(events) |-> AfterBody(f, n, events)]
  BY <1>1, <1>2, AfterSolves
<1>4. PlainAfter(events) = f
  BY <1>2 DEF PlainAfter, AfterUpto, AfterBody
<1>5. f[0] = PlainInit
  BY <1>1, <1>3 DEF AfterBody
<1>6. \A n \in 1 .. Len(events) : f[n] = PlainStep(f[n - 1], events[n])
  BY <1>1, <1>3 DEF AfterBody
<1> QED  BY <1>4, <1>5, <1>6

\* Two logs that agree up to n stand for the same state up to n.
LEMMA AfterAgree ==
  ASSUME NEW S, NEW a \in Seq(S), NEW b \in Seq(S), NEW n \in Nat, n <= Len(a), n <= Len(b),
         \A i \in 1 .. n : a[i] = b[i]
  PROVE  PlainAfter(a)[n] = PlainAfter(b)[n]
<1>1. PICK f, g : f = PlainAfter(a) /\ g = PlainAfter(b)
  OBVIOUS
<1>2. f[0] = g[0] /\ \A m \in 1 .. n : f[m] = PlainStep(f[m - 1], a[m]) /\ g[m] = PlainStep(g[m - 1], a[m])
  <2>1. \A m \in 1 .. n : m \in 1 .. Len(a) /\ m \in 1 .. Len(b)
    OBVIOUS
  <2>2. /\ f[0] = PlainInit /\ \A m \in 1 .. Len(a) : f[m] = PlainStep(f[m - 1], a[m])
    BY <1>1, AfterStep
  <2>3. /\ g[0] = PlainInit /\ \A m \in 1 .. Len(b) : g[m] = PlainStep(g[m - 1], b[m])
    BY <1>1, AfterStep
  <2> QED  BY <2>1, <2>2, <2>3
<1> DEFINE Bad == {m \in Nat : m <= n /\ f[m] # g[m]}
<1> SUFFICES ASSUME Bad # {} PROVE FALSE
  BY <1>1
<1>3. PICK x \in Bad : \A y \in Bad : x <= y
  <2>1. Bad \subseteq Nat
    OBVIOUS
  <2> HIDE DEF Bad
  <2> QED  BY <2>1, LeastNatural
<1>4. x \in Nat /\ x <= n /\ f[x] # g[x] /\ x # 0
  BY <1>2
<1>5. x - 1 \in Nat /\ x - 1 <= n /\ ~(x <= x - 1) /\ x \in 1 .. n
  BY <1>4
<1>6. f[x - 1] = g[x - 1]
  BY <1>3, <1>5
<1> QED  BY <1>2, <1>4, <1>5, <1>6

-----------------------------------------------------------------------------
(* What an image holds, and the state it loads to. *)

RecKeys(q) == [g \in 1 .. 2 |-> {k \in Keys : \E j \in 1 .. Len(q[g]) : q[g][j] = k}]

ContentPlain(c) == PlainOf(c.rows, c.amounts, c.day, RecKeys(c.keys), c.cur, c.rot)

ContentOK(c) ==
  /\ RowsOK(c.rows)
  /\ c.amounts \in [Keys -> Nat]
  /\ \A g \in 1 .. 2 : Fits(c.keys[g])
  /\ c.cur \in 1 .. 2
  /\ c.day \in Nat /\ c.rot \in Nat /\ c.lsn \in Nat

\* save_state_image writes all that is needed.
LEMMA SavedOK ==
  ASSUME NEW st, StateOK(st)
  PROVE  ContentOK(Saved(st)) /\ ContentPlain(Saved(st)) = Plain(st) /\ Saved(st).lsn = st.lsn
<1>1. PICK c : c = Saved(st)
  OBVIOUS
<1>2. /\ c.rows = st.rows /\ c.amounts = st.amounts /\ c.keys = Records(st.keys) /\ c.cur = st.keys.cur
      /\ c.rot = st.keys.rot /\ c.day = st.day /\ c.lsn = st.lsn
  BY <1>1 DEF Saved
<1>3. \A g \in 1 .. 2 : c.keys[g] = InSlotOrder(st.keys.gen[g]) /\ GenOK(st.keys.gen[g])
  BY <1>2 DEF Records, StateOK
<1>4. \A g \in 1 .. 2 : Fits(c.keys[g])
  BY <1>3, RecordsFit
<1>5. ContentOK(c)
  BY <1>2, <1>4 DEF ContentOK, StateOK
<1>6. RecKeys(c.keys) = KeysIn(st.keys.gen)
  <2>1. ASSUME NEW g \in 1 .. 2
        PROVE  {k \in Keys : \E j \in 1 .. Len(c.keys[g]) : c.keys[g][j] = k} =
                 {k \in Keys : Has(st.keys.gen[g], k)}
    <3>1. PICK q, t : q = c.keys[g] /\ t = st.keys.gen[g]
      OBVIOUS
    <3>2. \A k \in Keys : Has(t, k) <=> \E j \in 1 .. Len(q) : q[j] = k
      BY <1>3, <3>1, Hashed, RecordsFit
    <3>3. {k \in Keys : \E j \in 1 .. Len(q) : q[j] = k} = {k \in Keys : Has(t, k)}
      BY <3>2
    <3> QED  BY <3>1, <3>3
  <2> QED  BY <2>1 DEF RecKeys, KeysIn
<1>7. Plain(st) = PlainOf(st.rows, st.amounts, st.day, KeysIn(st.keys.gen), st.keys.cur, st.keys.rot)
  BY DEF Plain, PlainOf, KeysIn
<1>8. ContentPlain(c) = Plain(st)
  BY <1>2, <1>6, <1>7 DEF ContentPlain
<1> QED  BY <1>1, <1>2, <1>5, <1>8

\* load_state_image makes of a whole image a state with the same content, whatever
\* state it works on.
LEMMA LoadedOK ==
  ASSUME NEW st, st.halted = "no", NEW img, ContentOK(img.content), Intact(img)
  PROVE  /\ StateOK(Loaded(st, img)) /\ Loaded(st, img).halted = "no"
         /\ Plain(Loaded(st, img)) = ContentPlain(img.content)
         /\ Loaded(st, img).lsn = img.content.lsn
<1>1. PICK h, u, gen : /\ h = img.content /\ u = Loaded(st, img)
                       /\ gen = [g \in 1 .. 2 |-> OfRecords(h.keys[g])]
  OBVIOUS
<1>2. img.good = 4 /\ Len(Parts) = 4
  BY DEF Intact, Parts
<1>3. u = StateOf(h.rows, Indexed(h.rows), h.amounts, gen, h.cur, h.rot, h.day, h.lsn, "no")
  <2>1. Restored(h.cur, h.rot, h.keys) = [gen |-> gen, cur |-> h.cur, rot |-> h.rot]
    BY <1>1 DEF Restored
  <2>2. u = [rows |-> h.rows, index |-> Indexed(h.rows), amounts |-> h.amounts,
             keys |-> Restored(h.cur, h.rot, h.keys), day |-> h.day, lsn |-> h.lsn, halted |-> st.halted]
    BY <1>1, <1>2 DEF Loaded
  <2> QED  BY <2>1, <2>2 DEF StateOf
<1>4. /\ RowsOK(h.rows) /\ h.amounts \in [Keys -> Nat] /\ (\A g \in 1 .. 2 : Fits(h.keys[g]))
      /\ h.cur \in 1 .. 2 /\ h.day \in Nat /\ h.rot \in Nat /\ h.lsn \in Nat
  BY <1>1 DEF ContentOK
<1>5. gen = [g \in 1 .. 2 |-> gen[g]] /\ \A g \in 1 .. 2 : gen[g] = OfRecords(h.keys[g])
  BY <1>1
<1>6. \A g \in 1 .. 2 : GenOK(gen[g])
  BY <1>4, <1>5, OfRecordsOK
<1>7. IndexOK(Indexed(h.rows), h.rows)
  BY <1>4, IndexedOK
<1>8. StateOK(u)
  BY <1>3, <1>4, <1>5, <1>6, <1>7, StateMade
<1>9. KeysIn(gen) = RecKeys(h.keys)
  <2>1. ASSUME NEW g \in 1 .. 2
        PROVE  {k \in Keys : \E j \in 1 .. Len(h.keys[g]) : h.keys[g][j] = k} = {k \in Keys : Has(gen[g], k)}
    <3>1. PICK q, t : q = h.keys[g] /\ t = gen[g]
      OBVIOUS
    <3>2. \A k \in Keys : Has(t, k) <=> \E j \in 1 .. Len(q) : q[j] = k
      BY <1>4, <1>5, <3>1, Hashed, OfRecordsOK
    <3>3. {k \in Keys : \E j \in 1 .. Len(q) : q[j] = k} = {k \in Keys : Has(t, k)}
      BY <3>2
    <3> QED  BY <3>1, <3>3
  <2> QED  BY <2>1 DEF RecKeys, KeysIn
<1>10. Plain(u) = ContentPlain(h)
  <2>1. Plain(u) = PlainOf(h.rows, h.amounts, h.day, KeysIn(gen), h.cur, h.rot)
    BY <1>3 DEF Plain, PlainOf, StateOf, KeysIn
  <2> QED  BY <1>9, <2>1 DEF ContentPlain
<1>11. u.halted = "no" /\ u.lsn = h.lsn
  BY <1>3 DEF StateOf
<1> QED  BY <1>1, <1>8, <1>10, <1>11

-----------------------------------------------------------------------------
(* The inductive invariant. *)

\* An image holds what the log up to its LSN stands for, and all of that is durable.
ImageOK(i, l, d) ==
  /\ i = [content |-> i.content, good |-> i.good] /\ i.good \in Nat
  /\ ContentOK(i.content)
  /\ i.content.lsn <= d
  /\ ContentPlain(i.content) = PlainAfter(l)[i.content.lsn]

Agrees(st, l) ==
  /\ StateOK(st)
  /\ st.lsn <= Len(l) /\ (st.halted # "no" => st.lsn >= 1)
  /\ Plain(st) = PlainAfter(l)[Held(st)]

LogOK == log \in Seq(EventSet) /\ durable \in Nat /\ durable <= Len(log)
ImagesOK == (\A i \in images : ImageOK(i, log, durable)) /\ untried \subseteq images
RunOK ==
  phase = "run" => Agrees(s, log) /\ (s.halted = "no" => s.lsn = Len(log)) /\ untried = {}

\* While the images are tried the state may be anything, but it is the empty one
\* unless some image got past its header.
LoadOK ==
  phase = "load" => s.halted = "no" /\ next = 1 /\ (s = EmptyState \/ \E i \in images : i.good >= 1)

ReplayOK ==
  phase = "replay" =>
    /\ Agrees(s, log)
    /\ from \in Nat /\ from <= Len(log) /\ next \in Nat /\ next >= 1 /\ next <= Len(log) + 1
    /\ s.halted = "no" => s.lsn = IF InImage(next) THEN from ELSE next - 1

Sound == LogOK /\ ImagesOK /\ RunOK /\ LoadOK /\ ReplayOK /\ phase \in {"run", "load", "replay"}

\* Once a recovery went on from a residue nothing is claimed.
IInv == tainted \in BOOLEAN /\ (~tainted => Sound)

\* An image stays good for a log that keeps what was durable.
LEMMA ImageKept ==
  ASSUME NEW a \in Seq(EventSet), NEW b \in Seq(EventSet), NEW d \in Nat, NEW e \in Nat,
         d <= Len(a), d <= Len(b), d <= e, \A j \in 1 .. d : a[j] = b[j],
         NEW i, ImageOK(i, a, d)
  PROVE  ImageOK(i, b, e)
<1>1. PICK n : n = i.content.lsn
  OBVIOUS
<1>2. n \in Nat /\ n <= d
  BY <1>1 DEF ImageOK, ContentOK
<1>3. n <= Len(a) /\ n <= Len(b) /\ n <= e /\ \A j \in 1 .. n : a[j] = b[j]
  <2>1. Len(a) \in Nat /\ Len(b) \in Nat
    OBVIOUS
  <2> QED  BY <1>2, <2>1
<1>4. PlainAfter(a)[n] = PlainAfter(b)[n]
  BY <1>2, <1>3, AfterAgree
<1> QED  BY <1>1, <1>3, <1>4 DEF ImageOK

\* A crash that takes parts of an image leaves its content.
LEMMA ImageTorn ==
  ASSUME NEW l, NEW d, NEW i, ImageOK(i, l, d), NEW j \in Left(i)
  PROVE  ImageOK(j, l, d)
<1>1. PICK c, g : c = i.content /\ g = i.good
  OBVIOUS
<1>2. i = [content |-> c, good |-> g] /\ g \in Nat
  BY <1>1 DEF ImageOK
<1>3. PICK n \in 0 .. g : j = [i EXCEPT !.good = n]
  BY <1>1 DEF Left
<1>4. j = [content |-> c, good |-> n] /\ n \in Nat
  BY <1>2, <1>3
<1>5. j.content = i.content /\ j.good = n
  BY <1>1, <1>4
<1> QED  BY <1>1, <1>4, <1>5 DEF ImageOK

\* The events a partition takes are events of the log.
LEMMA EventsAreEvents ==
  ASSUME RowsOK(s.rows), NEW ev \in Events
  PROVE  ev \in EventSet
<1>1. CASE ev = [type |-> "day", closed |-> IF s.rows = <<>> THEN {} ELSE {s.rows[1]}]
  <2>1. s.rows # <<>> => s.rows[1] \in Trades
    BY DEF RowsOK
  <2>2. (IF s.rows = <<>> THEN {} ELSE {s.rows[1]}) \in SUBSET Trades
    BY <2>1
  <2> QED  BY <1>1, <2>2 DEF EventSet
<1> QED  BY <1>1 DEF Events, EventSet

\* An event read after the ones a state holds makes the state agree with the log up
\* to that event.
LEMMA AppliedAgrees ==
  ASSUME NEW st, NEW l \in Seq(EventSet), Agrees(st, l), st.halted = "no",
         NEW n \in 1 .. Len(l), st.lsn = n - 1
  PROVE  Agrees(Apply(st, l[n], n), l) /\ Apply(st, l[n], n).lsn = n
<1>1. PICK u, ev : u = Apply(st, l[n], n) /\ ev = l[n]
  OBVIOUS
<1>2. ev \in EventSet /\ n \in Nat /\ n >= 1 /\ n <= Len(l)
  BY <1>1
<1>3. StateOK(st) /\ Plain(st) = PlainAfter(l)[n - 1]
  BY DEF Agrees, Held
<1>4. /\ StateOK(u) /\ u.lsn = n
      /\ u.halted = "no" => Plain(u) = PlainStep(Plain(st), ev)
      /\ u.halted # "no" => Plain(u) = Plain(st)
  BY <1>1, <1>2, <1>3, ApplyOK
<1>5. PlainAfter(l)[n] = PlainStep(PlainAfter(l)[n - 1], l[n])
  BY AfterStep
<1>6. Plain(u) = PlainAfter(l)[Held(u)]
  BY <1>1, <1>3, <1>4, <1>5 DEF Held
<1> QED  BY <1>1, <1>2, <1>4, <1>6 DEF Agrees

\* A state that agrees with a log agrees with a longer one.
LEMMA AgreesLonger ==
  ASSUME NEW a \in Seq(EventSet), NEW b \in Seq(EventSet), Len(a) <= Len(b),
         \A j \in 1 .. Len(a) : a[j] = b[j], NEW st, Agrees(st, a)
  PROVE  Agrees(st, b)
<1>1. PICK n : n = Held(st)
  OBVIOUS
<1>2. st.lsn \in Nat /\ st.lsn <= Len(a) /\ (st.halted # "no" => st.lsn >= 1)
  BY DEF Agrees, StateOK
<1>3. Len(a) \in Nat /\ Len(b) \in Nat
  OBVIOUS
<1>4. n \in Nat /\ n <= Len(a) /\ n <= Len(b)
  BY <1>1, <1>2, <1>3 DEF Held
<1>5. \A j \in 1 .. n : a[j] = b[j]
  BY <1>3, <1>4
<1>6. PlainAfter(a)[n] = PlainAfter(b)[n]
  BY <1>4, <1>5, AfterAgree
<1> QED  BY <1>1, <1>2, <1>3, <1>6 DEF Agrees

\* The empty state agrees with every log.
LEMMA EmptyAgrees ==
  ASSUME NEW l \in Seq(EventSet)
  PROVE  Agrees(EmptyState, l)
<1>1. PICK e : e = EmptyState
  OBVIOUS
<1>2. StateOK(e) /\ Plain(e) = PlainInit /\ e.halted = "no" /\ e.lsn = 0
  BY <1>1, EmptyStateOK
<1>3. PlainAfter(l)[0] = PlainInit /\ Len(l) \in Nat
  BY AfterStep
<1>4. Agrees(e, l)
  BY <1>2, <1>3 DEF Agrees, Held
<1> QED  BY <1>1, <1>4

\* The invariant holds at the start.
LEMMA ImageStart == Init => IInv
<1> SUFFICES ASSUME Init PROVE IInv
  OBVIOUS
<1>1. /\ s = EmptyState /\ log = <<>> /\ durable = 0 /\ images = {} /\ phase = "run" /\ untried = {}
      /\ tainted = FALSE
  BY DEF Init
<1>2. log \in Seq(EventSet) /\ Len(log) = 0
  BY <1>1
<1>3. LogOK /\ ImagesOK /\ LoadOK /\ ReplayOK
  BY <1>1, <1>2 DEF LogOK, ImagesOK, LoadOK, ReplayOK
<1>4. RunOK
  BY <1>1, <1>2, EmptyAgrees, EmptyStateOK DEF RunOK
<1> QED  BY <1>1, <1>3, <1>4 DEF IInv, Sound

\* A step that leaves the log and the images alone leaves them good.
LEMMA FilesKept ==
  ASSUME LogOK, ImagesOK, log' = log, durable' = durable, images' = images, untried' \subseteq untried
  PROVE  LogOK' /\ ImagesOK'
BY DEF LogOK, ImagesOK

\* Process: the log grows by the event the state takes.
LEMMA ProcessStep ==
  ASSUME Sound, NEW ev \in Events, Process(ev)
  PROVE  Sound'
<1>1. /\ phase = "run" /\ s.halted = "no" /\ log' = Append(log, ev) /\ s' = Apply(s, ev, Len(log) + 1)
      /\ durable' = durable /\ images' = images /\ phase' = phase /\ untried' = untried
  BY DEF Process, recovery
<1>2. Agrees(s, log) /\ s.lsn = Len(log) /\ log \in Seq(EventSet) /\ durable \in Nat /\ durable <= Len(log)
  BY <1>1 DEF Sound, RunOK, LogOK
<1>3. ev \in EventSet
  BY <1>2, EventsAreEvents DEF Agrees, StateOK
<1>4. PICK n : n = Len(log) + 1
  OBVIOUS
<1>5. /\ log' \in Seq(EventSet) /\ Len(log') = n /\ n \in 1 .. n /\ Len(log) = n - 1 /\ Len(log) \in Nat
      /\ log'[n] = ev /\ \A j \in 1 .. Len(log) : log'[j] = log[j]
  BY <1>1, <1>2, <1>3, <1>4
<1>6. Agrees(s, log')
  BY <1>2, <1>5, AgreesLonger
<1>7. Agrees(s', log') /\ s'.lsn = n
  <2>1. PICK l, u : l = log' /\ u = s'
    OBVIOUS
  <2>2. u = Apply(s, l[n], n)
    BY <1>1, <1>4, <1>5, <2>1
  <2>3. l \in Seq(EventSet) /\ Agrees(s, l) /\ n \in 1 .. Len(l) /\ s.lsn = n - 1
    BY <1>2, <1>5, <1>6, <2>1
  <2>4. Agrees(u, l) /\ u.lsn = n
    BY <1>1, <2>2, <2>3, AppliedAgrees
  <2> QED  BY <2>1, <2>4
<1>8. LogOK'
  BY <1>1, <1>2, <1>5 DEF LogOK
<1>9. ImagesOK'
  <2>1. ASSUME NEW i \in images PROVE ImageOK(i, log', durable')
    <3>1. ImageOK(i, log, durable)
      BY DEF Sound, ImagesOK
    <3>2. PICK l : l = log'
      OBVIOUS
    <3>3. l \in Seq(EventSet) /\ durable <= Len(l) /\ durable <= durable /\ \A j \in 1 .. durable : log[j] = l[j]
      BY <1>2, <1>5, <3>2
    <3>4. ImageOK(i, l, durable)
      BY <1>2, <3>1, <3>3, ImageKept
    <3> QED  BY <1>1, <3>2, <3>4
  <2> QED  BY <1>1, <2>1 DEF Sound, ImagesOK
<1>10. RunOK'
  BY <1>1, <1>5, <1>7 DEF Sound, RunOK
<1> QED  BY <1>1, <1>8, <1>9, <1>10 DEF Sound, LoadOK, ReplayOK

\* Commit: more of the log is durable.
LEMMA CommitStep ==
  ASSUME Sound, Commit
  PROVE  Sound'
<1>1. /\ phase = "run" /\ durable < Len(log) /\ durable' = Len(log) /\ s' = s /\ log' = log
      /\ images' = images /\ phase' = phase /\ untried' = untried
  BY DEF Commit, recovery
<1>2. log \in Seq(EventSet) /\ durable \in Nat /\ durable <= Len(log) /\ Len(log) \in Nat
  BY DEF Sound, LogOK
<1>3. LogOK' /\ RunOK'
  BY <1>1, <1>2 DEF Sound, LogOK, RunOK
<1>4. ASSUME NEW i \in images PROVE ImageOK(i, log', durable')
  <2>1. ImageOK(i, log, durable)
    BY DEF Sound, ImagesOK
  <2>2. ImageOK(i, log, Len(log))
    BY <1>2, <2>1, ImageKept
  <2> QED  BY <1>1, <2>2
<1>5. ImagesOK'
  BY <1>1, <1>4 DEF Sound, ImagesOK
<1> QED  BY <1>1, <1>3, <1>5 DEF Sound, LoadOK, ReplayOK

\* Snapshot: the image of a state that holds all of a durable log.
LEMMA SnapshotStep ==
  ASSUME Sound, Snapshot
  PROVE  Sound'
<1>1. /\ phase = "run" /\ s.halted = "no" /\ durable = Len(log) /\ s' = s /\ log' = log /\ durable' = durable
      /\ phase' = phase /\ untried' = untried
      /\ images' = {i \in images : i.content.lsn # s.lsn} \cup {[content |-> Saved(s), good |-> Len(Parts)]}
  BY DEF Snapshot, recovery
<1>2. Agrees(s, log) /\ s.lsn = Len(log)
  BY <1>1 DEF Sound, RunOK
<1>3. StateOK(s) /\ Plain(s) = PlainAfter(log)[Len(log)]
  BY <1>1, <1>2 DEF Agrees, Held
<1>4. PICK i : i = [content |-> Saved(s), good |-> Len(Parts)]
  OBVIOUS
<1>5. i.content = Saved(s) /\ i.good = 4 /\ i = [content |-> i.content, good |-> i.good]
  BY <1>4 DEF Parts
<1>6. ContentOK(i.content) /\ ContentPlain(i.content) = Plain(s) /\ i.content.lsn = Len(log)
  BY <1>2, <1>3, <1>5, SavedOK
<1>7. ImageOK(i, log, durable)
  <2>1. i.content.lsn <= durable
    BY <1>1, <1>6 DEF Sound, LogOK
  <2> QED  BY <1>3, <1>5, <1>6, <2>1 DEF ImageOK
<1>8. \A j \in images' : ImageOK(j, log', durable')
  BY <1>1, <1>4, <1>7 DEF Sound, ImagesOK

<1>9. untried' \subseteq images'
  BY <1>1 DEF Sound, RunOK
<1>10. ImagesOK'
  BY <1>8, <1>9 DEF ImagesOK
<1>11. LogOK' /\ RunOK'
  BY <1>1 DEF Sound, LogOK, RunOK
<1> QED  BY <1>1, <1>10, <1>11 DEF Sound, LoadOK, ReplayOK

\* Crash: what was durable is still in the log, and the images are torn at most.
LEMMA CrashStep ==
  ASSUME Sound, Crash
  PROVE  Sound'
<1>1. s' = EmptyState /\ phase' = "load" /\ untried' = images' /\ next' = 1
  BY DEF Crash
<1>2. PICK n \in durable .. Len(log), f \in AfterCrash(images) :
        log' = SubSeq(log, 1, n) /\ durable' = n /\ images' = {f[i] : i \in images}
  BY DEF Crash
<1>3. log \in Seq(EventSet) /\ durable \in Nat /\ durable <= Len(log) /\ Len(log) \in Nat
  BY DEF Sound, LogOK
<1>4. n \in Nat /\ durable <= n /\ n <= Len(log)
  BY <1>3
<1>5. log' \in Seq(EventSet) /\ Len(log') = n /\ \A j \in 1 .. n : log'[j] = log[j]
  BY <1>2, <1>3, <1>4
<1>6. LogOK'
  BY <1>2, <1>4, <1>5 DEF LogOK
<1>7. ASSUME NEW i \in images PROVE ImageOK(f[i], log', durable')
  <2>1. ImageOK(i, log, durable)
    BY DEF Sound, ImagesOK
  <2>2. PICK l : l = log'
    OBVIOUS
  <2>3. l \in Seq(EventSet) /\ durable <= Len(l) /\ \A j \in 1 .. durable : log[j] = l[j]
    BY <1>3, <1>4, <1>5, <2>2
  <2>4. ImageOK(i, l, n)
    BY <1>3, <1>4, <2>1, <2>3, ImageKept
  <2>5. f[i] \in Left(i)
    BY DEF AfterCrash
  <2>6. ImageOK(f[i], l, n)
    BY <2>4, <2>5, ImageTorn
  <2> QED  BY <1>2, <2>2, <2>6
<1>8. ImagesOK'
  BY <1>1, <1>2, <1>7 DEF ImagesOK
<1>9. LoadOK'
  <2>1. s'.halted = "no"
    BY <1>1, EmptyStateOK
  <2> QED  BY <1>1, <2>1 DEF LoadOK
<1> QED  BY <1>1, <1>6, <1>8, <1>9 DEF Sound, RunOK, ReplayOK

\* LoadImage: a whole image gives the state the log stands for up to its LSN; a torn
\* one leaves a residue only if it got past its header.
LEMMA LoadImageStep ==
  ASSUME Sound, LoadImage
  PROVE  Sound'
<1>1. phase = "load" /\ log' = log /\ durable' = durable /\ images' = images /\ next' = next
  BY DEF LoadImage
<1>2. PICK i \in untried :
        /\ s' = Loaded(s, i) /\ untried' = untried \ {i}
        /\ IF Intact(i) THEN phase' = "replay" /\ from' = s'.lsn ELSE UNCHANGED <<phase, from>>
  BY DEF LoadImage
<1>3. i \in images /\ ImageOK(i, log, durable) /\ i.good \in Nat /\ ContentOK(i.content)
  BY DEF Sound, ImagesOK, ImageOK
<1>4. LogOK' /\ ImagesOK'
  BY <1>1, <1>2, FilesKept DEF Sound
<1>5. s.halted = "no" /\ next = 1 /\ (s = EmptyState \/ \E j \in images : j.good >= 1)
  BY <1>1 DEF Sound, LoadOK
<1>6. CASE Intact(i)
  <2>1. PICK u : u = Loaded(s, i)
    OBVIOUS
  <2>2. StateOK(u) /\ u.halted = "no" /\ Plain(u) = ContentPlain(i.content) /\ u.lsn = i.content.lsn
    BY <1>3, <1>5, <1>6, <2>1, LoadedOK
  <2>3. u.lsn \in Nat /\ u.lsn <= Len(log) /\ Plain(u) = PlainAfter(log)[u.lsn] /\ Len(log) \in Nat
    <3>1. i.content.lsn \in Nat /\ i.content.lsn <= durable
      BY <1>3 DEF ImageOK, ContentOK
    <3>2. durable \in Nat /\ durable <= Len(log) /\ Len(log) \in Nat
      BY DEF Sound, LogOK
    <3> QED  BY <1>3, <2>2, <3>1, <3>2 DEF ImageOK
  <2>4. Agrees(u, log)
    BY <2>2, <2>3 DEF Agrees, Held
  <2>5. ReplayOK'
    <3>1. s' = u /\ from' = u.lsn /\ next' = 1 /\ log' = log
      BY <1>1, <1>2, <1>5, <1>6, <2>1
    <3>2. Agrees(s', log') /\ s'.lsn = IF next' <= from' THEN from' ELSE next' - 1
      BY <2>3, <2>4, <3>1
    <3> QED  BY <2>3, <3>1, <3>2 DEF ReplayOK, InImage
  <2> QED  BY <1>2, <1>4, <1>6, <2>5 DEF Sound, RunOK, LoadOK
<1>7. CASE ~Intact(i)
  <2>1. phase' = "load"
    BY <1>1, <1>2, <1>7
  <2>2. s'.halted = "no" /\ (s' = EmptyState \/ \E j \in images : j.good >= 1)
    <3>1. CASE i.good = 0
      BY <1>2, <1>5, <3>1 DEF Loaded
    <3>2. CASE i.good # 0
      <4>1. i.good >= 1
        BY <1>3, <3>2
      <4>2. Loaded(s, i).halted = s.halted
        BY <3>2 DEF Loaded
      <4> QED  BY <1>2, <1>3, <1>5, <4>1, <4>2
    <3> QED  BY <3>1, <3>2
  <2>3. LoadOK'
    BY <1>1, <1>5, <2>2 DEF LoadOK
  <2> QED  BY <1>4, <2>1, <2>3 DEF Sound, RunOK, ReplayOK
<1> QED  BY <1>6, <1>7

\* EndImages: without a residue the log is replayed on the empty state.
LEMMA EndImagesStep ==
  ASSUME Sound, EndImages, ~tainted'
  PROVE  Sound'
<1>1. /\ phase = "load" /\ phase' = "replay" /\ from' = s.lsn /\ s' = s /\ log' = log /\ durable' = durable
      /\ images' = images /\ untried' = untried /\ next' = next
      /\ tainted' = (tainted \/ \E i \in images : i.good >= 1)
  BY DEF EndImages
<1>2. s = EmptyState /\ next = 1
  BY <1>1 DEF Sound, LoadOK
<1>3. LogOK' /\ ImagesOK'
  BY <1>1, FilesKept DEF Sound
<1>4. log \in Seq(EventSet) /\ Len(log) \in Nat
  BY DEF Sound, LogOK
<1>5. Agrees(s, log) /\ s.lsn = 0
  BY <1>2, <1>4, EmptyAgrees, EmptyStateOK
<1>6. ReplayOK'
  BY <1>1, <1>2, <1>4, <1>5 DEF ReplayOK, InImage
<1> QED  BY <1>1, <1>3, <1>6 DEF Sound, RunOK, LoadOK

\* ReadRecord: a record is part of the image, or the next one the state needs.
LEMMA ReadRecordStep ==
  ASSUME Sound, ReadRecord
  PROVE  Sound'
<1>1. /\ phase = "replay" /\ s.halted = "no" /\ next <= Len(log) /\ next' = next + 1 /\ from' = from
      /\ s' = (IF InImage(next) THEN s ELSE Apply(s, log[next], next))
      /\ log' = log /\ durable' = durable /\ images' = images /\ phase' = phase /\ untried' = untried
  BY DEF ReadRecord
<1>2. /\ Agrees(s, log) /\ s.lsn = (IF next <= from THEN from ELSE next - 1)
      /\ from \in Nat /\ from <= Len(log) /\ next \in Nat /\ next >= 1
  BY <1>1 DEF Sound, ReplayOK, InImage
<1>3. log \in Seq(EventSet) /\ Len(log) \in Nat /\ next \in 1 .. Len(log)
  BY <1>1, <1>2 DEF Sound, LogOK
<1>4. LogOK' /\ ImagesOK'
  BY <1>1, FilesKept DEF Sound
<1>5. Agrees(s', log') /\ (s'.halted = "no" => s'.lsn = IF next' <= from' THEN from' ELSE next' - 1)
  <2>1. CASE next <= from
    <3>1. s' = s /\ s.lsn = from
      BY <1>1, <1>2, <2>1 DEF InImage
    <3>2. next' \in Nat /\ from' \in Nat /\ from' = from /\ next' = next + 1
      BY <1>1, <1>2
    <3>3. ~(next' <= from') => s.lsn = next' - 1
      BY <1>2, <2>1, <3>1, <3>2
    <3>4. next' <= from' => s.lsn = from'
      BY <3>1, <3>2
    <3>5. s'.lsn = IF next' <= from' THEN from' ELSE next' - 1
      BY <3>1, <3>3, <3>4, Zenon
    <3>6. Agrees(s', log')
      BY <1>1, <1>2, <3>1
    <3> QED  BY <3>5, <3>6, Zenon
  <2>2. CASE ~(next <= from)
    <3>1. s' = Apply(s, log[next], next) /\ s.lsn = next - 1
      BY <1>1, <1>2, <2>2 DEF InImage
    <3>2. PICK u : u = Apply(s, log[next], next)
      OBVIOUS
    <3>3. Agrees(u, log) /\ u.lsn = next
      BY <1>1, <1>2, <1>3, <3>1, <3>2, AppliedAgrees
    <3>4. next' = next + 1 /\ from' = from
      BY <1>1
    <3>5. ~(next' <= from') /\ next = next' - 1
      BY <1>2, <2>2, <3>4
    <3>6. s'.lsn = IF next' <= from' THEN from' ELSE next' - 1
      BY <3>1, <3>2, <3>3, <3>5, Zenon
    <3>7. Agrees(s', log')
      BY <1>1, <3>1, <3>2, <3>3
    <3> QED  BY <3>6, <3>7, Zenon
  <2> QED  BY <2>1, <2>2
<1>6. from' \in Nat /\ from' <= Len(log') /\ next' \in Nat /\ next' >= 1 /\ next' <= Len(log') + 1
  BY <1>1, <1>2, <1>3
<1>7. ReplayOK'
  BY <1>5, <1>6 DEF ReplayOK, InImage
<1> QED  BY <1>1, <1>4, <1>7 DEF Sound, RunOK, LoadOK

\* Recovered: at the end of the log the state holds all of it.
LEMMA RecoveredStep ==
  ASSUME Sound, Recovered
  PROVE  Sound'
<1>1. /\ phase = "replay" /\ (s.halted = "fatal" \/ next > Len(log)) /\ phase' = "run" /\ untried' = {}
      /\ s' = s /\ log' = log /\ durable' = durable /\ images' = images
  BY DEF Recovered
<1>2. /\ Agrees(s, log) /\ (s.halted = "no" => s.lsn = IF next <= from THEN from ELSE next - 1)
      /\ from \in Nat /\ from <= Len(log) /\ next \in Nat /\ next <= Len(log) + 1
  BY <1>1 DEF Sound, ReplayOK, InImage
<1>3. Len(log) \in Nat
  BY DEF Sound, LogOK
<1>4. s.halted = "no" => s.lsn = Len(log)
  BY <1>1, <1>2, <1>3
<1>5. LogOK' /\ ImagesOK'
  BY <1>1, FilesKept DEF Sound
<1>6. RunOK'
  BY <1>1, <1>2, <1>4 DEF RunOK
<1> QED  BY <1>1, <1>5, <1>6 DEF Sound, LoadOK, ReplayOK

\* Every step keeps the invariant.
LEMMA ImageStep == IInv /\ [Next]_vars => IInv'
<1> SUFFICES ASSUME IInv, [Next]_vars PROVE IInv'
  OBVIOUS
<1>1. tainted' \in BOOLEAN /\ (tainted => tainted')
  <2>1. CASE UNCHANGED vars
    BY <2>1 DEF vars, IInv
  <2>2. CASE EndImages
    BY <2>2 DEF EndImages, IInv
  <2>3. CASE \/ \E ev \in Events : Process(ev)
             \/ Commit
             \/ Snapshot
             \/ Crash
             \/ LoadImage
             \/ ReadRecord
             \/ Recovered
    BY <2>3 DEF Process, Commit, Snapshot, Crash, LoadImage, ReadRecord, Recovered, IInv
  <2> QED  BY <2>1, <2>2, <2>3 DEF Next
<1>2. ASSUME ~tainted' PROVE Sound'
  <2>1. Sound
    BY <1>1, <1>2 DEF IInv
  <2>2. CASE UNCHANGED vars
    <3>1. /\ s' = s /\ log' = log /\ durable' = durable /\ images' = images /\ phase' = phase
          /\ untried' = untried /\ from' = from /\ next' = next
      BY <2>2 DEF vars, recovery
    <3>2. LogOK' /\ ImagesOK'
      BY <2>1, <3>1, FilesKept DEF Sound
    <3>3. RunOK' /\ LoadOK' /\ ReplayOK'
      BY <2>1, <3>1 DEF Sound, RunOK, LoadOK, ReplayOK, InImage
    <3> QED  BY <2>1, <3>1, <3>2, <3>3 DEF Sound
  <2>3. CASE \E ev \in Events : Process(ev)
    BY <2>1, <2>3, ProcessStep
  <2>4. CASE Commit
    BY <2>1, <2>4, CommitStep
  <2>5. CASE Snapshot
    BY <2>1, <2>5, SnapshotStep
  <2>6. CASE Crash
    BY <2>1, <2>6, CrashStep
  <2>7. CASE LoadImage
    BY <2>1, <2>7, LoadImageStep
  <2>8. CASE EndImages
    BY <1>2, <2>1, <2>8, EndImagesStep
  <2>9. CASE ReadRecord
    BY <2>1, <2>9, ReadRecordStep
  <2>10. CASE Recovered
    BY <2>1, <2>10, RecoveredStep
  <2> QED  BY <2>2, <2>3, <2>4, <2>5, <2>6, <2>7, <2>8, <2>9, <2>10 DEF Next
<1> QED  BY <1>1, <1>2 DEF IInv

\* In every reachable state, as long as no recovery went on from an image that failed
\* half way, the tables of the partition, its images and its log agree.
THEOREM ImageInvariant == Spec => []IInv
BY ImageStart, ImageStep, PTL DEF Spec

\* I11 and I12: for any number of events, images and crashes, and any hash, the state
\* is the one the log stands for.  Whichever image recovery loads and wherever a crash
\* interrupts it, what load_state_image rebuilds and what apply made are the same.
THEOREM StateFollowsLog == Spec => []StateIsTheLogUnlessTainted
<1>1. IInv => StateIsTheLogUnlessTainted
  <2> SUFFICES ASSUME IInv, ~tainted, phase # "load" PROVE Plain(s) = PlainAfter(log)[Held(s)]
    BY DEF StateIsTheLogUnlessTainted, StateIsTheLog
  <2>1. Agrees(s, log)
    BY DEF IInv, Sound, RunOK, ReplayOK
  <2> QED  BY <2>1 DEF Agrees
<1> QED  BY <1>1, ImageInvariant, PTL

\* The index finds each trade at its row and no other: linear probing loses no key,
\* however full the table and however the ids collide, because a closing builds the
\* index again instead of taking keys out of it.
THEOREM IndexFollowsRows == Spec => []IndexMatchesRows
<1>1. IInv => IndexMatchesRows
  <2> SUFFICES ASSUME IInv, ~tainted, phase # "load", NEW t \in Trades
               PROVE  Find(s.index, t) = (IF \E i \in DOMAIN s.rows : s.rows[i] = t
                                          THEN CHOOSE i \in DOMAIN s.rows : s.rows[i] = t ELSE kEmpty)
    BY DEF IndexMatchesRows
  <2>1. RowsOK(s.rows) /\ IndexOK(s.index, s.rows)
    BY DEF IInv, Sound, RunOK, ReplayOK, Agrees, StateOK
  <2>2. PICK r, x : r = s.rows /\ x = s.index
    OBVIOUS
  <2>3. r \in Seq(Trades) /\ DOMAIN r = 1 .. Len(r) /\ \A a, b \in 1 .. Len(r) : r[a] = r[b] => a = b
    BY <2>1, <2>2 DEF RowsOK, Injective
  <2>4. CASE \E i \in DOMAIN r : r[i] = t
    <3>1. PICK j : j = CHOOSE i \in DOMAIN r : r[i] = t
      OBVIOUS
    <3>2. j \in DOMAIN r /\ r[j] = t
      BY <2>4, <3>1
    <3>3. Find(x, r[j]) = j
      BY <2>1, <2>2, <2>3, <3>2 DEF IndexOK
    <3> QED  BY <2>2, <2>4, <3>1, <3>2, <3>3
  <2>5. CASE ~\E i \in DOMAIN r : r[i] = t
    <3>1. ~Has(x, t)
      BY <2>1, <2>2, <2>3, <2>5, Hashed, IndexHas
    <3> QED  BY <2>2, <2>5, <3>1 DEF Has
  <2> QED  BY <2>4, <2>5
<1> QED  BY <1>1, ImageInvariant, PTL

\* A recovery ends with every durable event in the state, whichever image it started
\* from: records up to the image's LSN are skipped, none after it.
THEOREM AckedInState == Spec => []AckedIsInTheState
<1>1. IInv => AckedIsInTheState
  <2> SUFFICES ASSUME IInv, ~tainted, phase = "run", s.halted = "no" PROVE s.lsn >= durable
    BY DEF AckedIsInTheState
  <2>1. s.lsn = Len(log) /\ durable \in Nat /\ durable <= Len(log) /\ log \in Seq(EventSet)
    BY DEF IInv, Sound, RunOK, LogOK
  <2> QED  BY <2>1
<1> QED  BY <1>1, ImageInvariant, PTL
=============================================================================
