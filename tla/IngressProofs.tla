--------------------------- MODULE IngressProofs ---------------------------
(***************************************************************************)
(* Proofs about the ring and the ingress, for any capacity, any number of  *)
(* partitions and connections and whatever the streams hold: the producer  *)
(* and a consumer never meet in a slot, although each decides on a copy of *)
(* the other's cursor that may be old; all partitions see the broadcasts   *)
(* in one order; and each gets every frame that is meant for it, once and  *)
(* in the order of its stream.                                             *)
(***************************************************************************)
EXTENDS Ingress, SequenceTheorems, FiniteSetTheorems, TLAPS

(* The ring. *)

\* A ring by its cursors, whatever its slots hold.
Shaped(r) ==
  /\ r = [head |-> r.head, tail |-> r.tail, tail_cache |-> r.tail_cache,
          head_cache |-> r.head_cache, slots |-> r.slots]
  /\ r.head \in Nat /\ r.tail \in Nat /\ r.tail_cache \in Nat /\ r.head_cache \in Nat

RingOK(r) == Shaped(r) /\ CursorsInOrder(r)

\* Two cursors less than a ring apart are in different slots.
LEMMA DistinctSlots ==
  ASSUME NEW a \in Nat, NEW b \in Nat, a < b, b < a + Capacity
  PROVE  Index(a) # Index(b)
<1> USE RingAssumption
<1> DEFINE qa == a \div Capacity
           qb == b \div Capacity
<1>1. /\ qa \in Int /\ qb \in Int /\ a % Capacity \in Int /\ b % Capacity \in Int
      /\ a = Capacity * qa + (a % Capacity) /\ b = Capacity * qb + (b % Capacity)
  OBVIOUS
<1> HIDE DEF qa, qb
<1> SUFFICES ASSUME a % Capacity = b % Capacity  PROVE FALSE
  BY DEF Index
<1>2. b - a = Capacity * (qb - qa)
  BY <1>1
<1>3. qb - qa >= 1
  BY <1>1, <1>2
<1>4. Capacity * (qb - qa) >= Capacity
  BY <1>1, <1>3
<1> QED  BY <1>2, <1>4

\* claim keeps the cursors in order, and leaves room when it succeeds.
LEMMA ClaimKeeps ==
  ASSUME NEW r, RingOK(r)
  PROVE  /\ RingOK(Claimed(r))
         /\ Claimed(r).head = r.head /\ Claimed(r).tail = r.tail
         /\ Claimed(r).head_cache = r.head_cache
         /\ r.tail_cache <= Claimed(r).tail_cache
         /\ ~ClaimFails(r) => Claimed(r).head - Claimed(r).tail_cache < Capacity
<1> USE RingAssumption DEF RingOK, Shaped, CursorsInOrder
<1>1. CASE LooksFull(r)
  <2>1. Claimed(r) = [head |-> r.head, tail |-> r.tail, tail_cache |-> r.tail,
                      head_cache |-> r.head_cache, slots |-> r.slots]
    BY <1>1 DEF Claimed
  <2> QED  BY <1>1, <2>1 DEF ClaimFails, LooksFull
<1>2. CASE ~LooksFull(r)
  BY <1>2 DEF Claimed, LooksFull, ClaimFails
<1> QED  BY <1>1, <1>2

\* Writing and publishing a claimed slot keeps the cursors in order.
LEMMA PublishKeeps ==
  ASSUME NEW r, NEW item, RingOK(r), r.head - r.tail_cache < Capacity
  PROVE  /\ RingOK(Published(Written(r, item)))
         /\ Published(Written(r, item)).tail = r.tail
         /\ Published(Written(r, item)).head_cache = r.head_cache
<1> USE RingAssumption DEF RingOK, Shaped, CursorsInOrder
<1>1. Published(Written(r, item)) =
        [head |-> r.head + 1, tail |-> r.tail, tail_cache |-> r.tail_cache,
         head_cache |-> r.head_cache, slots |-> [r.slots EXCEPT ![Index(r.head)] = item]]
  <2>1. Written(r, item) =
          [head |-> r.head, tail |-> r.tail, tail_cache |-> r.tail_cache,
           head_cache |-> r.head_cache, slots |-> [r.slots EXCEPT ![Index(r.head)] = item]]
    BY DEF Written
  <2> QED  BY <2>1 DEF Published
<1> QED  BY <1>1

\* peek keeps the cursors in order, and when it succeeds there is a slot to read.
LEMMA PeekKeeps ==
  ASSUME NEW r, RingOK(r)
  PROVE  /\ RingOK(Peeked(r))
         /\ Peeked(r).head = r.head /\ Peeked(r).tail = r.tail
         /\ Peeked(r).tail_cache = r.tail_cache
         /\ ~PeekFails(r) => Peeked(r).tail < Peeked(r).head_cache
<1> USE RingAssumption DEF RingOK, Shaped, CursorsInOrder
<1>1. CASE LooksEmpty(r)
  <2>1. Peeked(r) = [head |-> r.head, tail |-> r.tail, tail_cache |-> r.tail_cache,
                     head_cache |-> r.head, slots |-> r.slots]
    BY <1>1 DEF Peeked
  <2> QED  BY <1>1, <2>1 DEF PeekFails, LooksEmpty
<1>2. CASE ~LooksEmpty(r)
  BY <1>2 DEF Peeked, LooksEmpty, PeekFails
<1> QED  BY <1>1, <1>2

\* Popping a slot that was peeked keeps the cursors in order.
LEMMA PopKeeps ==
  ASSUME NEW r, RingOK(r), r.tail < r.head_cache
  PROVE  /\ RingOK(Popped(r))
         /\ Popped(r).head = r.head /\ Popped(r).tail_cache = r.tail_cache
<1> USE RingAssumption DEF RingOK, Shaped, CursorsInOrder
<1>1. Popped(r) = [head |-> r.head, tail |-> r.tail + 1, tail_cache |-> r.tail_cache,
                   head_cache |-> r.head_cache, slots |-> r.slots]
  BY DEF Popped
<1> QED  BY <1>1

-----------------------------------------------------------------------------
(* The ingress. *)

\* The call of feed in progress is a record; nothing is asked of what it carries.
FeedShaped ==
  feed = [source |-> feed.source, retry |-> feed.retry, failed |-> feed.failed, targets |-> feed.targets]

\* The inductive invariant: besides what RingsSafe says of the cursors, a slot that was
\* claimed and is not yet published is free as far as the producer's own copy of tail
\* tells, so that publishing needs no second look.
RInv ==
  /\ inbox = [p \in Partitions |-> inbox[p]]
  /\ FeedShaped
  /\ \A p \in Partitions :
       /\ RingOK(inbox[p])
       /\ p \in feed.targets => inbox[p].head - inbox[p].tail_cache < Capacity
       /\ p \in reading => inbox[p].tail < inbox[p].head_cache

\* At first every ring is empty and nothing is claimed or read.
LEMMA RingsInit == Init => RInv
<1> SUFFICES ASSUME Init  PROVE RInv
  OBVIOUS
<1>1. RingOK(EmptyRing)
  BY RingAssumption DEF RingOK, Shaped, CursorsInOrder, EmptyRing
<1> QED  BY <1>1 DEF Init, RInv, FeedShaped, Idle

\* A step that leaves inboxes and readers alone, and claims nothing.
LEMMA RingsLeftAlone ==
  ASSUME RInv, inbox' = inbox, reading' = reading, FeedShaped', feed'.targets \in {{}, feed.targets}
  PROVE  RInv'
  BY DEF RInv

\* Every step of the serving thread, a far end or a partition keeps the invariant.
LEMMA RingsNext == RInv /\ [Next]_vars => RInv'
<1> SUFFICES ASSUME RInv, [Next]_vars  PROVE RInv'
  OBVIOUS
<1> USE DEF inboxVars, threadVars
<1>1. CASE \E c \in Clients : Connect(c) \/ Send(c) \/ \E how \in {"closed", "broken"} : Leave(c, how)
  <2>1. inbox' = inbox /\ reading' = reading /\ feed' = feed
    BY <1>1, Zenon DEF Connect, Send, Leave
  <2> QED  BY <2>1, RingsLeftAlone DEF RInv, FeedShaped
<1>2. CASE Stop \/ PollIdle \/ Poll \/ Served \/ Blocked \/ Events \/ Close
  <2>1. inbox' = inbox /\ reading' = reading /\ feed' = feed
    BY <1>2, Zenon DEF Stop, PollIdle, Poll, Served, Blocked, Events, Close
  <2> QED  BY <2>1, RingsLeftAlone DEF RInv, FeedShaped
<1>3. CASE Ingest \/ Serve \/ Recv \/ FeedReturns \/ FeedMalformed
  <2>1. /\ inbox' = inbox /\ reading' = reading
        /\ feed' \in {feed, Idle} \/ \E s, retry : feed' = Feed(s, retry)
    <3>1. CASE Ingest
      BY <3>1, Zenon DEF Ingest
    <3>2. CASE Serve
      BY <3>2, Zenon DEF Serve, Retry
    <3>3. CASE Recv
      BY <3>3, Zenon DEF Recv
    <3>4. CASE FeedReturns \/ FeedMalformed
      BY <3>4, Zenon DEF FeedReturns, FeedMalformed
    <3> QED  BY <1>3, <3>1, <3>2, <3>3, <3>4
  <2>2. FeedShaped' /\ feed'.targets \in {{}, feed.targets}
    <3>1. CASE feed' = feed
      BY <3>1 DEF RInv, FeedShaped
    <3>2. CASE feed' = Idle
      BY <3>2 DEF Idle, FeedShaped
    <3>3. CASE \E s, retry : feed' = Feed(s, retry)
      BY <3>3 DEF Feed, FeedShaped
    <3> QED  BY <2>1, <3>1, <3>2, <3>3
  <2> QED  BY <2>1, <2>2, RingsLeftAlone
<1>4. CASE FeedUnknown
  <2>1. inbox' = inbox /\ reading' = reading /\ feed' = [feed EXCEPT !.failed = TRUE]
    BY <1>4 DEF FeedUnknown
  <2>2. FeedShaped' /\ feed'.targets = feed.targets
    BY <2>1 DEF RInv, FeedShaped
  <2> QED  BY <2>1, <2>2, RingsLeftAlone
<1>5. CASE FeedDispatch
  <2> DEFINE ps == ClaimedTargets(Frame(feed.source))
             full == {p \in ps : ClaimFails(inbox[p])}
             tried == {p \in ps : \A q \in full : p <= q}
  <2>1. /\ inbox' = [p \in Partitions |-> IF p \in tried THEN Claimed(inbox[p]) ELSE inbox[p]]
        /\ reading' = reading
        /\ \/ full = {} /\ feed' = [feed EXCEPT !.targets = ps]
           \/ feed' = Idle
    BY <1>5, Zenon DEF FeedDispatch
  <2>2. \/ FeedShaped' /\ feed'.targets = {}
        \/ FeedShaped' /\ feed'.targets = ps /\ full = {}
    <3> HIDE DEF ps, full, tried
    <3> QED  BY <2>1 DEF RInv, FeedShaped, Idle
  <2>3. ASSUME NEW p \in Partitions
        PROVE  /\ RingOK(inbox'[p])
               /\ p \in feed'.targets => inbox'[p].head - inbox'[p].tail_cache < Capacity
               /\ p \in reading' => inbox'[p].tail < inbox'[p].head_cache
    <3>1. inbox'[p] \in {inbox[p], Claimed(inbox[p])}
      BY <2>1
    <3>2. RingOK(inbox'[p]) /\ inbox'[p].tail = inbox[p].tail /\ inbox'[p].head_cache = inbox[p].head_cache
      BY <3>1, ClaimKeeps DEF RInv
    <3>3. ASSUME p \in feed'.targets
          PROVE  inbox'[p].head - inbox'[p].tail_cache < Capacity
      <4>1. p \in ps /\ full = {}
        BY <2>2, <3>3
      <4>2. ~ClaimFails(inbox[p]) /\ p \in tried
        BY <4>1
      <4>3. inbox'[p] = Claimed(inbox[p])
        BY <2>1, <4>2
      <4> QED  BY <4>2, <4>3, ClaimKeeps DEF RInv
    <3> QED  BY <2>1, <3>2, <3>3 DEF RInv
  <2> QED  BY <2>1, <2>2, <2>3 DEF RInv
<1>6. CASE FeedPublish
  <2>1. PICK q \in feed.targets :
          /\ inbox' = [inbox EXCEPT ![q] = Published(Written(@, Item(feed.source)))]
          /\ feed' = [feed EXCEPT !.targets = @ \ {q}]
    BY <1>6 DEF FeedPublish
  <2>2. reading' = reading
    BY <1>6 DEF FeedPublish
  <2>3. FeedShaped' /\ feed'.targets = feed.targets \ {q}
    BY <2>1 DEF RInv, FeedShaped
  <2>4. inbox' = [p \in Partitions |->
                    IF p = q THEN Published(Written(inbox[p], Item(feed.source))) ELSE inbox[p]]
    BY <2>1 DEF RInv
  <2>5. ASSUME NEW p \in Partitions
        PROVE  /\ RingOK(inbox'[p])
               /\ p \in feed'.targets => inbox'[p].head - inbox'[p].tail_cache < Capacity
               /\ p \in reading' => inbox'[p].tail < inbox'[p].head_cache
    <3>1. CASE p = q
      <4>1. inbox'[p] = Published(Written(inbox[p], Item(feed.source)))
        BY <2>4, <3>1
      <4> QED  BY <2>2, <2>3, <3>1, <4>1, PublishKeeps DEF RInv
    <3>2. CASE p # q
      BY <2>2, <2>3, <2>4, <3>2 DEF RInv
    <3> QED  BY <3>1, <3>2
  <2> QED  BY <2>3, <2>4, <2>5 DEF RInv
<1>7. ASSUME NEW q \in Partitions, Peek(q)  PROVE RInv'
  <2>1. /\ inbox' = [p \in Partitions |-> IF p = q THEN Peeked(inbox[p]) ELSE inbox[p]]
        /\ reading' = IF PeekFails(inbox[q]) THEN reading ELSE reading \cup {q}
        /\ feed' = feed /\ q \notin reading
    BY <1>7 DEF Peek, RInv
  <2>2. ASSUME NEW p \in Partitions
        PROVE  /\ RingOK(inbox'[p])
               /\ p \in feed'.targets => inbox'[p].head - inbox'[p].tail_cache < Capacity
               /\ p \in reading' => inbox'[p].tail < inbox'[p].head_cache
    BY <2>1, PeekKeeps DEF RInv
  <2> QED  BY <2>1, <2>2 DEF RInv, FeedShaped
<1>8. ASSUME NEW q \in Partitions, Pop(q)  PROVE RInv'
  <2>1. /\ inbox' = [p \in Partitions |-> IF p = q THEN Popped(inbox[p]) ELSE inbox[p]]
        /\ reading' = reading \ {q} /\ q \in reading /\ feed' = feed
    BY <1>8 DEF Pop, RInv
  <2>2. ASSUME NEW p \in Partitions
        PROVE  /\ RingOK(inbox'[p])
               /\ p \in feed'.targets => inbox'[p].head - inbox'[p].tail_cache < Capacity
               /\ p \in reading' => inbox'[p].tail < inbox'[p].head_cache
    BY <2>1, PopKeeps DEF RInv
  <2> QED  BY <2>1, <2>2 DEF RInv, FeedShaped
<1>9. CASE \E q \in Partitions : Halt(q)
  <2>1. inbox' = inbox /\ reading' = reading /\ feed' = feed
    BY <1>9 DEF Halt
  <2> QED  BY <2>1, RingsLeftAlone DEF RInv, FeedShaped
<1>10. CASE UNCHANGED vars
  <2>1. inbox' = inbox /\ reading' = reading /\ feed' = feed
    BY <1>10 DEF vars
  <2> QED  BY <2>1, RingsLeftAlone DEF RInv, FeedShaped
<1> QED
  BY <1>1, <1>2, <1>3, <1>4, <1>5, <1>6, <1>7, <1>8, <1>9, <1>10 DEF Next, Server

\* The serving thread never writes the slot a partition is reading, and neither side
\* is ever ahead of what its copy of the other's cursor allows.
THEOREM IngressRingsSafe == Spec => []RingsSafe
<1>1. RInv => RingsSafe
  <2> SUFFICES ASSUME RInv, NEW p \in Partitions
               PROVE  /\ CursorsInOrder(inbox[p])
                      /\ p \in reading => inbox[p].tail < inbox[p].head_cache
                      /\ p \in reading /\ p \in feed.targets =>
                           Index(inbox[p].head) # Index(inbox[p].tail)
    BY DEF RingsSafe
  <2>1. CursorsInOrder(inbox[p]) /\ (p \in reading => inbox[p].tail < inbox[p].head_cache)
    BY DEF RInv, RingOK
  <2>2. ASSUME p \in reading, p \in feed.targets
        PROVE  Index(inbox[p].head) # Index(inbox[p].tail)
    <3>1. /\ inbox[p].head \in Nat /\ inbox[p].tail \in Nat
          /\ inbox[p].tail < inbox[p].head /\ inbox[p].head < inbox[p].tail + Capacity
      BY <2>2, RingAssumption DEF RInv, RingOK, Shaped, CursorsInOrder
    <3> QED  BY <3>1, DistinctSlots
  <2> QED  BY <2>1, <2>2
<1> QED  BY <1>1, RingsInit, RingsNext, PTL DEF Spec

-----------------------------------------------------------------------------
(* What the partitions are sent. *)

\* A sequence, of whatever it holds: frames are not told apart by their type.
IsSeq(h) == \E X : h \in Seq(X)

\* Appending to a sequence.
LEMMA AppendedSeq ==
  ASSUME NEW h, IsSeq(h), NEW x
  PROVE  /\ IsSeq(Append(h, x)) /\ Len(h) \in Nat /\ DOMAIN h = 1 .. Len(h)
         /\ DOMAIN Append(h, x) = 1 .. Len(h) + 1
         /\ Append(h, x)[Len(h) + 1] = x
         /\ \A i \in 1 .. Len(h) : Append(h, x)[i] = h[i]
<1>1. PICK X : h \in Seq(X)
  BY DEF IsSeq
<1>2. PICK Y : Y = X \cup {x}
  OBVIOUS
<1>3. h \in Seq(Y) /\ x \in Y
  BY <1>1, <1>2
<1>4. Append(h, x) \in Seq(Y) /\ Len(Append(h, x)) = Len(h) + 1
  BY <1>3
<1> QED  BY <1>3, <1>4 DEF IsSeq

\* Two sequences in a row.
LEMMA JoinedSeq ==
  ASSUME NEW g, NEW h, IsSeq(g), IsSeq(h)
  PROVE  /\ IsSeq(g \o h) /\ Len(g) \in Nat /\ Len(h) \in Nat /\ Len(g \o h) = Len(g) + Len(h)
         /\ \A i \in 1 .. Len(g) + Len(h) : (g \o h)[i] = IF i <= Len(g) THEN g[i] ELSE h[i - Len(g)]
<1>1. PICK X, Y : g \in Seq(X) /\ h \in Seq(Y)
  BY DEF IsSeq
<1>2. PICK Z : Z = X \cup Y
  OBVIOUS
<1>3. g \in Seq(Z) /\ h \in Seq(Z)
  BY <1>1, <1>2
<1>4. g \o h \in Seq(Z)
  BY <1>3
<1> QED  BY <1>3, <1>4 DEF IsSeq

\* Sequences that agree at every position are the same.
LEMMA SameSeq ==
  ASSUME NEW g, NEW h, IsSeq(g), IsSeq(h), Len(g) = Len(h), \A i \in 1 .. Len(g) : g[i] = h[i]
  PROVE  g = h
<1>1. PICK X, Y : g \in Seq(X) /\ h \in Seq(Y)
  BY DEF IsSeq
<1>2. PICK Z : Z = X \cup Y
  OBVIOUS
<1>3. g \in Seq(Z) /\ h \in Seq(Z)
  BY <1>1, <1>2
<1> QED  BY <1>3

\* Appending to the second of two is appending to both.
LEMMA JoinedAppend ==
  ASSUME NEW g, NEW h, NEW x, IsSeq(g), IsSeq(h)
  PROVE  g \o Append(h, x) = Append(g \o h, x)
<1>1. PICK X, Y : g \in Seq(X) /\ h \in Seq(Y)
  BY DEF IsSeq
<1>2. PICK Z : Z = X \cup Y \cup {x}
  OBVIOUS
<1>3. g \in Seq(Z) /\ h \in Seq(Z) /\ x \in Z
  BY <1>1, <1>2
<1> QED  BY <1>3

\* A function over the first n numbers is a sequence of length n.
LEMMA CountedSeq ==
  ASSUME NEW n \in Nat, NEW h, DOMAIN h = 1 .. n, h = [i \in 1 .. n |-> h[i]]
  PROVE  IsSeq(h) /\ Len(h) = n
<1>1. PICK X : X = {h[i] : i \in 1 .. n}
  OBVIOUS
<1>2. h \in [1 .. n -> X]
  BY <1>1
<1>3. h \in Seq(X)
  BY <1>2
<1> QED  BY <1>3 DEF IsSeq

\* The slots of a ring.
Slotted(r) == r.slots = [i \in 0 .. Capacity - 1 |-> r.slots[i]]

\* What a ring holds is a sequence.
LEMMA ContentsSeq ==
  ASSUME NEW r, RingOK(r)
  PROVE  /\ IsSeq(Contents(r)) /\ Len(Contents(r)) = r.head - r.tail
         /\ r.head - r.tail \in Nat
         /\ \A i \in 1 .. r.head - r.tail : Contents(r)[i] = r.slots[Index(r.tail + i - 1)]
<1>1. r.head - r.tail \in Nat
  BY DEF RingOK, Shaped, CursorsInOrder
<1> QED  BY <1>1, CountedSeq DEF Contents

\* Claiming and peeking leave the contents alone.
LEMMA LookingKeeps ==
  ASSUME NEW r, RingOK(r), Slotted(r)
  PROVE  /\ Contents(Claimed(r)) = Contents(r) /\ Slotted(Claimed(r))
         /\ Contents(Peeked(r)) = Contents(r) /\ Slotted(Peeked(r))
<1>1. /\ Claimed(r).slots = r.slots /\ Claimed(r).head = r.head /\ Claimed(r).tail = r.tail
      /\ Peeked(r).slots = r.slots /\ Peeked(r).head = r.head /\ Peeked(r).tail = r.tail
  BY DEF RingOK, Shaped, Claimed, Peeked
<1> QED  BY <1>1, Zenon DEF Contents, Slotted

\* Publishing adds the item at the end: the slot it is written to holds nothing that
\* is still in the ring.
LEMMA PublishAppends ==
  ASSUME NEW r, NEW item, RingOK(r), Slotted(r), r.head - r.tail_cache < Capacity
  PROVE  /\ Contents(Published(Written(r, item))) = Append(Contents(r), item)
         /\ Slotted(Published(Written(r, item)))
<1> USE RingAssumption
<1>1. PICK n : n = Published(Written(r, item))
  OBVIOUS
<1>2. PICK k : k = Index(r.head)
  OBVIOUS
<1>3. /\ r.head \in Nat /\ r.tail \in Nat /\ r.tail <= r.head /\ r.head < r.tail + Capacity
      /\ k \in 0 .. Capacity - 1
  BY <1>2 DEF RingOK, Shaped, CursorsInOrder, Index
<1>4. n.head = r.head + 1 /\ n.tail = r.tail /\ n.slots = [r.slots EXCEPT ![k] = item]
  BY <1>1, <1>2 DEF RingOK, Shaped, Published, Written
<1>5. /\ n.slots = [i \in 0 .. Capacity - 1 |-> IF i = k THEN item ELSE r.slots[i]]
      /\ Slotted(n)
  BY <1>3, <1>4 DEF Slotted
<1>6. RingOK(n)
  BY <1>1, PublishKeeps
<1>7. /\ IsSeq(Contents(n)) /\ Len(Contents(n)) = r.head - r.tail + 1
      /\ \A i \in 1 .. r.head - r.tail + 1 : Contents(n)[i] = n.slots[Index(r.tail + i - 1)]
  <2>1. n.head - n.tail = r.head - r.tail + 1
    BY <1>3, <1>4
  <2>2. /\ IsSeq(Contents(n)) /\ Len(Contents(n)) = n.head - n.tail
        /\ \A i \in 1 .. n.head - n.tail : Contents(n)[i] = n.slots[Index(n.tail + i - 1)]
    BY <1>6, ContentsSeq
  <2> QED  BY <1>4, <2>1, <2>2, Zenon
<1>8. /\ IsSeq(Append(Contents(r), item)) /\ Len(Append(Contents(r), item)) = r.head - r.tail + 1
  <2>1. IsSeq(Contents(r)) /\ Len(Contents(r)) = r.head - r.tail /\ r.head - r.tail \in Nat
    BY ContentsSeq
  <2>2. PICK c : c = Contents(r)
    OBVIOUS
  <2>3. IsSeq(Append(c, item)) /\ Len(Append(c, item)) = Len(c) + 1
    <3>1. PICK X : c \in Seq(X)
      BY <2>1, <2>2 DEF IsSeq
    <3>2. PICK Y : Y = X \cup {item}
      OBVIOUS
    <3>3. c \in Seq(Y) /\ item \in Y
      BY <3>1, <3>2
    <3> QED  BY <3>3, <2>1, <2>2, AppendedSeq
  <2> QED  BY <2>1, <2>2, <2>3
<1>9. ASSUME NEW i \in 1 .. r.head - r.tail + 1
      PROVE  Contents(n)[i] = Append(Contents(r), item)[i]
  <2>1. PICK j : j = r.tail + i - 1
    OBVIOUS
  <2>2. j \in Nat /\ r.tail <= j /\ j <= r.head
    BY <1>3, <2>1
  <2>3. Index(j) \in 0 .. Capacity - 1
    BY <2>2 DEF Index
  <2>4. Contents(n)[i] = n.slots[Index(j)]
    BY <1>7, <2>1
  <2>5. CASE i = r.head - r.tail + 1
    <3>1. j = r.head
      BY <1>3, <2>1, <2>5
    <3>2. Contents(n)[i] = item
      BY <1>2, <1>5, <2>3, <2>4, <3>1
    <3> QED  BY <2>5, <3>2, ContentsSeq, AppendedSeq
  <2>6. CASE i # r.head - r.tail + 1
    <3>1. i \in 1 .. r.head - r.tail /\ j < r.head /\ r.head < j + Capacity
      BY <1>3, <2>1, <2>2, <2>6
    <3>2. Index(j) # k
      BY <1>2, <1>3, <2>2, <3>1, DistinctSlots
    <3>3. Contents(n)[i] = r.slots[Index(j)]
      BY <1>5, <2>3, <2>4, <3>2
    <3>4. Contents(r)[i] = r.slots[Index(j)]
      BY <3>1, <2>1, ContentsSeq
    <3>5. Append(Contents(r), item)[i] = Contents(r)[i]
      BY <3>1, ContentsSeq, AppendedSeq
    <3> QED  BY <3>3, <3>4, <3>5
  <2> QED  BY <2>5, <2>6
<1> QED  BY <1>1, <1>5, <1>7, <1>8, <1>9, SameSeq

\* Popping takes the oldest item off.
LEMMA PopShifts ==
  ASSUME NEW r, NEW g, RingOK(r), Slotted(r), r.tail < r.head_cache, IsSeq(g)
  PROVE  /\ Append(g, Oldest(r)) \o Contents(Popped(r)) = g \o Contents(r)
         /\ Slotted(Popped(r))
<1> USE RingAssumption
<1>1. PICK n : n = Popped(r)
  OBVIOUS
<1>2. /\ n.head = r.head /\ n.tail = r.tail + 1 /\ n.slots = r.slots
      /\ r.head \in Nat /\ r.tail \in Nat /\ r.tail < r.head
  BY <1>1 DEF RingOK, Shaped, CursorsInOrder, Popped
<1>3. RingOK(n) /\ Slotted(n)
  BY <1>1, <1>2, PopKeeps DEF Slotted
<1>4. PICK a, c, d : a = Append(g, Oldest(r)) /\ c = Contents(n) /\ d = Contents(r)
  OBVIOUS
<1>5. /\ IsSeq(c) /\ Len(c) = r.head - r.tail - 1
      /\ \A i \in 1 .. r.head - r.tail - 1 : c[i] = r.slots[Index(r.tail + i)]
  <2>1. n.head - n.tail = r.head - r.tail - 1
    BY <1>2
  <2>2. /\ IsSeq(c) /\ Len(c) = n.head - n.tail
        /\ \A i \in 1 .. n.head - n.tail : c[i] = n.slots[Index(n.tail + i - 1)]
    BY <1>3, <1>4, ContentsSeq
  <2>3. IsSeq(c) /\ Len(c) = r.head - r.tail - 1
    BY <2>1, <2>2, Zenon
  <2>4. ASSUME NEW i \in 1 .. r.head - r.tail - 1
        PROVE  c[i] = r.slots[Index(r.tail + i)]
    <3>1. i \in 1 .. n.head - n.tail /\ n.tail + i - 1 = r.tail + i
      BY <1>2, <2>1
    <3>2. c[i] = n.slots[Index(n.tail + i - 1)]
      BY <2>2, <3>1
    <3> QED  BY <1>2, <3>1, <3>2, Zenon
  <2> QED  BY <2>3, <2>4
<1>6. /\ IsSeq(d) /\ Len(d) = r.head - r.tail
      /\ \A i \in 1 .. r.head - r.tail : d[i] = r.slots[Index(r.tail + i - 1)]
  BY <1>4, ContentsSeq
<1>7. /\ IsSeq(a) /\ Len(g) \in Nat /\ a[Len(g) + 1] = Oldest(r) /\ \A i \in 1 .. Len(g) : a[i] = g[i]
      /\ DOMAIN a = 1 .. Len(g) + 1
  BY <1>4, AppendedSeq
<1>8. Len(a) = Len(g) + 1
  <2>1. PICK X : a \in Seq(X)
    BY <1>7 DEF IsSeq
  <2>2. DOMAIN a = 1 .. Len(a) /\ Len(a) \in Nat
    BY <2>1
  <2> QED  BY <1>7, <2>2
<1>9. /\ IsSeq(a \o c) /\ IsSeq(g \o d) /\ Len(a \o c) = Len(g) + Len(d) /\ Len(g \o d) = Len(g) + Len(d)
  <2>1. Len(a \o c) = Len(a) + Len(c) /\ Len(g \o d) = Len(g) + Len(d) /\ IsSeq(a \o c) /\ IsSeq(g \o d)
    BY <1>5, <1>6, <1>7, JoinedSeq
  <2>2. Len(a) + Len(c) = Len(g) + Len(d)
    BY <1>2, <1>5, <1>6, <1>7, <1>8
  <2> QED  BY <2>1, <2>2
<1>10. ASSUME NEW i \in 1 .. Len(g) + Len(d)
       PROVE  (a \o c)[i] = (g \o d)[i]
  <2>1. (a \o c)[i] = IF i <= Len(g) + 1 THEN a[i] ELSE c[i - (Len(g) + 1)]
    BY <1>2, <1>5, <1>6, <1>7, <1>8, JoinedSeq, SMTT(40)
  <2>2. (g \o d)[i] = IF i <= Len(g) THEN g[i] ELSE d[i - Len(g)]
    BY <1>6, <1>7, JoinedSeq
  <2>3. CASE i <= Len(g)
    BY <1>7, <2>1, <2>2, <2>3
  <2>4. CASE i = Len(g) + 1
    <3>1. (g \o d)[i] = d[1]
      BY <1>7, <2>2, <2>4
    <3>2. d[1] = r.slots[Index(r.tail)]
      <4>1. 1 \in 1 .. r.head - r.tail /\ r.tail + 1 - 1 = r.tail
        BY <1>2
      <4> QED  BY <1>6, <4>1
    <3> QED  BY <1>7, <2>1, <2>4, <3>1, <3>2 DEF Oldest
  <2>5. CASE i > Len(g) + 1
    <3>1. PICK k : k = i - Len(g)
      OBVIOUS
    <3>2. k \in 1 .. r.head - r.tail /\ k - 1 \in 1 .. r.head - r.tail - 1 /\ i - (Len(g) + 1) = k - 1
      BY <1>2, <1>6, <1>7, <2>5, <3>1, SMTT(40)
    <3>3. (a \o c)[i] = c[k - 1] /\ (g \o d)[i] = d[k]
      BY <1>7, <2>1, <2>2, <2>5, <3>1, <3>2
    <3>4. c[k - 1] = r.slots[Index(r.tail + (k - 1))]
      BY <1>5, <3>2
    <3>5. d[k] = r.slots[Index(r.tail + k - 1)] /\ r.tail + k - 1 = r.tail + (k - 1)
      BY <1>2, <1>6, <3>2
    <3> QED  BY <3>3, <3>4, <3>5, Zenon
  <2>6. i <= Len(g) \/ i = Len(g) + 1 \/ i > Len(g) + 1
    BY <1>7
  <2> QED  BY <2>3, <2>4, <2>5, <2>6, Zenon
<1> QED  BY <1>1, <1>3, <1>4, <1>9, <1>10, SameSeq

-----------------------------------------------------------------------------
(* The broadcasts in what a partition was sent. *)

\* Where they are in h, and how many come before position i; sc is the script.
Seen(h, sc) == {i \in DOMAIN h : sc[h[i][1]][h[i][2]].kind = "broadcast"}
Rank(h, sc, i) == Cardinality({k \in Seen(h, sc) : k < i})

\* h has the first n broadcasts of b, in the order of b.
Follows(h, sc, b, n) ==
  /\ Cardinality(Seen(h, sc)) = n
  /\ \A i \in Seen(h, sc) : h[i] = b[Rank(h, sc, i) + 1]

\* The broadcasts of a history are finitely many, and each has fewer before it.
LEMMA SeenFinite ==
  ASSUME NEW h, NEW sc, IsSeq(h)
  PROVE  /\ IsFiniteSet(Seen(h, sc)) /\ Cardinality(Seen(h, sc)) \in Nat
         /\ \A i \in Seen(h, sc) : Rank(h, sc, i) \in Nat /\ Rank(h, sc, i) < Cardinality(Seen(h, sc))
<1>1. DOMAIN h = 1 .. Len(h) /\ Len(h) \in Nat
  BY AppendedSeq
<1>2. IsFiniteSet(1 .. Len(h))
  BY <1>1, FS_Interval
<1>3. PICK S : S = Seen(h, sc)
  OBVIOUS
<1>4. S \subseteq 1 .. Len(h)
  BY <1>1, <1>3 DEF Seen
<1>5. IsFiniteSet(S) /\ Cardinality(S) \in Nat
  BY <1>2, <1>4, FS_Subset, FS_CardinalityType
<1>6. ASSUME NEW i \in S
      PROVE  Rank(h, sc, i) \in Nat /\ Rank(h, sc, i) < Cardinality(S)
  <2>1. PICK R : R = {k \in S : k < i}
    OBVIOUS
  <2>2. i \in Int /\ R \subseteq S \ {i}
    BY <1>1, <1>4, <2>1
  <2>3. IsFiniteSet(S \ {i}) /\ Cardinality(S \ {i}) = Cardinality(S) - 1
    BY <1>5, FS_RemoveElement
  <2>4. IsFiniteSet(R) /\ Cardinality(R) \in Nat /\ Cardinality(R) <= Cardinality(S \ {i})
    BY <2>2, <2>3, FS_Subset, FS_CardinalityType
  <2>5. Rank(h, sc, i) = Cardinality(R)
    BY <1>3, <2>1, Zenon DEF Rank
  <2> QED  BY <1>5, <2>3, <2>4, <2>5
<1> QED  BY <1>3, <1>5, <1>6

\* What comes before a position does not change when h grows, and the new item comes
\* after all of h.
LEMMA FollowsAppend ==
  ASSUME NEW h, NEW sc, NEW b, NEW n, NEW x, IsSeq(h), Follows(h, sc, b, n)
  PROVE  /\ sc[x[1]][x[2]].kind # "broadcast" => Follows(Append(h, x), sc, b, n)
         /\ sc[x[1]][x[2]].kind = "broadcast" /\ b[n + 1] = x => Follows(Append(h, x), sc, b, n + 1)
<1>1. PICK g, S, T, e : g = Append(h, x) /\ S = Seen(h, sc) /\ T = Seen(g, sc) /\ e = Len(h) + 1
  OBVIOUS
<1>2. /\ IsSeq(g) /\ e - 1 \in Nat /\ e \in Nat /\ DOMAIN h = 1 .. e - 1 /\ DOMAIN g = 1 .. e
      /\ g[e] = x /\ \A i \in 1 .. e - 1 : g[i] = h[i]
  BY <1>1, AppendedSeq
<1>3. /\ T \subseteq 1 .. e /\ S \subseteq 1 .. e - 1 /\ e \notin S
      /\ \A i \in 1 .. e - 1 : i \in T <=> i \in S
      /\ e \in T <=> sc[x[1]][x[2]].kind = "broadcast"
  <2>1. e \in 1 .. e /\ e \notin 1 .. e - 1 /\ \A i \in 1 .. e - 1 : i \in 1 .. e
    BY <1>2
  <2>2. S = {i \in 1 .. e - 1 : sc[h[i][1]][h[i][2]].kind = "broadcast"}
    BY <1>1, <1>2, Zenon DEF Seen
  <2>3. T = {i \in 1 .. e : sc[g[i][1]][g[i][2]].kind = "broadcast"}
    BY <1>1, <1>2, Zenon DEF Seen
  <2>4. T \subseteq 1 .. e /\ S \subseteq 1 .. e - 1 /\ e \notin S
    BY <2>1, <2>2, <2>3, Zenon
  <2>5. ASSUME NEW i \in 1 .. e - 1  PROVE i \in T <=> i \in S
    <3>1. g[i] = h[i] /\ i \in 1 .. e
      BY <1>2, <2>1
    <3> QED  BY <2>2, <2>3, <3>1, Zenon
  <2>6. e \in T <=> sc[x[1]][x[2]].kind = "broadcast"
    BY <1>2, <2>1, <2>3, Zenon
  <2> QED  BY <2>4, <2>5, <2>6
<1>4. IsFiniteSet(S) /\ Cardinality(S) = n /\ n \in Nat
  BY <1>1, SeenFinite DEF Follows
<1>5. /\ \A i \in T : i = e \/ i \in S
      /\ \A i \in S : i \in T /\ i # e /\ i < e
      /\ \A i \in T : i < e => i \in S
      /\ ~(e < e)
  <2>1. \A i \in 1 .. e : i = e \/ i \in 1 .. e - 1
    BY <1>2
  <2>2. \A i \in 1 .. e - 1 : i # e /\ i < e
    BY <1>2
  <2>3. ~(e < e)
    BY <1>2
  <2> QED  BY <1>3, <2>1, <2>2, <2>3
<1>6. ASSUME NEW i \in S
      PROVE  i \in T /\ g[i] = b[Rank(g, sc, i) + 1]
  <2>1. i \in 1 .. e - 1 /\ i \in T /\ g[i] = h[i]
    BY <1>2, <1>3
  <2>2. \A k \in 1 .. e : k < i => k \in 1 .. e - 1
    BY <1>2, <2>1
  <2>3. {k \in T : k < i} = {k \in S : k < i}
    BY <1>2, <1>3, <2>2
  <2>4. Rank(g, sc, i) = Rank(h, sc, i)
    BY <1>1, <2>3, Zenon DEF Rank
  <2> QED  BY <1>1, <2>1, <2>4 DEF Follows
<1>7. ASSUME sc[x[1]][x[2]].kind # "broadcast"
      PROVE  Follows(g, sc, b, n)
  <2>1. T = S
    BY <1>3, <1>5, <1>7, Zenon
  <2> QED  BY <1>1, <1>4, <1>6, <2>1 DEF Follows
<1>8. ASSUME sc[x[1]][x[2]].kind = "broadcast", b[n + 1] = x
      PROVE  Follows(g, sc, b, n + 1)
  <2>1. T = S \cup {e}
    BY <1>3, <1>5, <1>8, Zenon
  <2>2. Cardinality(T) = n + 1
    BY <1>3, <1>4, <2>1, FS_AddElement
  <2>3. {k \in T : k < e} = S
    BY <1>5, Zenon
  <2>4. Rank(g, sc, e) = n
    BY <1>1, <1>4, <2>3, Zenon DEF Rank
  <2>5. ASSUME NEW i \in T  PROVE g[i] = b[Rank(g, sc, i) + 1]
    <3>1. CASE i = e
      BY <1>2, <1>8, <2>4, <3>1
    <3>2. CASE i # e
      BY <1>6, <2>1, <3>2
    <3> QED  BY <3>1, <3>2
  <2> QED  BY <1>1, <2>2, <2>5 DEF Follows
<1> QED  BY <1>1, <1>7, <1>8

\* A longer list of broadcasts says the same of the ones that were there.
LEMMA FollowsMore ==
  ASSUME NEW h, NEW sc, NEW b, NEW c, NEW n, IsSeq(h), Follows(h, sc, b, n),
         \A k \in 1 .. n : c[k] = b[k]
  PROVE  Follows(h, sc, c, n)
<1>1. ASSUME NEW i \in Seen(h, sc)  PROVE h[i] = c[Rank(h, sc, i) + 1]
  <2>1. Rank(h, sc, i) \in Nat /\ Rank(h, sc, i) < n /\ n \in Nat
    BY SeenFinite DEF Follows
  <2>2. Rank(h, sc, i) + 1 \in 1 .. n
    BY <2>1
  <2> QED  BY <2>2 DEF Follows
<1> QED  BY <1>1 DEF Follows

-----------------------------------------------------------------------------
(* All partitions see the broadcasts in one order. *)

\* What was received is a sequence per partition, and slots are claimed only while feed runs.
Sent ==
  /\ received = [p \in Partitions |-> received[p]]
  /\ \A p \in Partitions : IsSeq(received[p]) /\ Slotted(inbox[p])
  /\ feed.targets # {} => pc = "feed"

\* A broadcast is half way: claimed everywhere, published to some.
Broadcasting == feed.targets # {} /\ Frame(feed.source).kind = "broadcast"

\* One list of broadcasts underlies all histories: every partition has all of it, but
\* for the one being published, which the remaining targets still wait for.
InStep ==
  \E n \in Nat : \E b :
    /\ Broadcasting => n >= 1 /\ b[n] = Item(feed.source)
    /\ \A p \in Partitions :
         Follows(History(p), script, b, IF Broadcasting /\ p \in feed.targets THEN n - 1 ELSE n)

\* At first nothing was sent.
LEMMA BroadcastInit == Init => Sent /\ InStep
<1> SUFFICES ASSUME Init  PROVE Sent /\ InStep
  OBVIOUS
<1>1. /\ received = [p \in Partitions |-> <<>>] /\ feed.targets = {}
      /\ inbox = [p \in Partitions |-> EmptyRing]
  BY DEF Init, Idle
<1>2. IsSeq(<<>>)
  <2>1. <<>> \in Seq({})
    OBVIOUS
  <2> QED  BY <2>1 DEF IsSeq
<1>3. Slotted(EmptyRing)
  BY DEF Slotted, EmptyRing
<1>4. Sent
  BY <1>1, <1>2, <1>3 DEF Sent
<1>5. ASSUME NEW p \in Partitions
      PROVE  Follows(History(p), script, <<>>, 0)
  <2>1. RingOK(EmptyRing) /\ EmptyRing.head - EmptyRing.tail = 0
    BY RingAssumption DEF RingOK, Shaped, CursorsInOrder, EmptyRing
  <2>2. IsSeq(Contents(EmptyRing)) /\ Len(Contents(EmptyRing)) = 0
    BY <2>1, ContentsSeq
  <2>3. IsSeq(History(p)) /\ Len(History(p)) = 0
    <3>1. History(p) = <<>> \o Contents(EmptyRing) /\ Len(<<>>) = 0
      BY <1>1 DEF History
    <3> QED  BY <1>2, <2>2, <3>1, JoinedSeq
  <2>4. DOMAIN History(p) = {}
    BY <2>3, AppendedSeq
  <2>5. Seen(History(p), script) = {}
    BY <2>4 DEF Seen
  <2> QED  BY <2>5, FS_EmptySet DEF Follows
<1>6. ~Broadcasting
  BY <1>1 DEF Broadcasting
<1>7. InStep
  BY <1>5, <1>6 DEF InStep
<1> QED  BY <1>4, <1>7

\* A history is a sequence.
LEMMA HistorySeq ==
  ASSUME RInv, Sent, NEW p \in Partitions
  PROVE  IsSeq(History(p))
<1>1. IsSeq(received[p]) /\ IsSeq(Contents(inbox[p]))
  BY ContentsSeq DEF RInv, Sent
<1> QED  BY <1>1, JoinedSeq DEF History

\* A step that sends nothing, and either claims nothing or leaves the frame in hand alone.
LEMMA NothingSent ==
  ASSUME InStep, script' = script,
         \A p \in Partitions : History(p)' = History(p),
         \/ feed.targets = {} /\ feed'.targets = {}
         \/ feed' = feed /\ done' = done /\ kept' = kept
  PROVE  InStep'
<1>1. PICK n, b :
        /\ n \in Nat
        /\ Broadcasting => n >= 1 /\ b[n] = Item(feed.source)
        /\ \A p \in Partitions :
             Follows(History(p), script, b, IF Broadcasting /\ p \in feed.targets THEN n - 1 ELSE n)
  BY DEF InStep
<1>2. CASE feed.targets = {} /\ feed'.targets = {}
  <2>1. ~Broadcasting /\ ~Broadcasting'
    BY <1>2 DEF Broadcasting
  <2>2. \A p \in Partitions : Follows(History(p), script, b, n)
    BY <1>1, <2>1
  <2>3. \A p \in Partitions : Follows(History(p)', script', b, n)
    BY <2>2
  <2> QED  BY <2>1, <2>3 DEF InStep
<1>3. CASE feed' = feed /\ done' = done /\ kept' = kept
  <2>1. Item(feed.source)' = Item(feed.source)
    BY <1>3 DEF Item, Number
  <2>2. Broadcasting' <=> Broadcasting
    BY <1>3, <2>1 DEF Broadcasting, Frame, FrameOf
  <2>3. \A p \in Partitions :
          Follows(History(p)', script', b, IF Broadcasting' /\ p \in feed'.targets THEN n - 1 ELSE n)
    BY <1>1, <1>3, <2>2
  <2> QED  BY <1>1, <2>1, <2>2, <2>3 DEF InStep
<1> QED  BY <1>2, <1>3

\* Steps that touch no inbox (the far ends, the rest of the server, a partition that halts).
LEMMA BroadcastElsewhere ==
  ASSUME Sent, InStep, script' = script, received' = received, inbox' = inbox,
         \/ feed.targets = {} /\ feed'.targets = {}
         \/ feed' = feed /\ done' = done /\ kept' = kept /\ pc' = pc
  PROVE  Sent' /\ InStep'
<1>1. Sent'
  BY DEF Sent
<1>2. \A p \in Partitions : History(p)' = History(p)
  BY DEF History
<1> QED  BY <1>1, <1>2, NothingSent

\* Claiming slots shows in no history.
LEMMA HistoryDispatch ==
  ASSUME RInv, Sent, FeedDispatch, NEW p \in Partitions
  PROVE  History(p)' = History(p) /\ Slotted(inbox'[p])
<1>1. inbox'[p] \in {inbox[p], Claimed(inbox[p])}
  <2>1. PICK tried : inbox' = [q \in Partitions |-> IF q \in tried THEN Claimed(inbox[q]) ELSE inbox[q]]
    BY Zenon DEF FeedDispatch
  <2> QED  BY <2>1
<1>2. RingOK(inbox[p]) /\ Slotted(inbox[p])
  BY DEF RInv, Sent
<1>3. Contents(inbox'[p]) = Contents(inbox[p]) /\ Slotted(inbox'[p])
  BY <1>1, <1>2, LookingKeeps
<1>4. received' = received
  BY DEF FeedDispatch
<1> QED  BY <1>3, <1>4, Zenon DEF History

\* Claiming the slots of a broadcast in every partition puts it on the list.
LEMMA BroadcastDispatch ==
  ASSUME RInv, Sent, InStep, FeedDispatch
  PROVE  Sent' /\ InStep'
<1> DEFINE ps == ClaimedTargets(Frame(feed.source))
           full == {p \in ps : ClaimFails(inbox[p])}
           tried == {p \in ps : \A q \in full : p <= q}
<1>1. /\ pc = "feed" /\ feed.targets = {} /\ script' = script /\ received' = received /\ kept' = kept
      /\ Frame(feed.source).kind \in {"broadcast", "single"}
      /\ inbox' = [p \in Partitions |-> IF p \in tried THEN Claimed(inbox[p]) ELSE inbox[p]]
      /\ \/ feed' = [feed EXCEPT !.targets = ps] /\ pc' = pc /\ done' = done
         \/ feed' = Idle
  BY Zenon DEF FeedDispatch
<1>3. \A p \in Partitions : History(p)' = History(p) /\ Slotted(inbox'[p])
  BY HistoryDispatch
<1>4. CASE feed' = Idle
  <2>1. feed'.targets = {}
    BY <1>4 DEF Idle
  <2>2. Sent'
    BY <1>1, <1>3, <2>1 DEF Sent
  <2> QED  BY <1>1, <1>3, <2>1, <2>2, NothingSent
<1>5. CASE feed' = [feed EXCEPT !.targets = ps] /\ pc' = pc /\ done' = done
  <2>1. feed'.targets = ps /\ feed'.source = feed.source
    <3> HIDE DEF ps
    <3> QED  BY <1>5 DEF RInv, FeedShaped
  <2>2. Sent'
    BY <1>1, <1>3, <1>5 DEF Sent
  <2>3. PICK n, b : n \in Nat /\ \A p \in Partitions : Follows(History(p), script, b, n)
    <3>1. ~Broadcasting
      BY <1>1 DEF Broadcasting
    <3> QED  BY <3>1 DEF InStep
  <2>4. PICK x : x = Item(feed.source)
    OBVIOUS
  <2>5. Item(feed.source)' = x
    BY <1>1, <1>5, <2>1, <2>4 DEF Item, Number
  <2>6. Frame(feed.source)' = Frame(feed.source)
    BY <1>1, <2>4, <2>5 DEF Frame, FrameOf
  <2>7. CASE Frame(feed.source).kind = "broadcast"
    <3>1. ps = Partitions
      BY <2>7 DEF ClaimedTargets, Targets
    <3>2. PICK c : c = [k \in 1 .. n + 1 |-> IF k = n + 1 THEN x ELSE b[k]]
      OBVIOUS
    <3>3. c[n + 1] = x /\ \A k \in 1 .. n : c[k] = b[k]
      BY <2>3, <3>2
    <3>4. \A p \in Partitions : Follows(History(p), script, c, n)
      BY <2>3, <3>3, HistorySeq, FollowsMore
    <3>5. \A p \in Partitions : Follows(History(p)', script', c, n)
      BY <1>1, <1>3, <3>4
    <3>6. PICK m : m = n + 1
      OBVIOUS
    <3>7. m \in Nat /\ m >= 1 /\ c[m] = x /\ m - 1 = n
      BY <2>3, <3>3, <3>6
    <3>8. Broadcasting' /\ \A p \in Partitions : p \in feed'.targets
      BY <2>1, <2>6, <2>7, <3>1, IngressAssumption DEF Broadcasting
    <3>9. InStep'
      BY <2>5, <3>5, <3>7, <3>8 DEF InStep
    <3> QED  BY <2>2, <3>9
  <2>8. CASE Frame(feed.source).kind # "broadcast"
    <3>1. ~Broadcasting'
      BY <2>6, <2>8 DEF Broadcasting
    <3>2. \A p \in Partitions : Follows(History(p)', script', b, n)
      BY <1>1, <1>3, <2>3
    <3>3. InStep'
      BY <2>3, <3>1, <3>2 DEF InStep
    <3> QED  BY <2>2, <3>3
  <2> QED  BY <2>7, <2>8
<1> QED  BY <1>1, <1>4, <1>5

\* Publishing appends the frame to the history of one target and takes that off the list.
LEMMA HistoryPublish ==
  ASSUME RInv, Sent, FeedPublish
  PROVE  \E q \in feed.targets :
           /\ feed'.targets = feed.targets \ {q} /\ feed'.source = feed.source
           /\ done' = IF feed.targets = {q}
                      THEN [done EXCEPT ![feed.source] = Consumed(feed.source, "routed")]
                      ELSE done
           /\ \A p \in Partitions :
                /\ Slotted(inbox'[p])
                /\ p # q => History(p)' = History(p)
                /\ p = q => History(p)' = Append(History(p), Item(feed.source))
<1>1. PICK x : x = Item(feed.source)
  OBVIOUS
<1>2. PICK q \in feed.targets :
        /\ inbox' = [inbox EXCEPT ![q] = Published(Written(@, x))]
        /\ feed' = [feed EXCEPT !.targets = @ \ {q}]
        /\ done' = IF feed.targets = {q}
                   THEN [done EXCEPT ![feed.source] = Consumed(feed.source, "routed")]
                   ELSE done
  BY <1>1 DEF FeedPublish
<1>3. received' = received
  BY Zenon DEF FeedPublish
<1>4. feed'.targets = feed.targets \ {q} /\ feed'.source = feed.source
  BY <1>2 DEF RInv, FeedShaped
<1>5. inbox' = [p \in Partitions |-> IF p = q THEN Published(Written(inbox[p], x)) ELSE inbox[p]]
  BY <1>2 DEF RInv
<1>6. ASSUME NEW p \in Partitions
      PROVE  /\ Slotted(inbox'[p])
             /\ p # q => History(p)' = History(p)
             /\ p = q => History(p)' = Append(History(p), x)
  <2>1. CASE p # q
    <3>1. inbox'[p] = inbox[p]
      BY <1>5, <2>1
    <3> QED  BY <1>3, <2>1, <3>1 DEF Sent, History
  <2>2. CASE p = q
    <3>1. inbox'[p] = Published(Written(inbox[p], x))
      BY <1>5, <2>2
    <3>2. RingOK(inbox[p]) /\ Slotted(inbox[p]) /\ inbox[p].head - inbox[p].tail_cache < Capacity
      BY <2>2 DEF RInv, Sent
    <3>3. Slotted(inbox'[p]) /\ Contents(inbox'[p]) = Append(Contents(inbox[p]), x)
      BY <3>1, <3>2, PublishAppends
    <3>4. PICK g, c : g = received[p] /\ c = Contents(inbox[p])
      OBVIOUS
    <3>5. IsSeq(g) /\ IsSeq(c)
      BY <3>2, <3>4, ContentsSeq DEF Sent
    <3>6. g \o Append(c, x) = Append(g \o c, x)
      BY <3>5, JoinedAppend
    <3>7. History(p)' = g \o Append(c, x) /\ History(p) = g \o c
      BY <1>3, <3>3, <3>4, Zenon DEF History
    <3> QED  BY <2>2, <3>3, <3>6, <3>7
  <2> QED  BY <2>1, <2>2
<1> QED  BY <1>1, <1>2, <1>4, <1>6

\* Publishing appends the frame to one history; a broadcast is the next on the list.
LEMMA BroadcastPublish ==
  ASSUME RInv, Sent, InStep, FeedPublish
  PROVE  Sent' /\ InStep'
<1>1. PICK x : x = Item(feed.source)
  OBVIOUS
<1>2. PICK q \in feed.targets :
        /\ feed'.targets = feed.targets \ {q} /\ feed'.source = feed.source
        /\ done' = done \/ feed.targets = {q}
        /\ \A p \in Partitions :
             /\ Slotted(inbox'[p])
             /\ p # q => History(p)' = History(p)
             /\ p = q => History(p)' = Append(History(p), x)
  BY <1>1, HistoryPublish
<1>3. script' = script /\ received' = received /\ kept' = kept /\ pc' = pc /\ pc = "feed"
  BY Zenon DEF FeedPublish
<1>4. feed'.targets = feed.targets \ {q} /\ feed'.source = feed.source
  BY <1>2
<1>6. ASSUME NEW p \in Partitions
      PROVE  /\ Slotted(inbox'[p])
             /\ p # q => History(p)' = History(p)
             /\ p = q => History(p)' = Append(History(p), x)
  BY <1>2
<1>7. Sent'
  BY <1>3, <1>6 DEF Sent
<1>8. PICK n, b :
        /\ n \in Nat
        /\ Broadcasting => n >= 1 /\ b[n] = Item(feed.source)
        /\ \A p \in Partitions :
             Follows(History(p), script, b, IF Broadcasting /\ p \in feed.targets THEN n - 1 ELSE n)
  BY DEF InStep
<1>9. feed.targets # {} /\ (Broadcasting <=> Frame(feed.source).kind = "broadcast")
  BY DEF Broadcasting
<1>10. feed'.targets # {} => Item(feed.source)' = x /\ Frame(feed.source)' = Frame(feed.source)
  <2>1. feed'.targets # {} => done' = done
    BY <1>2, <1>4
  <2>2. feed'.targets # {} => Item(feed.source)' = x
    BY <1>1, <1>3, <1>4, <2>1 DEF Item, Number
  <2> QED  BY <1>1, <1>3, <2>2 DEF Frame, FrameOf
<1>11. Frame(feed.source) = script[x[1]][x[2]]
  BY <1>1 DEF Frame, FrameOf
<1>12. CASE Broadcasting
  <2>1. n >= 1 /\ b[n] = x /\ script[x[1]][x[2]].kind = "broadcast" /\ (n - 1) + 1 = n
    BY <1>1, <1>8, <1>9, <1>11, <1>12
  <2>2. Broadcasting' => n >= 1 /\ b[n] = Item(feed.source)'
    BY <1>10, <2>1 DEF Broadcasting
  <2>3. ASSUME NEW p \in Partitions
        PROVE  Follows(History(p)', script', b, IF Broadcasting' /\ p \in feed'.targets THEN n - 1 ELSE n)
    <3>1. CASE p = q
      <4>1. Follows(History(p), script, b, n - 1) /\ p \notin feed'.targets
        BY <1>4, <1>8, <1>12, <3>1
      <4>2. IsSeq(History(p))
        BY HistorySeq
      <4>3. PICK h, k : h = History(p) /\ k = n - 1
        OBVIOUS
      <4>4. k + 1 = n /\ Follows(h, script, b, k) /\ IsSeq(h) /\ b[k + 1] = x
        BY <2>1, <4>1, <4>2, <4>3
      <4>5. Follows(Append(h, x), script, b, n)
        <5>1. Follows(Append(h, x), script, b, k + 1)
          BY <2>1, <4>4, FollowsAppend
        <5> QED  BY <4>4, <5>1
      <4>6. Follows(History(p)', script', b, n)
        BY <1>3, <1>6, <3>1, <4>3, <4>5
      <4> QED  BY <4>1, <4>6
    <3>2. CASE p # q
      <4>1. History(p)' = History(p)
        BY <1>6, <3>2
      <4>2. CASE p \in feed.targets
        <5>1. p \in feed'.targets /\ feed'.targets # {}
          BY <1>4, <3>2, <4>2
        <5>2. Broadcasting'
          BY <1>9, <1>10, <1>12, <5>1 DEF Broadcasting
        <5>3. Follows(History(p), script, b, n - 1)
          BY <1>8, <1>12, <4>2
        <5>4. Follows(History(p)', script', b, n - 1)
          BY <1>3, <4>1, <5>3
        <5> QED  BY <5>1, <5>2, <5>4
      <4>3. CASE p \notin feed.targets
        <5>1. p \notin feed'.targets
          BY <1>4, <4>3
        <5>2. Follows(History(p), script, b, n)
          BY <1>8, <4>3
        <5>3. Follows(History(p)', script', b, n)
          BY <1>3, <4>1, <5>2
        <5> QED  BY <5>1, <5>3
      <4> QED  BY <4>2, <4>3
    <3> QED  BY <3>1, <3>2
  <2>4. InStep'
    BY <1>8, <2>2, <2>3 DEF InStep
  <2> QED  BY <1>7, <2>4
<1>13. CASE ~Broadcasting
  <2>1. ~Broadcasting'
    BY <1>9, <1>10, <1>13 DEF Broadcasting
  <2>2. script[x[1]][x[2]].kind # "broadcast"
    BY <1>9, <1>11, <1>13
  <2>3. ASSUME NEW p \in Partitions
        PROVE  Follows(History(p)', script', b, n)
    <3>1. Follows(History(p), script, b, n) /\ IsSeq(History(p))
      BY <1>8, <1>13, HistorySeq
    <3>2. Follows(Append(History(p), x), script, b, n)
      BY <2>2, <3>1, FollowsAppend
    <3> QED  BY <1>3, <1>6, <3>1, <3>2
  <2>4. InStep'
    BY <1>8, <2>1, <2>3 DEF InStep
  <2> QED  BY <1>7, <2>4
<1> QED  BY <1>12, <1>13

\* A partition that looks at its inbox, or takes a frame out of it, keeps its history.
LEMMA HistoryTaken ==
  ASSUME RInv, Sent, NEW q \in Partitions, Peek(q) \/ Pop(q)
  PROVE  Sent' /\ \A p \in Partitions : History(p)' = History(p)
<1>1. script' = script /\ feed' = feed /\ done' = done /\ kept' = kept /\ pc' = pc
  BY Zenon DEF Peek, Pop, pipeVars, threadVars
<1>2. ASSUME NEW p \in Partitions
      PROVE  RingOK(inbox[p]) /\ Slotted(inbox[p]) /\ IsSeq(received[p])
  BY DEF RInv, Sent
<1>3. CASE Peek(q)
  <2>1. /\ inbox' = [p \in Partitions |-> IF p = q THEN Peeked(inbox[p]) ELSE inbox[p]]
        /\ received' = received
    BY <1>3 DEF Peek, RInv
  <2>2. ASSUME NEW p \in Partitions
        PROVE  Slotted(inbox'[p]) /\ History(p)' = History(p)
    <3>1. Slotted(inbox'[p]) /\ Contents(inbox'[p]) = Contents(inbox[p])
      BY <1>2, <2>1, LookingKeeps
    <3> QED  BY <2>1, <3>1, Zenon DEF History
  <2>3. Sent'
    BY <1>1, <2>1, <2>2 DEF Sent
  <2> QED  BY <2>2, <2>3
<1>4. CASE Pop(q)
  <2>1. /\ inbox' = [p \in Partitions |-> IF p = q THEN Popped(inbox[p]) ELSE inbox[p]]
        /\ received' = [p \in Partitions |->
                          IF p = q THEN Append(received[p], Oldest(inbox[p])) ELSE received[p]]
        /\ inbox[q].tail < inbox[q].head_cache
    BY <1>4 DEF Pop, RInv, Sent
  <2>2. ASSUME NEW p \in Partitions
        PROVE  Slotted(inbox'[p]) /\ IsSeq(received'[p]) /\ History(p)' = History(p)
    <3>1. CASE p = q
      <4>1. PICK r, g : r = inbox[p] /\ g = received[p]
        OBVIOUS
      <4>2. inbox'[p] = Popped(r) /\ received'[p] = Append(g, Oldest(r))
        BY <2>1, <3>1, <4>1
      <4>3. RingOK(r) /\ Slotted(r) /\ IsSeq(g) /\ r.tail < r.head_cache
        BY <1>2, <2>1, <3>1, <4>1
      <4>4. Append(g, Oldest(r)) \o Contents(Popped(r)) = g \o Contents(r) /\ Slotted(Popped(r))
        BY <4>3, PopShifts
      <4>5. IsSeq(Append(g, Oldest(r)))
        BY <4>3, AppendedSeq
      <4>6. History(p)' = History(p)
        BY <4>1, <4>2, <4>4, Zenon DEF History
      <4> QED  BY <4>2, <4>4, <4>5, <4>6
    <3>2. CASE p # q
      <4>1. inbox'[p] = inbox[p] /\ received'[p] = received[p]
        BY <2>1, <3>2
      <4> QED  BY <1>2, <4>1 DEF History
    <3> QED  BY <3>1, <3>2
  <2>3. Sent'
    <3>1. received' = [p \in Partitions |-> received'[p]]
      BY <2>1
    <3> QED  BY <1>1, <2>2, <3>1 DEF Sent
  <2> QED  BY <2>2, <2>3
<1> QED  BY <1>3, <1>4

\* Taking frames out leaves the histories in step.
LEMMA BroadcastTaken ==
  ASSUME RInv, Sent, InStep, NEW q \in Partitions, Peek(q) \/ Pop(q)
  PROVE  Sent' /\ InStep'
<1>1. script' = script /\ feed' = feed /\ done' = done /\ kept' = kept
  BY Zenon DEF Peek, Pop, pipeVars, threadVars
<1> QED  BY <1>1, HistoryTaken, NothingSent

\* Every step keeps the histories in step.
LEMMA BroadcastNext ==
  ASSUME RInv, Sent, InStep, [Next]_vars
  PROVE  Sent' /\ InStep'
<1> USE DEF inboxVars, pipeVars, threadVars
<1>1. CASE \/ \E c \in Clients : Connect(c) \/ Send(c) \/ \E how \in {"closed", "broken"} : Leave(c, how)
           \/ \E p \in Partitions : Halt(p)
           \/ UNCHANGED vars
  <2>1. /\ script' = script /\ received' = received /\ inbox' = inbox
        /\ feed' = feed /\ done' = done /\ kept' = kept /\ pc' = pc
    BY <1>1, Zenon DEF Connect, Send, Leave, Halt, vars
  <2> QED  BY <2>1, BroadcastElsewhere
<1>2. CASE Stop \/ PollIdle \/ Poll \/ Served \/ Blocked \/ Events \/ Close
  <2>1. /\ script' = script /\ received' = received /\ inbox' = inbox /\ feed' = feed
        /\ pc \in {"ingest", "poll", "serve", "blocked", "events", "close"}
    BY <1>2, Zenon DEF Stop, PollIdle, Poll, Served, Blocked, Events, Close
  <2>2. feed.targets = {}
    BY <2>1 DEF Sent
  <2> QED  BY <2>1, <2>2, BroadcastElsewhere
<1>3. CASE Ingest \/ Serve \/ Recv \/ FeedReturns \/ FeedMalformed
  <2>1. /\ script' = script /\ received' = received /\ inbox' = inbox
        /\ feed' \in {feed, Idle} \/ \E s, retry : feed' = Feed(s, retry)
        /\ pc \in {"ingest", "serve", "recv"} \/ feed.targets = {}
    <3>1. CASE Ingest
      BY <3>1, Zenon DEF Ingest
    <3>2. CASE Serve
      BY <3>2, Zenon DEF Serve, Retry
    <3>3. CASE Recv
      BY <3>3, Zenon DEF Recv
    <3>4. CASE FeedReturns \/ FeedMalformed
      BY <3>4, Zenon DEF FeedReturns, FeedMalformed
    <3> QED  BY <1>3, <3>1, <3>2, <3>3, <3>4
  <2>2. feed.targets = {}
    BY <2>1 DEF Sent
  <2>3. feed'.targets = {}
    BY <2>1, <2>2 DEF Idle, Feed
  <2> QED  BY <2>1, <2>2, <2>3, BroadcastElsewhere
<1>4. CASE FeedUnknown
  <2>1. /\ script' = script /\ received' = received /\ inbox' = inbox
        /\ feed.targets = {} /\ feed' = [feed EXCEPT !.failed = TRUE]
    BY <1>4, Zenon DEF FeedUnknown
  <2>2. feed'.targets = {}
    BY <2>1 DEF RInv, FeedShaped
  <2> QED  BY <2>1, <2>2, BroadcastElsewhere
<1>5. CASE \E p \in Partitions : Peek(p) \/ Pop(p)
  BY <1>5, BroadcastTaken
<1> QED
  BY <1>1, <1>2, <1>3, <1>4, <1>5, BroadcastDispatch, BroadcastPublish DEF Next, Server

\* All partitions see the broadcasts in one order and none skips one, whatever connections
\* they come from, however full the inboxes are and however far behind a partition is:
\* route_and_dispatch claims everywhere before it publishes anywhere, and the thread
\* that serves the connections finishes one broadcast before it takes the next frame.
THEOREM IngressBroadcastsAgree == Spec => []BroadcastsAgree
<1>1. InStep => BroadcastsAgree
  <2> SUFFICES ASSUME InStep, NEW p \in Partitions, NEW q \in Partitions,
                      NEW i \in Broadcasts(p), NEW k \in Broadcasts(q),
                      Cardinality(BroadcastsBefore(p, i)) = Cardinality(BroadcastsBefore(q, k))
               PROVE  History(p)[i] = History(q)[k]
    BY DEF BroadcastsAgree
  <2>1. PICK b : \A o \in Partitions : \A m \in Seen(History(o), script) :
                   History(o)[m] = b[Rank(History(o), script, m) + 1]
    BY DEF InStep, Follows
  <2>2. \A o \in Partitions : Broadcasts(o) = Seen(History(o), script)
    BY DEF Broadcasts, Seen, FrameOf
  <2>3. /\ Rank(History(p), script, i) = Cardinality(BroadcastsBefore(p, i))
        /\ Rank(History(q), script, k) = Cardinality(BroadcastsBefore(q, k))
    BY <2>2, Zenon DEF Rank, BroadcastsBefore
  <2> QED  BY <2>1, <2>2, <2>3
<1>2. RInv /\ Sent /\ InStep /\ [Next]_vars => (RInv /\ Sent /\ InStep)'
  BY RingsNext, BroadcastNext
<1>3. Init => RInv /\ Sent /\ InStep
  BY RingsInit, BroadcastInit
<1> QED  BY <1>1, <1>2, <1>3, PTL DEF Spec


-----------------------------------------------------------------------------
(* Each partition gets the frames of a stream once each and in order. *)

\* What a history holds of a stream: the frames with these numbers, in order.
Holds(h, s, numbers) ==
  LET from == {i \in DOMAIN h : h[i][1] = s} IN
    /\ {h[i][2] : i \in from} = numbers
    /\ \A i, j \in from : i < j => h[i][2] < h[j][2]

\* The stages of a stream: consumed, read, sent, written beforehand.
Stages ==
  /\ script \in Scripts
  /\ sent \in [Sources -> Nat] /\ read \in [Sources -> Nat] /\ done \in [Sources -> Nat]
  /\ \A s \in Sources :
       done[s] <= read[s] /\ read[s] <= sent[s] /\ sent[s] <= 2 * Len(script[s])

\* The local stream is sent frame by frame; those that found room are in order.
LocalStages ==
  /\ \E m \in 0 .. Len(script[Local]) : sent[Local] = 2 * m
  /\ kept \in Seq(Nat \ {0}) /\ read[Local] = 2 * Len(kept)
  /\ \A k \in DOMAIN kept : 2 * kept[k] <= sent[Local]
  /\ \A k, l \in DOMAIN kept : k < l => kept[k] < kept[l]

\* A frame that was claimed for is whole and has targets left among its own.
InHand ==
  feed.targets # {} =>
    /\ Buffered(feed.source) >= 2
    /\ Frame(feed.source).kind \in {"broadcast", "single"}
    /\ feed.targets \subseteq Targets(Frame(feed.source))

\* A connection is accepted once, and the thread serves one that is there.
Serving ==
  /\ conns \in Seq(Clients) /\ backlog \in Seq(Clients)
  /\ peer \in [Clients -> {"away", "open", "closed", "broken", "gone"}]
  /\ Len(conns) <= MaxClients
  /\ at \in 0 .. Len(conns)
  /\ \A i, j \in DOMAIN conns : i # j => conns[i] # conns[j]
  /\ \A i, j \in DOMAIN backlog : i # j => backlog[i] # backlog[j]
  /\ \A i \in DOMAIN conns, j \in DOMAIN backlog : conns[i] # backlog[j]
  /\ \A i \in DOMAIN conns : peer[conns[i]] # "away"
  /\ \A j \in DOMAIN backlog : peer[backlog[j]] # "away"
  /\ pc \in {"ingest", "poll", "stopped"} => at = 0
  /\ pc \in {"blocked", "events", "recv", "close"} => at > 0
  /\ pc = "feed" => \/ feed.source = Local /\ at = 0
                    \/ feed.source \in Clients /\ at > 0 /\ feed.source = conns[at]

\* Nothing that was consumed of a stream is malformed.
Sound(c) ==
  \A m \in 1 .. done[c] \div 2 : script[c][m].kind \notin {"schema", "oversize"}

\* A connection that is not served again: closed, or about to be.
Ended(c) ==
  /\ peer[c] # "away"
  /\ \A j \in DOMAIN backlog : backlog[j] # c
  /\ \A i \in DOMAIN conns : conns[i] = c => pc = "close" /\ i = at

\* A malformed header ends its connection: what is behind it is never read as frames.
Spoiled == \A c \in Clients : Sound(c) \/ Ended(c)

\* The inductive invariant behind DeliveredOnceInOrder.
DInv ==
  /\ RInv /\ Sent
  /\ Stages /\ LocalStages /\ InHand
  /\ Serving /\ Spoiled
  /\ DeliveredOnceInOrder


\* A frame appended to a history, past all of its stream that are there.
LEMMA HoldsAppend ==
  ASSUME NEW h, IsSeq(h), NEW s, NEW S, Holds(h, s, S), NEW x
  PROVE  /\ x[1] # s => Holds(Append(h, x), s, S)
         /\ x[1] = s /\ (\A m \in S : m < x[2]) => Holds(Append(h, x), s, S \cup {x[2]})
<1>1. PICK g : g = Append(h, x)
  OBVIOUS
<1>2. PICK e : e = Len(h) + 1
  OBVIOUS
<1>3. /\ Len(h) \in Nat /\ DOMAIN h = 1 .. Len(h) /\ DOMAIN g = 1 .. e
      /\ g[e] = x /\ \A i \in 1 .. Len(h) : g[i] = h[i]
  BY <1>1, <1>2, AppendedSeq
<1>4. /\ DOMAIN g = DOMAIN h \cup {e}
      /\ \A i \in DOMAIN h : g[i] = h[i] /\ i # e /\ i < e /\ ~(e < i)
      /\ ~(e < e)
  BY <1>2, <1>3
<1>5. PICK F : F = {i \in DOMAIN h : h[i][1] = s}
  OBVIOUS
<1>6. S = {h[i][2] : i \in F} /\ \A i, j \in F : i < j => h[i][2] < h[j][2]
  BY <1>5, Zenon DEF Holds
<1>7. PICK G : G = {i \in DOMAIN g : g[i][1] = s}
  OBVIOUS
<1>8. CASE x[1] # s
  <2>1. G = F
    BY <1>3, <1>4, <1>5, <1>7, <1>8, Zenon
  <2>2. \A i \in F : g[i] = h[i]
    BY <1>4, <1>5
  <2>3. {g[i][2] : i \in G} = S /\ \A i, j \in G : i < j => g[i][2] < g[j][2]
    BY <1>6, <2>1, <2>2
  <2>4. Holds(g, s, S)
    BY <1>7, <2>3, Zenon DEF Holds
  <2> QED  BY <1>1, <1>8, <2>4
<1>9. CASE x[1] = s
  <2> SUFFICES ASSUME \A m \in S : m < x[2]
               PROVE  Holds(g, s, S \cup {x[2]})
    BY <1>1, <1>9
  <2>1. G = F \cup {e}
    BY <1>3, <1>4, <1>5, <1>7, <1>9, Zenon
  <2>2. \A i \in F : g[i] = h[i] /\ g[i][2] \in S /\ i < e /\ ~(e < i)
    BY <1>4, <1>5, <1>6
  <2>3. {g[i][2] : i \in G} = S \cup {x[2]}
    <3>1. g[e][2] = x[2]
      BY <1>3
    <3>2. \A y : y \in {g[i][2] : i \in G} <=> (y = g[e][2] \/ \E i \in F : y = g[i][2])
      BY <2>1, Zenon
    <3>3. \A y : (\E i \in F : y = g[i][2]) <=> y \in S
      BY <1>6, <2>2
    <3> QED  BY <3>1, <3>2, <3>3
  <2>4. ASSUME NEW i \in G, NEW j \in G, i < j
        PROVE  g[i][2] < g[j][2]
    <3>1. i \in F
      BY <1>4, <2>1, <2>2, <2>4
    <3>2. CASE j \in F
      BY <1>6, <2>2, <2>4, <3>1, <3>2
    <3>3. CASE j = e
      BY <1>3, <2>2, <3>1, <3>3
    <3> QED  BY <2>1, <3>2, <3>3
  <2> QED  BY <1>7, <2>3, <2>4, Zenon DEF Holds
<1> QED  BY <1>8, <1>9

\* The frames that were put into a buffer have increasing numbers, within the stream.
LEMMA NumberOrder ==
  ASSUME Stages, LocalStages, NEW s \in Sources, NEW k \in Nat \ {0}, 2 * k <= read[s]
  PROVE  /\ Number(s, k) \in Nat \ {0} /\ Number(s, k) <= Len(script[s])
         /\ \A j \in 1 .. k - 1 : Number(s, j) \in Nat /\ Number(s, j) < Number(s, k)
<1>1. /\ read[s] \in Nat /\ sent[s] \in Nat /\ read[s] <= sent[s] /\ sent[s] <= 2 * Len(script[s])
      /\ Len(script[s]) \in Nat
  <2>1. script[s] \in Seq(Frames)
    BY IngressAssumption DEF Stages
  <2> QED  BY <2>1 DEF Stages
<1>2. CASE s = Local
  <2>1. /\ kept \in Seq(Nat \ {0}) /\ DOMAIN kept = 1 .. Len(kept) /\ Len(kept) \in Nat
        /\ read[s] = 2 * Len(kept)
    BY <1>2 DEF LocalStages
  <2>2. k \in DOMAIN kept /\ \A j \in 1 .. k - 1 : j \in DOMAIN kept /\ j < k
    BY <2>1
  <2>3. kept[k] \in Nat \ {0} /\ 2 * kept[k] <= sent[s] /\ \A j \in 1 .. k - 1 : kept[j] \in Nat /\ kept[j] < kept[k]
    <3>1. kept[k] \in Nat \ {0} /\ \A j \in 1 .. k - 1 : kept[j] \in Nat
      BY <2>1, <2>2
    <3>2. 2 * kept[k] <= sent[s]
      BY <1>2, <2>2 DEF LocalStages
    <3>3. \A j \in 1 .. k - 1 : kept[j] < kept[k]
      BY <2>2 DEF LocalStages
    <3> QED  BY <3>1, <3>2, <3>3
  <2>4. kept[k] <= Len(script[s])
    BY <1>1, <2>3
  <2> QED  BY <1>2, <2>3, <2>4 DEF Number
<1>3. CASE s # Local
  BY <1>1, <1>3 DEF Number
<1> QED  BY <1>2, <1>3


\* At first no stream has begun and no connection was made.
LEMMA DeliveryInit == Init => DInv
<1> SUFFICES ASSUME Init  PROVE DInv
  OBVIOUS
<1>1. RInv /\ Sent
  BY RingsInit, BroadcastInit
<1>2. /\ script \in Scripts /\ kept = <<>> /\ backlog = <<>> /\ conns = <<>> /\ at = 0
      /\ sent = [s \in Sources |-> 0] /\ read = [s \in Sources |-> 0] /\ done = [s \in Sources |-> 0]
      /\ pc = "ingest" /\ peer = [c \in Clients |-> "away"]
      /\ feed.targets = {}
  BY DEF Init, Idle
<1>3. \A s \in Sources : script[s] \in Seq(Frames) /\ Len(script[s]) \in Nat
  BY <1>2, IngressAssumption
<1>4. Local \in Sources /\ Clients \subseteq Sources
  BY DEF Sources
<1>5. Stages
  BY <1>2, <1>3 DEF Stages
<1>6. LocalStages
  <2>1. 0 \in 0 .. Len(script[Local]) /\ sent[Local] = 2 * 0
    BY <1>2, <1>3, <1>4
  <2>2. kept \in Seq(Nat \ {0}) /\ DOMAIN kept = {} /\ Len(kept) = 0 /\ read[Local] = 0
    BY <1>2, <1>4
  <2> QED  BY <2>1, <2>2 DEF LocalStages
<1>7. InHand
  BY <1>2 DEF InHand
<1>8. Serving
  <2>1. /\ conns \in Seq(Clients) /\ backlog \in Seq(Clients) /\ DOMAIN conns = {} /\ DOMAIN backlog = {}
        /\ Len(conns) = 0
    BY <1>2
  <2> QED  BY <1>2, <2>1, IngressAssumption DEF Serving
<1>9. \A s \in Sources : done[s] \div 2 = 0
  BY <1>2
<1>10. Spoiled
  BY <1>4, <1>9 DEF Spoiled, Sound
<1>11. ASSUME NEW p \in Partitions  PROVE DOMAIN History(p) = {}
  <2>1. IsSeq(<<>>) /\ Len(<<>>) = 0
    <3>1. <<>> \in Seq({}) /\ Len(<<>>) = 0
      OBVIOUS
    <3> QED  BY <3>1 DEF IsSeq
  <2>2. RingOK(EmptyRing) /\ EmptyRing.head - EmptyRing.tail = 0
    BY RingAssumption DEF RingOK, Shaped, CursorsInOrder, EmptyRing
  <2>3. IsSeq(Contents(EmptyRing)) /\ Len(Contents(EmptyRing)) = 0
    BY <2>2, ContentsSeq
  <2>4. History(p) = <<>> \o Contents(EmptyRing)
    BY DEF History, Init
  <2>5. IsSeq(History(p)) /\ Len(History(p)) = 0
    BY <2>1, <2>3, <2>4, JoinedSeq
  <2> QED  BY <2>5, AppendedSeq
<1>12. ASSUME NEW s \in Sources, NEW p \in Partitions
       PROVE  From(s, p) = {} /\ Routed(s, p) = {} /\ UnderWay(s, p) = {}
  BY <1>2, <1>9, <1>11 DEF From, Routed, UnderWay
<1>13. DeliveredOnceInOrder
  BY <1>12, Zenon DEF DeliveredOnceInOrder
<1> QED  BY <1>1, <1>5, <1>6, <1>7, <1>8, <1>10, <1>13 DEF DInv

\* feed is called for the local stream or for the connection being served.
LEMMA SourceServed ==
  ASSUME Serving, pc = "feed"
  PROVE  /\ feed.source \in Sources
         /\ feed.source # Local =>
              /\ feed.source \in Clients /\ at \in DOMAIN conns /\ feed.source = conns[at]
<1>1. conns \in Seq(Clients) /\ DOMAIN conns = 1 .. Len(conns) /\ at \in 0 .. Len(conns) /\ Len(conns) \in Nat
  BY DEF Serving
<1>2. feed.source # Local => at \in DOMAIN conns /\ feed.source = conns[at]
  BY <1>1 DEF Serving
<1> QED  BY <1>1, <1>2 DEF Sources

\* The stages of the streams and the frame in hand through a step.
Held == Stages /\ LocalStages /\ InHand

\* A step that moves no stream and claims nothing.
LEMMA StagesElsewhere ==
  ASSUME Held, UNCHANGED <<script, sent, read, done, kept>>,
         feed'.targets = {} \/ feed' = feed
  PROVE  Held'
<1>1. Stages' /\ LocalStages'
  BY DEF Held, Stages, LocalStages
<1>2. InHand'
  <2>1. CASE feed'.targets = {}
    BY <2>1 DEF InHand
  <2>2. CASE feed' = feed
    BY <2>2 DEF Held, InHand, Buffered, Frame, FrameOf, Item, Number
  <2> QED  BY <2>1, <2>2
<1> QED  BY <1>1, <1>2 DEF Held

\* A step that consumes of one stream no more than was read.
LEMMA StagesConsume ==
  ASSUME Held, NEW s \in Sources, NEW n \in Nat, n <= read[s],
         done' = [done EXCEPT ![s] = n], UNCHANGED <<script, sent, read, kept>>
  PROVE  Stages' /\ LocalStages'
<1>1. Stages
  BY DEF Held
<1>2. done' \in [Sources -> Nat] /\ \A t \in Sources : done'[t] <= read[t]
  BY <1>1 DEF Stages
<1>3. Stages'
  BY <1>1, <1>2 DEF Stages
<1> QED  BY <1>3 DEF Held, LocalStages


\* The frame that feed looks at is whole when it consumes it.
LEMMA HeldFeed ==
  ASSUME Held, Serving, RInv, Sent, FeedUnknown \/ FeedMalformed \/ FeedDispatch \/ FeedPublish
  PROVE  Held'
<1>1. pc = "feed" /\ script' = script /\ sent' = sent /\ read' = read /\ kept' = kept
  BY Zenon DEF FeedUnknown, FeedMalformed, FeedDispatch, FeedPublish, peerVars
<1>2. PICK s \in Sources : s = feed.source
  BY <1>1, SourceServed
<1>3. done[s] \in Nat /\ read[s] \in Nat /\ done[s] <= read[s] /\ done = [t \in Sources |-> done[t]]
  BY <1>2 DEF Held, Stages
<1>4. CASE FeedUnknown
  <2>1. feed.targets = {} /\ feed' = [feed EXCEPT !.failed = TRUE] /\ Buffered(s) >= 2
    BY <1>2, <1>4 DEF FeedUnknown
  <2>2. done' = [done EXCEPT ![s] = done[s] + 2]
    BY <1>2, <1>4 DEF FeedUnknown, Consumed
  <2>3. feed'.targets = {}
    BY <2>1 DEF RInv, FeedShaped
  <2>4. done[s] + 2 \in Nat /\ done[s] + 2 <= read[s]
    BY <1>3, <2>1 DEF Buffered
  <2>5. Stages' /\ LocalStages'
    BY <1>1, <2>2, <2>4, StagesConsume
  <2> QED  BY <2>3, <2>5 DEF Held, InHand
<1>5. CASE FeedMalformed
  <2>1. feed'.targets = {}
    BY <1>5 DEF FeedMalformed, Idle
  <2>2. done' = [done EXCEPT ![s] = read[s]]
    BY <1>2, <1>5 DEF FeedMalformed, Consumed
  <2>3. Stages' /\ LocalStages'
    BY <1>1, <1>3, <2>2, StagesConsume
  <2> QED  BY <2>1, <2>3 DEF Held, InHand
<1>6. CASE FeedDispatch
  <2>1. PICK ps : ps = Targets(Frame(s))
    OBVIOUS
  <2>2. /\ Buffered(s) >= 2 /\ Frame(s).kind \in {"broadcast", "single"}
        /\ \/ feed' = [feed EXCEPT !.targets = ps] /\ done' = done
           \/ feed' = Idle /\ done' = [done EXCEPT ![s] = Consumed(s, "block")]
    BY <1>2, <1>6, <2>1, Zenon DEF FeedDispatch, ClaimedTargets
  <2>3. CASE feed' = Idle /\ done' = [done EXCEPT ![s] = Consumed(s, "block")]
    <3>1. feed'.targets = {} /\ done' = [done EXCEPT ![s] = done[s]]
      BY <2>3 DEF Idle, Consumed
    <3>2. Stages' /\ LocalStages'
      BY <1>1, <1>3, <3>1, StagesConsume
    <3> QED  BY <3>1, <3>2 DEF Held, InHand
  <2>4. CASE feed' = [feed EXCEPT !.targets = ps] /\ done' = done
    <3>1. feed'.targets = ps /\ feed'.source = s
      BY <1>2, <2>4 DEF RInv, FeedShaped
    <3>2. Buffered(s)' = Buffered(s) /\ Item(s)' = Item(s)
      BY <1>1, <2>4 DEF Buffered, Item, Number
    <3>3. Frame(s)' = Frame(s)
      BY <1>1, <3>2 DEF Frame, FrameOf
    <3>4. Targets(Frame(s)') = ps
      BY <2>1, <3>3
    <3>5. InHand'
      BY <2>2, <3>1, <3>2, <3>3, <3>4 DEF InHand
    <3>6. Stages' /\ LocalStages'
      BY <1>1, <2>4 DEF Held, Stages, LocalStages
    <3> QED  BY <3>5, <3>6 DEF Held
  <2> QED  BY <2>2, <2>3, <2>4
<1>7. CASE FeedPublish
  <2>1. PICK q \in feed.targets :
          /\ feed'.targets = feed.targets \ {q} /\ feed'.source = s
          /\ done' = IF feed.targets = {q} THEN [done EXCEPT ![s] = Consumed(s, "routed")] ELSE done
    BY <1>2, <1>7, HistoryPublish
  <2>2. /\ Buffered(s) >= 2 /\ Frame(s).kind \in {"broadcast", "single"}
        /\ feed.targets \subseteq Targets(Frame(s))
    BY <1>2, <2>1 DEF Held, InHand
  <2>3. CASE feed.targets = {q}
    <3>1. feed'.targets = {} /\ done' = [done EXCEPT ![s] = done[s] + 2]
      BY <2>1, <2>3 DEF Consumed
    <3>2. done[s] + 2 \in Nat /\ done[s] + 2 <= read[s]
      BY <1>3, <2>2 DEF Buffered
    <3>3. Stages' /\ LocalStages'
      BY <1>1, <3>1, <3>2, StagesConsume
    <3> QED  BY <3>1, <3>3 DEF Held, InHand
  <2>4. CASE feed.targets # {q}
    <3>1. done' = done /\ feed'.targets \subseteq feed.targets
      BY <2>1, <2>4
    <3>2. Buffered(s)' = Buffered(s) /\ Item(s)' = Item(s)
      BY <1>1, <3>1 DEF Buffered, Item, Number
    <3>3. Frame(s)' = Frame(s)
      BY <1>1, <3>2 DEF Frame, FrameOf
    <3>4. Targets(Frame(s)') = Targets(Frame(s))
      BY <3>3
    <3>5. InHand'
      BY <2>1, <2>2, <3>1, <3>2, <3>3, <3>4 DEF InHand
    <3>6. Stages' /\ LocalStages'
      BY <1>1, <3>1 DEF Held, Stages, LocalStages
    <3> QED  BY <3>5, <3>6 DEF Held
  <2> QED  BY <2>3, <2>4
<1> QED  BY <1>4, <1>5, <1>6, <1>7


\* A client sends no more than its stream has, and recv returns no more than was sent.
LEMMA HeldClients ==
  ASSUME Held, Serving, Sent, NEW c \in Clients, Send(c) \/ (Recv /\ c = conns[at] /\ at > 0)
  PROVE  Held'
<1>1. script' = script /\ done' = done /\ kept' = kept
  BY Zenon DEF Send, Recv, pipeVars
<1>2. /\ Stages /\ c \in Sources /\ c # Local /\ Local \in Sources
      /\ done[c] \in Nat /\ read[c] \in Nat /\ sent[c] \in Nat
      /\ done[c] <= read[c] /\ read[c] <= sent[c] /\ sent[c] <= 2 * Len(script[c])
  BY IngressAssumption DEF Held, Stages, Sources
<1>3. Len(script[c]) \in Nat
  <2>1. script[c] \in Seq(Frames)
    BY <1>2, IngressAssumption DEF Stages
  <2> QED  BY <2>1
<1>4. Segment \in Nat /\ ChunkMax \in Nat
  BY IngressAssumption
<1>5. CASE Send(c)
  <2>1. PICK n : /\ n = (IF sent[c] + Segment < 2 * Len(script[c])
                         THEN sent[c] + Segment ELSE 2 * Len(script[c]))
                 /\ sent' = [sent EXCEPT ![c] = n]
    BY <1>5 DEF Send
  <2>2. n \in Nat /\ sent[c] <= n /\ n <= 2 * Len(script[c])
    BY <1>2, <1>3, <1>4, <2>1
  <2>3. read' = read /\ feed' = feed
    BY <1>5, Zenon DEF Send, pipeVars, threadVars
  <2>4. /\ sent' \in [Sources -> Nat] /\ sent'[Local] = sent[Local]
        /\ \A s \in Sources : sent[s] <= sent'[s] /\ sent'[s] <= 2 * Len(script[s])
    BY <1>2, <2>1, <2>2 DEF Stages
  <2>5. \A s \in Sources : read[s] <= sent'[s]
    BY <1>2, <2>4 DEF Stages
  <2>6. Stages'
    BY <1>1, <1>2, <2>3, <2>4, <2>5 DEF Stages
  <2>7. LocalStages'
    BY <1>1, <2>3, <2>4 DEF Held, LocalStages
  <2>8. InHand'
    BY <1>1, <2>3 DEF Held, InHand, Buffered, Frame, FrameOf, Item, Number
  <2> QED  BY <2>6, <2>7, <2>8 DEF Held
<1>6. CASE Recv /\ c = conns[at]
  <2>1. sent' = sent /\ pc = "recv"
    BY <1>6, Zenon DEF Recv, peerVars
  <2>2. feed.targets = {}
    BY <2>1 DEF Sent
  <2>3. \/ read' = read /\ feed' = feed
        \/ /\ feed' = Feed(c, FALSE)
           /\ \E n \in Nat : read' = [read EXCEPT ![c] = n] /\ read[c] <= n /\ n <= sent[c]
    <3>1. PICK rest : rest = sent[c] - read[c]
      OBVIOUS
    <3>2. PICK chunk : chunk = IF rest < ChunkMax THEN rest ELSE ChunkMax
      OBVIOUS
    <3>3. \/ read' = read /\ feed' = feed
          \/ read' = [read EXCEPT ![c] = @ + chunk] /\ feed' = Feed(c, FALSE)
      BY <1>6, <3>1, <3>2, Zenon DEF Recv
    <3>4. read[c] + chunk \in Nat /\ read[c] <= read[c] + chunk /\ read[c] + chunk <= sent[c]
      BY <1>2, <1>4, <3>1, <3>2
    <3>5. CASE read' = [read EXCEPT ![c] = @ + chunk] /\ feed' = Feed(c, FALSE)
      <4>1. read' = [read EXCEPT ![c] = read[c] + chunk]
        BY <3>5
      <4> QED  BY <3>4, <3>5, <4>1
    <3> QED  BY <3>3, <3>5
  <2>4. CASE read' = read /\ feed' = feed
    BY <1>1, <2>1, <2>4, StagesElsewhere
  <2>5. CASE /\ feed' = Feed(c, FALSE)
             /\ \E n \in Nat : read' = [read EXCEPT ![c] = n] /\ read[c] <= n /\ n <= sent[c]
    <3>1. PICK n \in Nat : read' = [read EXCEPT ![c] = n] /\ read[c] <= n /\ n <= sent[c]
      BY <2>5
    <3>2. /\ read' \in [Sources -> Nat] /\ read'[Local] = read[Local]
          /\ \A s \in Sources : read[s] <= read'[s] /\ read'[s] <= sent[s]
      BY <1>2, <3>1 DEF Stages
    <3>3. \A s \in Sources : done[s] <= read'[s]
      BY <1>2, <3>2 DEF Stages
    <3>4. Stages'
      BY <1>1, <1>2, <2>1, <3>2, <3>3 DEF Stages
    <3>5. LocalStages'
      BY <1>1, <2>1, <3>2 DEF Held, LocalStages
    <3>6. InHand'
      BY <2>5 DEF InHand, Feed
    <3> QED  BY <3>4, <3>5, <3>6 DEF Held
  <2> QED  BY <2>3, <2>4, <2>5
<1> QED  BY <1>5, <1>6

\* motor_main sends whole frames of its own; one that finds no room in the buffer is lost,
\* and the buffer still holds the others in order.
LEMMA HeldIngest ==
  ASSUME Held, Sent, Ingest
  PROVE  Held'
<1>1. script' = script /\ done' = done /\ pc = "ingest" /\ feed.targets = {}
  BY Zenon DEF Ingest, Sent
<1>2. /\ Stages /\ LocalStages /\ Local \in Sources
      /\ done[Local] \in Nat /\ read[Local] \in Nat /\ sent[Local] \in Nat
      /\ done[Local] <= read[Local] /\ read[Local] <= sent[Local] /\ sent[Local] <= 2 * Len(script[Local])
  BY DEF Held, Stages, Sources
<1>3. PICK m \in 0 .. Len(script[Local]) : sent[Local] = 2 * m
  BY <1>2 DEF LocalStages
<1>4. Len(script[Local]) \in Nat
  <2>1. script[Local] \in Seq(Frames)
    BY <1>2, IngressAssumption DEF Stages
  <2> QED  BY <2>1
<1>5. CASE sent[Local] = 2 * Len(script[Local])
  <2>1. UNCHANGED <<sent, read, kept, feed>>
    BY <1>5 DEF Ingest
  <2> QED  BY <1>1, <2>1, StagesElsewhere
<1>6. CASE sent[Local] # 2 * Len(script[Local])
  <2>1. /\ sent' = [sent EXCEPT ![Local] = sent[Local] + 2]
        /\ \/ read' = read /\ kept' = kept /\ feed' = feed
           \/ /\ read' = [read EXCEPT ![Local] = read[Local] + 2]
              /\ kept' = Append(kept, sent[Local] \div 2 + 1)
              /\ feed' = Feed(Local, FALSE)
    BY <1>6 DEF Ingest
  <2>2. /\ m + 1 \in 0 .. Len(script[Local]) /\ m \in Nat /\ sent[Local] + 2 = 2 * (m + 1)
        /\ sent[Local] \div 2 + 1 = m + 1
    BY <1>3, <1>4, <1>6
  <2>3. /\ sent' \in [Sources -> Nat] /\ sent'[Local] = 2 * (m + 1)
        /\ \A s \in Sources : s # Local => sent'[s] = sent[s]
    BY <1>2, <2>1, <2>2 DEF Stages
  <2>4. \A s \in Sources : sent[s] <= sent'[s] /\ sent'[s] <= 2 * Len(script[s])
    <3>1. sent[Local] <= sent'[Local] /\ sent'[Local] <= 2 * Len(script[Local])
      BY <1>2, <1>4, <2>2, <2>3
    <3>2. ASSUME NEW s \in Sources, s # Local
          PROVE  sent[s] <= sent'[s] /\ sent'[s] <= 2 * Len(script[s])
      BY <1>2, <2>3, <3>2 DEF Stages
    <3> QED  BY <3>1, <3>2
  <2>5. /\ kept \in Seq(Nat \ {0}) /\ Len(kept) \in Nat /\ DOMAIN kept = 1 .. Len(kept)
        /\ read[Local] = 2 * Len(kept)
        /\ \A k \in DOMAIN kept : kept[k] \in Nat \ {0} /\ 2 * kept[k] <= sent[Local]
        /\ \A k, l \in DOMAIN kept : k < l => kept[k] < kept[l]
    BY <1>2 DEF LocalStages
  <2>6. InHand'
    BY <1>1, <2>1 DEF InHand, Feed
  <2>7. CASE read' = read /\ kept' = kept
    <3>1. \A s \in Sources : read[s] <= sent'[s]
      BY <1>2, <2>3, <2>4 DEF Stages
    <3>2. Stages'
      BY <1>1, <1>2, <2>3, <2>4, <2>7, <3>1 DEF Stages
    <3>3. \A k \in DOMAIN kept : 2 * kept[k] <= sent'[Local]
      BY <1>2, <2>2, <2>3, <2>5
    <3>4. LocalStages'
      BY <1>1, <2>2, <2>3, <2>5, <2>7, <3>3 DEF LocalStages
    <3> QED  BY <2>6, <3>2, <3>4 DEF Held
  <2>8. CASE read' = [read EXCEPT ![Local] = read[Local] + 2] /\ kept' = Append(kept, m + 1)
    <3>1. read' \in [Sources -> Nat] /\ read'[Local] = read[Local] + 2
      BY <1>2, <2>8 DEF Stages
    <3>2. \A s \in Sources : done[s] <= read'[s] /\ read'[s] <= sent'[s]
      <4>1. ASSUME NEW s \in Sources, s # Local
            PROVE  done[s] <= read'[s] /\ read'[s] <= sent'[s]
        BY <1>2, <2>3, <2>8, <4>1 DEF Stages
      <4>2. done[Local] <= read'[Local] /\ read'[Local] <= sent'[Local]
        BY <1>2, <2>2, <2>3, <3>1
      <4> QED  BY <4>1, <4>2
    <3>3. Stages'
      BY <1>1, <1>2, <2>3, <2>4, <3>1, <3>2 DEF Stages
    <3>4. PICK e : e = Len(kept) + 1
      OBVIOUS
    <3>5. /\ kept' \in Seq(Nat \ {0}) /\ Len(kept') = e /\ DOMAIN kept' = 1 .. e
          /\ kept'[e] = m + 1 /\ \A k \in 1 .. Len(kept) : kept'[k] = kept[k]
      BY <2>2, <2>5, <2>8, <3>4
    <3>6. read'[Local] = 2 * Len(kept')
      BY <2>5, <3>1, <3>4, <3>5
    <3>7. \A k \in DOMAIN kept : kept[k] < m + 1
      BY <1>3, <2>2, <2>5
    <3>8. \A k \in DOMAIN kept' : 2 * kept'[k] <= sent'[Local]
      <4>1. ASSUME NEW k \in DOMAIN kept', k # e  PROVE 2 * kept'[k] <= sent'[Local]
        <5>1. k \in DOMAIN kept /\ kept'[k] = kept[k]
          BY <2>5, <3>4, <3>5, <4>1
        <5> QED  BY <1>2, <1>3, <2>2, <2>3, <2>5, <5>1
      <4> QED  BY <2>3, <3>5, <4>1
    <3>9. ASSUME NEW k \in DOMAIN kept', NEW l \in DOMAIN kept', k < l
          PROVE  kept'[k] < kept'[l]
      <4>1. k \in DOMAIN kept /\ kept'[k] = kept[k]
        BY <2>5, <3>4, <3>5, <3>9
      <4>2. CASE l = e
        BY <3>5, <3>7, <4>1, <4>2
      <4>3. CASE l # e
        <5>1. l \in DOMAIN kept /\ kept'[l] = kept[l]
          BY <2>5, <3>4, <3>5, <4>3
        <5> QED  BY <2>5, <3>9, <4>1, <5>1
      <4> QED  BY <4>2, <4>3
    <3>10. LocalStages'
      BY <1>1, <2>2, <2>3, <3>5, <3>6, <3>8, <3>9 DEF LocalStages
    <3> QED  BY <2>6, <3>3, <3>10 DEF Held
  <2> QED  BY <2>1, <2>2, <2>7, <2>8
<1> QED  BY <1>5, <1>6


\* The streams and the frame in hand, through every step.
LEMMA HeldNext ==
  ASSUME RInv, Sent, Held, Serving, [Next]_vars
  PROVE  Held'
<1> USE DEF inboxVars, peerVars, pipeVars, threadVars
<1>1. CASE \/ \E c \in Clients : Connect(c) \/ \E how \in {"closed", "broken"} : Leave(c, how)
           \/ \E p \in Partitions : Peek(p) \/ Pop(p) \/ Halt(p)
           \/ Stop \/ PollIdle \/ Poll \/ Served \/ Blocked \/ Events \/ Close
           \/ UNCHANGED vars
  <2>1. UNCHANGED <<script, sent, read, done, kept>> /\ feed' = feed
    BY <1>1, Zenon DEF Connect, Leave, Peek, Pop, Halt, Stop, PollIdle, Poll, Served, Blocked,
                       Events, Close, vars
  <2> QED  BY <2>1, StagesElsewhere
<1>2. CASE Serve \/ FeedReturns
  <2>1. /\ UNCHANGED <<script, sent, read, done, kept>>
        /\ feed' \in {feed, Idle} \/ \E s, retry : feed' = Feed(s, retry)
    BY <1>2, Zenon DEF Serve, Retry, FeedReturns
  <2>2. feed'.targets = {} \/ feed' = feed
    BY <2>1 DEF Idle, Feed
  <2> QED  BY <2>1, <2>2, StagesElsewhere
<1>3. CASE Recv
  <2>1. at > 0 /\ conns[at] \in Clients
    <3>1. conns \in Seq(Clients) /\ at \in 0 .. Len(conns) /\ at > 0 /\ Len(conns) \in Nat
      BY <1>3 DEF Recv, Serving
    <3> QED  BY <3>1
  <2> QED  BY <1>3, <2>1, HeldClients
<1> QED
  BY <1>1, <1>2, <1>3, HeldFeed, HeldClients, HeldIngest DEF Next, Server

\* Serving, by its variables.
ServingOf(cs, bs, pe, a) ==
  /\ cs \in Seq(Clients) /\ bs \in Seq(Clients)
  /\ pe \in [Clients -> {"away", "open", "closed", "broken", "gone"}]
  /\ Len(cs) <= MaxClients
  /\ a \in 0 .. Len(cs)
  /\ \A i, j \in DOMAIN cs : i # j => cs[i] # cs[j]
  /\ \A i, j \in DOMAIN bs : i # j => bs[i] # bs[j]
  /\ \A i \in DOMAIN cs, j \in DOMAIN bs : cs[i] # bs[j]
  /\ \A i \in DOMAIN cs : pe[cs[i]] # "away"
  /\ \A j \in DOMAIN bs : pe[bs[j]] # "away"

\* Where the thread is, and whom it serves.
Place ==
  /\ pc \in {"ingest", "poll", "stopped"} => at = 0
  /\ pc \in {"blocked", "events", "recv", "close"} => at > 0
  /\ pc = "feed" => \/ feed.source = Local /\ at = 0
                    \/ feed.source \in Clients /\ at > 0 /\ feed.source = conns[at]

\* Serving is the two together.
LEMMA ServingIs == Serving <=> ServingOf(conns, backlog, peer, at) /\ Place
  BY DEF Serving, ServingOf, Place

\* A connection that comes in was nowhere before.
LEMMA ServingConnect ==
  ASSUME Serving, NEW c \in Clients, Connect(c)
  PROVE  Serving'
<1>1. /\ peer[c] = "away" /\ peer' = [peer EXCEPT ![c] = "open"] /\ backlog' = Append(backlog, c)
      /\ conns' = conns /\ at' = at /\ pc' = pc /\ feed' = feed
  BY Zenon DEF Connect, threadVars
<1>2. ServingOf(conns, backlog, peer, at) /\ Place
  BY ServingIs
<1>3. /\ conns \in Seq(Clients) /\ backlog \in Seq(Clients) /\ Len(backlog) \in Nat
      /\ DOMAIN backlog = 1 .. Len(backlog)
      /\ peer \in [Clients -> {"away", "open", "closed", "broken", "gone"}]
      /\ \A j \in DOMAIN backlog : backlog[j] \in Clients /\ backlog[j] # c
      /\ \A i \in DOMAIN conns : conns[i] \in Clients /\ conns[i] # c
  BY <1>1, <1>2 DEF ServingOf
<1>4. PICK e : e = Len(backlog) + 1
  OBVIOUS
<1>5. /\ backlog' \in Seq(Clients) /\ DOMAIN backlog' = 1 .. e /\ backlog'[e] = c
      /\ \A j \in DOMAIN backlog : backlog'[j] = backlog[j]
      /\ \A j \in DOMAIN backlog' : j = e \/ j \in DOMAIN backlog
  BY <1>1, <1>3, <1>4
<1>6. /\ peer' \in [Clients -> {"away", "open", "closed", "broken", "gone"}]
      /\ peer'[c] = "open" /\ \A d \in Clients : d # c => peer'[d] = peer[d]
  BY <1>1, <1>3
<1>7. \A i, j \in DOMAIN backlog' : i # j => backlog'[i] # backlog'[j]
  BY <1>2, <1>3, <1>5 DEF ServingOf
<1>8. \A i \in DOMAIN conns, j \in DOMAIN backlog' : conns[i] # backlog'[j]
  BY <1>2, <1>3, <1>5 DEF ServingOf
<1>9. \A i \in DOMAIN conns : peer'[conns[i]] # "away"
  BY <1>2, <1>3, <1>6 DEF ServingOf
<1>10. \A j \in DOMAIN backlog' : peer'[backlog'[j]] # "away"
  BY <1>2, <1>3, <1>5, <1>6 DEF ServingOf
<1>11. ServingOf(conns', backlog', peer', at')
  BY <1>1, <1>2, <1>5, <1>6, <1>7, <1>8, <1>9, <1>10 DEF ServingOf
<1>12. Place'
  BY <1>1, <1>2 DEF Place
<1> QED  BY <1>11, <1>12, ServingIs DEF Serving, ServingOf, Place

\* A far end that leaves stays known.
LEMMA ServingLeave ==
  ASSUME Serving, NEW c \in Clients, NEW how \in {"closed", "broken"}, Leave(c, how)
  PROVE  Serving'
<1>1. /\ peer' = [peer EXCEPT ![c] = how] /\ peer \in [Clients -> {"away", "open", "closed", "broken", "gone"}]
      /\ backlog' = backlog /\ conns' = conns /\ at' = at /\ pc' = pc /\ feed' = feed
  BY Zenon DEF Leave, serverVars, threadVars, Serving
<1>2. /\ peer' \in [Clients -> {"away", "open", "closed", "broken", "gone"}]
      /\ \A d \in Clients : peer[d] # "away" => peer'[d] # "away"
  BY <1>1
<1>3. /\ \A i \in DOMAIN conns : conns[i] \in Clients
      /\ \A j \in DOMAIN backlog : backlog[j] \in Clients
  BY DEF Serving
<1> QED  BY <1>1, <1>2, <1>3 DEF Serving

\* The first elements of one sequence moved to the end of another.
Joined(g, h, a) == g \o SubSeq(h, 1, a)
Rest(h, a) == SubSeq(h, a + 1, Len(h))

\* What is left of the other, element by element.
LEMMA RestIs ==
  ASSUME NEW C, NEW h \in Seq(C), NEW a \in Nat, a <= Len(h)
  PROVE  /\ Rest(h, a) \in Seq(C) /\ Len(Rest(h, a)) = Len(h) - a
         /\ \A i \in 1 .. Len(h) - a : Rest(h, a)[i] = h[a + i]
<1>1. /\ Len(h) \in Nat /\ \A i \in 1 .. Len(h) : h[i] \in C
  OBVIOUS
<1>2. PICK l \in Nat : l = Len(h)
  BY <1>1
<1>5. PICK k : k = SubSeq(h, a + 1, l)
  OBVIOUS
<1>6. /\ k \in Seq(C) /\ Len(k) = l - a /\ \A i \in 1 .. l - a : k[i] = h[a + i]
  <2>1. PICK b \in Int : b = a + 1
    OBVIOUS
  <2>2. \A i \in b .. l : h[i] \in C
    BY <1>1, <1>2, <2>1
  <2>3. /\ SubSeq(h, b, l) \in Seq(C) /\ Len(SubSeq(h, b, l)) = (IF b <= l THEN l - b + 1 ELSE 0)
        /\ \A i \in 1 .. l - b + 1 : SubSeq(h, b, l)[i] = h[b + i - 1]
    <3>1. SubSeq(h, b, l) = [i \in 1 .. (1 + l) - b |-> h[i + b - 1]]
      OBVIOUS
    <3>2. ASSUME NEW i \in 1 .. (1 + l) - b  PROVE h[i + b - 1] \in C /\ i + b - 1 = b + i - 1
      <4>1. i + b - 1 \in b .. l /\ i + b - 1 = b + i - 1
        OBVIOUS
      <4> QED  BY <2>2, <4>1
    <3>3. b <= l => (1 + l) - b \in Nat /\ (1 + l) - b = l - b + 1
      OBVIOUS
    <3> QED  BY <2>1, <3>1, <3>2, <3>3
  <2>4. k = SubSeq(h, b, l)
    BY <1>5, <2>1
  <2>5. l - b + 1 = l - a /\ (b <= l \/ l - a = 0) /\ (b > l => l - a = 0)
    BY <1>2, <2>1
  <2>6. Len(k) = l - a
    BY <2>3, <2>4, <2>5
  <2>7. ASSUME NEW i \in 1 .. l - a  PROVE k[i] = h[a + i]
    <3>1. b + i - 1 = a + i
      BY <1>2, <2>1
    <3> QED  BY <2>3, <2>4, <2>5, <3>1
  <2> QED  BY <2>3, <2>4, <2>6, <2>7
<1>7. k = Rest(h, a)
  BY <1>2, <1>5 DEF Rest
<1> QED  BY <1>2, <1>6, <1>7

\* What the two are, element by element.
LEMMA Moved ==
  ASSUME NEW C, NEW g \in Seq(C), NEW h \in Seq(C), NEW a \in Nat, a <= Len(h)
  PROVE  /\ Joined(g, h, a) \in Seq(C) /\ Len(Joined(g, h, a)) = Len(g) + a
         /\ Rest(h, a) \in Seq(C) /\ Len(Rest(h, a)) = Len(h) - a
         /\ \A i \in 1 .. Len(g) : Joined(g, h, a)[i] = g[i]
         /\ \A i \in 1 .. a : Joined(g, h, a)[Len(g) + i] = h[i]
         /\ \A i \in 1 .. Len(h) - a : Rest(h, a)[i] = h[a + i]
<1>1. /\ Len(g) \in Nat /\ Len(h) \in Nat
  OBVIOUS
<1>2. PICK l \in Nat, m \in Nat : l = Len(h) /\ m = Len(g)
  BY <1>1
<1>3. PICK f : f = SubSeq(h, 1, a)
  OBVIOUS
<1>4. f \in Seq(C) /\ Len(f) = a /\ \A i \in 1 .. a : f[i] = h[i]
  BY <1>3, <1>1
<1>5. Rest(h, a) \in Seq(C) /\ Len(Rest(h, a)) = Len(h) - a
  BY RestIs
<1>6. \A i \in 1 .. Len(h) - a : Rest(h, a)[i] = h[a + i]
  BY RestIs
<1>7. PICK z : z = g \o f
  OBVIOUS
<1>8. /\ z \in Seq(C) /\ Len(z) = m + a
      /\ \A i \in 1 .. m + a : z[i] = IF i <= m THEN g[i] ELSE f[i - m]
  <2>1. f \in Seq(C) /\ Len(f) = a /\ Len(g) = m
    BY <1>2, <1>4
  <2>2. z \in Seq(C) /\ Len(z) = Len(g) + Len(f)
    BY <1>7, <2>1, ConcatProperties
  <2>3. \A i \in 1 .. Len(g) + Len(f) : z[i] = IF i <= Len(g) THEN g[i] ELSE f[i - Len(g)]
    BY <1>7, <2>1, ConcatProperties
  <2> QED  BY <2>1, <2>2, <2>3
<1>9. ASSUME NEW i \in 1 .. m  PROVE z[i] = g[i]
  BY <1>8
<1>10. ASSUME NEW i \in 1 .. a  PROVE z[m + i] = h[i]
  <2>1. m + i \in 1 .. m + a /\ ~(m + i <= m) /\ (m + i) - m = i
    OBVIOUS
  <2> QED  BY <1>4, <1>8, <2>1
<1>11. z = Joined(g, h, a)
  BY <1>3, <1>7 DEF Joined
<1> QED  BY <1>2, <1>5, <1>6, <1>8, <1>9, <1>10, <1>11



\* A sequence without one of its elements.
LEMMA Removed ==
  ASSUME NEW C, NEW h \in Seq(C), NEW a \in 1 .. Len(h)
  PROVE  /\ RemoveAt(h, a) \in Seq(C) /\ Len(RemoveAt(h, a)) = Len(h) - 1
         /\ \A i \in 1 .. Len(h) - 1 : RemoveAt(h, a)[i] = h[IF i < a THEN i ELSE i + 1]
<1>1. PICK l \in Nat : l = Len(h) /\ a \in Nat /\ a <= Len(h)
  OBVIOUS
<1>2. PICK f : f = SubSeq(h, 1, a - 1)
  OBVIOUS
<1>3. f \in Seq(C) /\ Len(f) = a - 1 /\ \A i \in 1 .. a - 1 : f[i] = h[i]
  <2>1. a - 1 \in Nat /\ a - 1 <= Len(h)
    BY <1>1
  <2> QED  BY <1>2, <2>1
<1>4. PICK k : k = SubSeq(h, a + 1, Len(h))
  OBVIOUS
<1>5. k \in Seq(C) /\ Len(k) = l - a /\ \A i \in 1 .. l - a : k[i] = h[a + i]
  <2>1. k = Rest(h, a)
    BY <1>4 DEF Rest
  <2>2. a \in Nat /\ a <= Len(h) /\ Len(h) = l
    BY <1>1
  <2>3. Rest(h, a) \in Seq(C) /\ Len(Rest(h, a)) = Len(h) - a
    BY <2>2, RestIs
  <2>4. \A i \in 1 .. Len(h) - a : Rest(h, a)[i] = h[a + i]
    BY <2>2, RestIs
  <2> QED  BY <2>1, <2>2, <2>3, <2>4
<1>6. PICK z : z = f \o k
  OBVIOUS
<1>7. PICK u \in Nat, v \in Nat : u = a - 1 /\ v = l - a
  <2>1. a - 1 \in Nat /\ l - a \in Nat
    BY <1>1
  <2> QED  BY <2>1
<1>8. /\ z \in Seq(C) /\ Len(z) = u + v
      /\ \A i \in 1 .. u + v : z[i] = IF i <= u THEN f[i] ELSE k[i - u]
  <2>1. Len(f) = u /\ Len(k) = v
    BY <1>3, <1>5, <1>7
  <2>2. f \in Seq(C) /\ k \in Seq(C)
    BY <1>3, <1>5
  <2>3. z \in Seq(C) /\ Len(z) = Len(f) + Len(k)
    BY <1>6, <2>2, ConcatProperties
  <2>4. \A i \in 1 .. Len(f) + Len(k) : z[i] = IF i <= Len(f) THEN f[i] ELSE k[i - Len(f)]
    BY <1>6, <2>2, ConcatProperties
  <2> QED  BY <2>1, <2>3, <2>4
<1>9. ASSUME NEW i \in 1 .. l - 1  PROVE z[i] = h[IF i < a THEN i ELSE i + 1]
  <2>1. i \in 1 .. u + v
    BY <1>1, <1>7
  <2>2. CASE i < a
    <3>1. i <= u /\ i \in 1 .. a - 1
      BY <1>1, <1>7, <2>2
    <3> QED  BY <1>3, <1>8, <2>1, <2>2, <3>1
  <2>3. CASE ~(i < a)
    <3>1. PICK j \in 1 .. l - a : j = i - u /\ a + j = i + 1 /\ ~(i <= u)
      BY <1>1, <1>7, <2>3
    <3>2. z[i] = k[j] /\ k[j] = h[a + j]
      BY <1>5, <1>8, <2>1, <3>1
    <3> QED  BY <2>3, <3>1, <3>2
  <2> QED  BY <2>2, <2>3
<1>10. RemoveAt(h, a) = z
  BY <1>2, <1>4, <1>6 DEF RemoveAt
<1>11. Len(z) = Len(h) - 1
  BY <1>1, <1>7, <1>8
<1> QED  BY <1>1, <1>8, <1>9, <1>10, <1>11

\* accept_ready moves the connections that wait longest to the end of the table.
LEMMA PollMoves ==
  ASSUME Serving, Poll
  PROVE  /\ conns' \in Seq(Clients) /\ backlog' \in Seq(Clients) /\ Accepted \in Nat
         /\ Len(conns') \in Nat /\ Len(conns') <= MaxClients
         /\ \A i \in DOMAIN conns' :
              \/ i \in DOMAIN conns /\ conns'[i] = conns[i]
              \/ \E k \in DOMAIN backlog :
                   k <= Accepted /\ i = Len(conns) + k /\ conns'[i] = backlog[k]
         /\ \A j \in DOMAIN backlog' :
              \E k \in DOMAIN backlog : k = Accepted + j /\ k > Accepted /\ backlog'[j] = backlog[k]
<1>1. /\ conns' = conns \o SubSeq(backlog, 1, Accepted)
      /\ backlog' = SubSeq(backlog, Accepted + 1, Len(backlog))
  BY Zenon DEF Poll
<1>2. ServingOf(conns, backlog, peer, at)
  BY ServingIs
<1>3. PICK g, h, a : g = conns /\ h = backlog /\ a = Accepted
  OBVIOUS
<1>4. /\ g \in Seq(Clients) /\ h \in Seq(Clients) /\ Len(g) \in Nat /\ Len(h) \in Nat
      /\ Len(g) <= MaxClients /\ MaxClients \in Nat
      /\ DOMAIN g = 1 .. Len(g) /\ DOMAIN h = 1 .. Len(h)
  BY <1>2, <1>3, IngressAssumption DEF ServingOf
<1>5. a \in Nat /\ a <= Len(h) /\ Len(g) + a <= MaxClients
  <2>1. PICK l \in Nat, m \in Nat : l = Len(h) /\ m = Len(g)
    BY <1>4
  <2>2. a = IF MaxClients - m < l THEN MaxClients - m ELSE l
    BY <1>3, <2>1, Zenon DEF Accepted
  <2>3. MaxClients \in Nat /\ m <= MaxClients
    BY <1>4, <2>1
  <2>4. a \in Nat /\ a <= l /\ m + a <= MaxClients
    BY <2>2, <2>3
  <2> QED  BY <2>1, <2>4
<1>6. PICK x, y : x = conns' /\ y = backlog'
  OBVIOUS
<1>7. /\ x \in Seq(Clients) /\ Len(x) = Len(g) + a
      /\ y \in Seq(Clients) /\ Len(y) = Len(h) - a
      /\ \A i \in 1 .. Len(g) : x[i] = g[i]
      /\ \A i \in 1 .. a : x[Len(g) + i] = h[i]
      /\ \A i \in 1 .. Len(h) - a : y[i] = h[a + i]
  <2>1. x = Joined(g, h, a) /\ y = Rest(h, a)
    BY <1>1, <1>3, <1>6 DEF Joined, Rest
  <2>2. g \in Seq(Clients) /\ h \in Seq(Clients) /\ a \in Nat /\ a <= Len(h)
    BY <1>4, <1>5
  <2>3. Joined(g, h, a) \in Seq(Clients) /\ Len(Joined(g, h, a)) = Len(g) + a
    BY <2>2, Moved
  <2>4. Rest(h, a) \in Seq(Clients) /\ Len(Rest(h, a)) = Len(h) - a
    BY <2>2, RestIs
  <2>5. \A i \in 1 .. Len(g) : Joined(g, h, a)[i] = g[i]
    BY <2>2, Moved
  <2>6. \A i \in 1 .. a : Joined(g, h, a)[Len(g) + i] = h[i]
    BY <2>2, Moved
  <2>7. \A i \in 1 .. Len(h) - a : Rest(h, a)[i] = h[a + i]
    BY <2>2, RestIs
  <2> QED  BY <2>1, <2>3, <2>4, <2>5, <2>6, <2>7
<1>8. ASSUME NEW i \in DOMAIN x
      PROVE  \/ i \in DOMAIN g /\ x[i] = g[i]
             \/ \E k \in DOMAIN h : k <= a /\ i = Len(g) + k /\ x[i] = h[k]
  <2>1. i \in 1 .. Len(g) + a
    BY <1>4, <1>5, <1>7
  <2>2. CASE i <= Len(g)
    BY <1>4, <1>7, <2>1, <2>2
  <2>3. CASE i > Len(g)
    <3>1. PICK k \in 1 .. a : i = Len(g) + k
      <4>1. i - Len(g) \in 1 .. a /\ i = Len(g) + (i - Len(g))
        BY <1>4, <1>5, <2>1, <2>3
      <4> QED  BY <4>1
    <3>2. k \in DOMAIN h /\ k <= a /\ x[i] = h[k]
      BY <1>4, <1>5, <1>7, <3>1
    <3> QED  BY <3>1, <3>2
  <2> QED  BY <1>4, <2>1, <2>2, <2>3
<1>9. ASSUME NEW j \in DOMAIN y
      PROVE  \E k \in DOMAIN h : k = a + j /\ k > a /\ y[j] = h[k]
  <2>1. j \in 1 .. Len(h) - a
    BY <1>7
  <2>2. PICK k : k = a + j
    OBVIOUS
  <2>3. k \in DOMAIN h /\ k > a
    BY <1>4, <1>5, <2>1, <2>2
  <2>4. y[j] = h[k]
    BY <1>7, <2>1, <2>2
  <2> QED  BY <2>2, <2>3, <2>4
<1>10. Len(x) \in Nat /\ Len(x) <= MaxClients
  <2>1. Len(g) + a \in Nat
    BY <1>4, <1>5
  <2> QED  BY <1>5, <1>7, <2>1
<1> QED  BY <1>3, <1>5, <1>6, <1>7, <1>8, <1>9, <1>10

\* A connection that is accepted is in the table once and waits no more.
LEMMA ServingPoll ==
  ASSUME Serving, Poll
  PROVE  Serving'
<1>1. at' = Len(conns') /\ pc' = "serve" /\ peer' = peer
  BY Zenon DEF Poll, peerVars
<1>2. ServingOf(conns, backlog, peer, at)
  BY ServingIs
<1>3. PICK g, h, a : g = conns /\ h = backlog /\ a = Accepted
  OBVIOUS
<1>4. PICK x, y : x = conns' /\ y = backlog'
  OBVIOUS
<1>5. /\ g \in Seq(Clients) /\ h \in Seq(Clients) /\ DOMAIN h = 1 .. Len(h) /\ Len(h) \in Nat
      /\ x \in Seq(Clients) /\ y \in Seq(Clients) /\ a \in Nat /\ DOMAIN y = 1 .. Len(y) /\ Len(y) \in Nat
      /\ Len(x) \in Nat /\ Len(x) <= MaxClients
  <2>1. g \in Seq(Clients) /\ h \in Seq(Clients)
    BY <1>2, <1>3 DEF ServingOf
  <2>2. x \in Seq(Clients) /\ y \in Seq(Clients) /\ a \in Nat /\ Len(x) \in Nat /\ Len(x) <= MaxClients
    BY <1>3, <1>4, PollMoves
  <2> QED  BY <2>1, <2>2
<1>8. \A i \in DOMAIN x :
        \/ i \in DOMAIN g /\ x[i] = g[i]
        \/ \E k \in DOMAIN h : k <= a /\ i = Len(g) + k /\ x[i] = h[k]
  BY <1>3, <1>4, PollMoves
<1>9. \A j \in DOMAIN y : \E k \in DOMAIN h : k = a + j /\ k > a /\ y[j] = h[k]
  BY <1>3, <1>4, PollMoves
<1>10. \A i, j \in DOMAIN x : i # j => x[i] # x[j]
  <2>1. /\ \A i, j \in DOMAIN g : i # j => g[i] # g[j]
        /\ \A i, j \in DOMAIN h : i # j => h[i] # h[j]
        /\ \A i \in DOMAIN g, j \in DOMAIN h : g[i] # h[j]
    BY <1>2, <1>3 DEF ServingOf
  <2> QED  BY <1>8, <2>1
<1>11. \A i, j \in DOMAIN y : i # j => y[i] # y[j]
  <2>1. \A i, j \in DOMAIN h : i # j => h[i] # h[j]
    BY <1>2, <1>3 DEF ServingOf
  <2>2. ASSUME NEW i \in DOMAIN y, NEW j \in DOMAIN y, i # j  PROVE y[i] # y[j]
    <3>1. i \in Nat /\ j \in Nat /\ a + i # a + j
      BY <1>5, <2>2
    <3> QED  BY <1>9, <2>1, <3>1
  <2> QED  BY <2>2
<1>12. \A i \in DOMAIN x, j \in DOMAIN y : x[i] # y[j]
  <2>1. /\ \A i, j \in DOMAIN h : i # j => h[i] # h[j]
        /\ \A i \in DOMAIN g, j \in DOMAIN h : g[i] # h[j]
    BY <1>2, <1>3 DEF ServingOf
  <2>2. ASSUME NEW i \in DOMAIN x, NEW j \in DOMAIN y  PROVE x[i] # y[j]
    <3>1. PICK m \in DOMAIN h : m > a /\ y[j] = h[m]
      BY <1>9
    <3>2. CASE i \in DOMAIN g /\ x[i] = g[i]
      BY <2>1, <3>1, <3>2
    <3>3. CASE \E k \in DOMAIN h : k <= a /\ i = Len(g) + k /\ x[i] = h[k]
      <4>1. PICK k \in DOMAIN h : k <= a /\ x[i] = h[k]
        BY <3>3
      <4>2. k # m
        BY <1>5, <3>1, <4>1
      <4> QED  BY <2>1, <3>1, <4>1, <4>2
    <3> QED  BY <1>8, <3>2, <3>3
  <2> QED  BY <2>2
<1>13. /\ \A i \in DOMAIN x : peer[x[i]] # "away"
       /\ \A j \in DOMAIN y : peer[y[j]] # "away"
  <2>1. /\ \A i \in DOMAIN g : peer[g[i]] # "away"
        /\ \A j \in DOMAIN h : peer[h[j]] # "away"
    BY <1>2, <1>3 DEF ServingOf
  <2> QED  BY <1>8, <1>9, <2>1
<1>14. at' \in 0 .. Len(x)
  BY <1>1, <1>4, <1>5
<1>15. ServingOf(x, y, peer', at')
  BY <1>1, <1>2, <1>5, <1>10, <1>11, <1>12, <1>13, <1>14 DEF ServingOf
<1> QED  BY <1>1, <1>4, <1>15 DEF Serving, ServingOf

\* close_client takes one connection off the table; its far end is gone for good.
LEMMA ServingClose ==
  ASSUME Serving, Close
  PROVE  Serving'
<1>1. /\ conns' = RemoveAt(conns, at) /\ backlog' = backlog /\ pc = "close"
      /\ at' = at - 1 /\ pc' = "serve" /\ peer' = [peer EXCEPT ![conns[at]] = "gone"]
  BY Zenon DEF Close
<1>2. ServingOf(conns, backlog, peer, at) /\ at > 0
  BY <1>1, ServingIs DEF Place
<1>3. PICK g, a : g = conns /\ a = at
  OBVIOUS
<1>4. /\ g \in Seq(Clients) /\ Len(g) \in Nat /\ DOMAIN g = 1 .. Len(g) /\ a \in 1 .. Len(g)
      /\ \A i \in DOMAIN g : g[i] \in Clients
  BY <1>2, <1>3 DEF ServingOf
<1>5. PICK x : x = conns'
  OBVIOUS
<1>6. /\ x \in Seq(Clients) /\ Len(x) = Len(g) - 1
      /\ \A i \in 1 .. Len(g) - 1 : x[i] = g[IF i < a THEN i ELSE i + 1]
  <2>1. x = RemoveAt(g, a)
    BY <1>1, <1>3, <1>5
  <2> QED  BY <1>4, <2>1, Removed
<1>7. ASSUME NEW i \in DOMAIN x
      PROVE  \E k \in DOMAIN g : x[i] = g[k] /\ k = IF i < a THEN i ELSE i + 1
  BY <1>4, <1>6
<1>8. \A i, j \in DOMAIN x : i # j => x[i] # x[j]
  <2>1. \A i, j \in DOMAIN g : i # j => g[i] # g[j]
    BY <1>2, <1>3 DEF ServingOf
  <2>2. ASSUME NEW i \in DOMAIN x, NEW j \in DOMAIN x, i # j  PROVE x[i] # x[j]
    <3>1. PICK k \in DOMAIN g : x[i] = g[k] /\ k = IF i < a THEN i ELSE i + 1
      BY <1>7
    <3>2. PICK m \in DOMAIN g : x[j] = g[m] /\ m = IF j < a THEN j ELSE j + 1
      BY <1>7
    <3>3. k # m
      BY <1>4, <1>6, <2>2, <3>1, <3>2
    <3> QED  BY <2>1, <3>1, <3>2, <3>3
  <2> QED  BY <2>2
<1>9. \A i \in DOMAIN x, j \in DOMAIN backlog : x[i] # backlog[j]
  <2>1. \A i \in DOMAIN g, j \in DOMAIN backlog : g[i] # backlog[j]
    BY <1>2, <1>3 DEF ServingOf
  <2> QED  BY <1>7, <2>1
<1>10. /\ peer' \in [Clients -> {"away", "open", "closed", "broken", "gone"}]
       /\ \A c \in Clients : peer[c] # "away" => peer'[c] # "away"
  BY <1>1, <1>2 DEF ServingOf
<1>11. \A i \in DOMAIN x : peer'[x[i]] # "away"
  <2>1. \A i \in DOMAIN g : peer'[g[i]] # "away"
    BY <1>2, <1>3, <1>4, <1>10 DEF ServingOf
  <2> QED  BY <1>7, <2>1
<1>12. \A j \in DOMAIN backlog : peer'[backlog[j]] # "away"
  BY <1>2, <1>10 DEF ServingOf
<1>13. Len(x) <= MaxClients /\ a - 1 \in 0 .. Len(x)
  BY <1>2, <1>3, <1>4, <1>6, IngressAssumption DEF ServingOf
<1>14. ServingOf(x, backlog, peer', a - 1)
  BY <1>2, <1>6, <1>8, <1>9, <1>10, <1>11, <1>12, <1>13 DEF ServingOf
<1> QED  BY <1>1, <1>3, <1>5, <1>14 DEF Serving, ServingOf


\* The steps of feed come back to where the connection is.
LEMMA ServingFeed ==
  ASSUME Serving, RInv, Sent,
         FeedReturns \/ FeedMalformed \/ FeedUnknown \/ FeedDispatch \/ FeedPublish
  PROVE  Serving'
<1>1. pc = "feed" /\ conns' = conns /\ backlog' = backlog /\ peer' = peer /\ at' = at
  BY Zenon DEF FeedReturns, FeedMalformed, FeedUnknown, FeedDispatch, FeedPublish, serverVars, peerVars
<1>2. ServingOf(conns', backlog', peer', at')
  <2>1. ServingOf(conns, backlog, peer, at)
    BY ServingIs
  <2> QED  BY <1>1, <2>1
<1>3. (feed.source = Local /\ at = 0) \/ (feed.source # Local /\ at > 0)
  BY <1>1, IngressAssumption DEF Serving
<1>4. \/ pc' = pc /\ feed'.source = feed.source
      \/ \E o \in {"ok", "error", "block"} : pc' = Return(feed.source, o)
  <2>1. CASE FeedReturns
    <3>1. pc' = Return(feed.source, IF feed.failed THEN "error" ELSE "ok")
      BY <2>1 DEF FeedReturns
    <3> QED  BY <3>1
  <2>2. CASE FeedMalformed
    BY <2>2 DEF FeedMalformed
  <2>3. CASE FeedUnknown
    <3>1. pc' = pc /\ feed' = [feed EXCEPT !.failed = TRUE]
      BY <2>3 DEF FeedUnknown
    <3> QED  BY <3>1 DEF RInv, FeedShaped
  <2>4. CASE FeedDispatch
    <3>1. PICK ps : \/ pc' = pc /\ feed' = [feed EXCEPT !.targets = ps]
                    \/ pc' = Return(feed.source, "block")
      BY <2>4, Zenon DEF FeedDispatch
    <3> QED  BY <3>1 DEF RInv, FeedShaped
  <2>5. CASE FeedPublish
    <3>1. pc' = pc
      BY <2>5 DEF FeedPublish
    <3> QED  BY <2>5, <3>1, HistoryPublish
  <2> QED  BY <2>1, <2>2, <2>3, <2>4, <2>5
<1>5. Place'
  <2>1. CASE pc' = pc /\ feed'.source = feed.source
    BY <1>1, <2>1 DEF Serving, Place
  <2>2. CASE \E o \in {"ok", "error", "block"} : pc' = Return(feed.source, o)
    <3>1. /\ pc' \in {"poll", "blocked", "close", "events", "recv"}
          /\ feed.source = Local <=> pc' = "poll"
      BY <2>2 DEF Return
    <3> QED  BY <1>1, <1>3, <3>1 DEF Place
  <2> QED  BY <1>4, <2>1, <2>2
<1> QED  BY <1>2, <1>5 DEF Serving, ServingOf, Place

\* Connections are accepted once and the thread serves one that is there, through every step.
LEMMA ServingNext ==
  ASSUME RInv, Sent, Serving, [Next]_vars
  PROVE  Serving'
<1> USE DEF inboxVars, serverVars, peerVars, threadVars
<1>1. CASE \/ \E c \in Clients : Send(c)
           \/ \E p \in Partitions : Peek(p) \/ Pop(p) \/ Halt(p)
           \/ UNCHANGED vars
  <2>1. UNCHANGED <<conns, backlog, peer, at, pc, feed>>
    BY <1>1, Zenon DEF Send, Peek, Pop, Halt, vars
  <2> QED  BY <2>1 DEF Serving
<1>2. ServingOf(conns, backlog, peer, at) /\ at \in Nat /\ at <= Len(conns)
  BY DEF Serving, ServingOf
<1>3. CASE PollIdle \/ Served
  <2>1. UNCHANGED <<conns, backlog, peer, at>> /\ pc' = "ingest" /\ (pc = "poll" \/ at = 0)
    BY <1>3, Zenon DEF PollIdle, Served
  <2> QED  BY <2>1 DEF Serving
<1>4. CASE Serve
  <2>1. /\ UNCHANGED <<conns, backlog, peer, at>> /\ at > 0
        /\ pc' = "events" \/ (pc' = "feed" /\ feed' = Feed(conns[at], TRUE))
    BY <1>4, Zenon DEF Serve, Retry
  <2> QED  BY <2>1 DEF Serving, Feed
<1>5. CASE Blocked \/ Events \/ Recv
  <2>1. /\ UNCHANGED <<conns, backlog, peer>> /\ at > 0
        /\ \/ at' = at - 1 /\ pc' = "serve"
           \/ at' = at /\ pc' \in {"close", "recv"}
           \/ at' = at /\ pc' = "feed" /\ feed' = Feed(conns[at], FALSE)
    <3>1. at > 0
      BY <1>5 DEF Serving, Blocked, Events, Recv
    <3>2. CASE Blocked
      BY <3>1, <3>2, Zenon DEF Blocked
    <3>3. CASE Events
      BY <3>1, <3>3, Zenon DEF Events
    <3>4. CASE Recv
      BY <3>1, <3>4, Zenon DEF Recv
    <3> QED  BY <1>5, <3>2, <3>3, <3>4
  <2>2. ServingOf(conns, backlog, peer, at')
    <3>1. at' \in 0 .. Len(conns)
      <4>1. PICK l \in Nat : l = Len(conns)
        BY <1>2 DEF ServingOf
      <4>2. (at' = at - 1 \/ at' = at) /\ at > 0
        BY <2>1, Zenon
      <4>3. at \in Nat /\ at <= l
        BY <1>2, <4>1
      <4> QED  BY <4>1, <4>2, <4>3
    <3> QED  BY <1>2, <3>1 DEF ServingOf
  <2>3. ServingOf(conns', backlog', peer', at')
    BY <2>1, <2>2
  <2>4. conns[at] \in Clients
    <3>1. conns \in Seq(Clients) /\ at \in 1 .. Len(conns)
      BY <1>2, <2>1 DEF ServingOf
    <3> QED  BY <3>1
  <2>5. Place'
    BY <2>1, <2>4 DEF Place, Feed
  <2> QED  BY <2>3, <2>5 DEF Serving, ServingOf, Place
<1>6. CASE Ingest
  <2>1. /\ UNCHANGED <<conns, backlog, peer, at>> /\ pc = "ingest"
        /\ pc' = "poll" \/ (pc' = "feed" /\ feed' = Feed(Local, FALSE))
    BY <1>6, Zenon DEF Ingest
  <2> QED  BY <2>1 DEF Serving, Feed
<1>7. CASE Stop
  <2>1. /\ conns' = <<>> /\ backlog' = <<>> /\ pc' = "stopped" /\ at' = at
        /\ peer' = [c \in Clients |-> IF peer[c] = "away" THEN "away" ELSE "gone"]
    BY <1>7, Zenon DEF Stop
  <2>2. at = 0
    BY <1>7 DEF Stop, Serving
  <2>3. /\ conns' \in Seq(Clients) /\ backlog' \in Seq(Clients) /\ DOMAIN conns' = {} /\ DOMAIN backlog' = {}
        /\ Len(conns') = 0
    BY <2>1
  <2>4. peer' \in [Clients -> {"away", "open", "closed", "broken", "gone"}]
    BY <2>1
  <2> QED  BY <2>1, <2>2, <2>3, <2>4, IngressAssumption DEF Serving
<1> QED
  BY <1>1, <1>3, <1>4, <1>5, <1>6, <1>7, ServingConnect, ServingLeave, ServingPoll, ServingClose,
     ServingFeed DEF Next, Server


\* A connection that is closed, or about to be, is not served again.
LEMMA EndedNext ==
  ASSUME Serving, [Next]_vars, NEW c \in Clients, Ended(c)
  PROVE  Ended(c)'
<1> USE DEF inboxVars, serverVars, peerVars, threadVars
<1>1. /\ conns \in Seq(Clients) /\ backlog \in Seq(Clients) /\ Len(conns) \in Nat /\ Len(backlog) \in Nat
      /\ peer \in [Clients -> {"away", "open", "closed", "broken", "gone"}]
      /\ DOMAIN conns = 1 .. Len(conns) /\ DOMAIN backlog = 1 .. Len(backlog)
  BY DEF Serving
<1>2. /\ peer[c] # "away" /\ \A j \in DOMAIN backlog : backlog[j] # c
      /\ \A i \in DOMAIN conns : conns[i] = c => pc = "close" /\ i = at
  BY DEF Ended
<1>3. ASSUME NEW d \in Clients, Connect(d)  PROVE Ended(c)'
  <2>1. /\ peer[d] = "away" /\ peer' = [peer EXCEPT ![d] = "open"] /\ backlog' = Append(backlog, d)
        /\ conns' = conns /\ pc' = pc /\ at' = at
    BY <1>3, Zenon DEF Connect
  <2>2. c # d /\ peer'[c] = peer[c]
    BY <1>1, <1>2, <2>1
  <2>3. \A j \in DOMAIN backlog' : backlog'[j] # c
    BY <1>1, <1>2, <2>1, <2>2
  <2> QED  BY <1>2, <2>1, <2>2, <2>3 DEF Ended
<1>4. CASE \/ \E d \in Clients : Send(d) \/ \E how \in {"closed", "broken"} : Leave(d, how)
           \/ \E p \in Partitions : Peek(p) \/ Pop(p) \/ Halt(p)
           \/ UNCHANGED vars
  <2>1. /\ conns' = conns /\ backlog' = backlog /\ pc' = pc /\ at' = at
        /\ peer' = peer \/ \E d \in Clients, how \in {"closed", "broken"} : peer' = [peer EXCEPT ![d] = how]
    BY <1>4, Zenon DEF Send, Leave, Peek, Pop, Halt, vars
  <2>2. peer'[c] # "away"
    BY <1>1, <1>2, <2>1
  <2> QED  BY <1>2, <2>1, <2>2 DEF Ended
<1>5. CASE \/ Ingest \/ PollIdle \/ Serve \/ Served \/ Blocked \/ Events \/ Recv
           \/ FeedReturns \/ FeedMalformed \/ FeedUnknown \/ FeedDispatch \/ FeedPublish
  <2>1. conns' = conns /\ backlog' = backlog /\ peer' = peer /\ pc # "close"
    <3>1. CASE Ingest \/ PollIdle \/ Serve \/ Served
      BY <3>1, Zenon DEF Ingest, PollIdle, Serve, Served
    <3>2. CASE Blocked \/ Events \/ Recv
      BY <3>2, Zenon DEF Blocked, Events, Recv
    <3>3. CASE FeedReturns \/ FeedMalformed \/ FeedUnknown \/ FeedDispatch \/ FeedPublish
      BY <3>3, Zenon DEF FeedReturns, FeedMalformed, FeedUnknown, FeedDispatch, FeedPublish
    <3> QED  BY <1>5, <3>1, <3>2, <3>3
  <2> QED  BY <1>2, <2>1 DEF Ended
<1>6. CASE Stop
  <2>1. /\ conns' = <<>> /\ backlog' = <<>>
        /\ peer' = [d \in Clients |-> IF peer[d] = "away" THEN "away" ELSE "gone"]
    BY <1>6, Zenon DEF Stop
  <2>2. DOMAIN conns' = {} /\ DOMAIN backlog' = {} /\ peer'[c] = "gone"
    BY <1>2, <2>1
  <2> QED  BY <2>2 DEF Ended
<1>7. CASE Poll
  <2>1. peer' = peer /\ pc = "poll"
    BY <1>7, Zenon DEF Poll
  <2>2. \A i \in DOMAIN conns : conns[i] # c
    BY <1>2, <2>1
  <2>3. \A i \in DOMAIN conns' : conns'[i] # c
    BY <1>2, <1>7, <2>2, PollMoves
  <2>4. \A j \in DOMAIN backlog' : backlog'[j] # c
    BY <1>2, <1>7, PollMoves
  <2> QED  BY <1>2, <2>1, <2>3, <2>4 DEF Ended
<1>8. CASE Close
  <2>1. /\ conns' = RemoveAt(conns, at) /\ backlog' = backlog /\ pc = "close"
        /\ peer' = [peer EXCEPT ![conns[at]] = "gone"]
    BY <1>8, Zenon DEF Close
  <2>2. peer'[c] # "away"
    BY <1>1, <1>2, <2>1
  <2>3. at \in 1 .. Len(conns)
    BY <1>1, <2>1 DEF Serving
  <2>4. PICK x : x = RemoveAt(conns, at)
    OBVIOUS
  <2>5. x \in Seq(Clients) /\ Len(x) = Len(conns) - 1
    BY <1>1, <2>3, <2>4, Removed
  <2>6. \A i \in 1 .. Len(conns) - 1 : x[i] = conns[IF i < at THEN i ELSE i + 1]
    BY <1>1, <2>3, <2>4, Removed
  <2>7. ASSUME NEW i \in DOMAIN conns'  PROVE conns'[i] # c
    <3>1. conns' = x /\ i \in 1 .. Len(conns) - 1
      BY <1>1, <2>1, <2>4, <2>5, <2>7
    <3>2. PICK k : k = IF i < at THEN i ELSE i + 1
      OBVIOUS
    <3>3. k \in DOMAIN conns /\ k # at
      BY <1>1, <2>3, <3>1, <3>2
    <3>4. x[i] = conns[k]
      BY <2>6, <3>1, <3>2
    <3> QED  BY <1>2, <3>1, <3>3, <3>4
  <2> QED  BY <1>2, <2>1, <2>2, <2>7 DEF Ended
<1> QED
  BY <1>3, <1>4, <1>5, <1>6, <1>7, <1>8 DEF Next, Server


\* A connection is consumed up to a malformed header and then closed.
LEMMA SoundNext ==
  ASSUME RInv, Sent, Held, Serving, [Next]_vars, NEW c \in Clients, Sound(c)
  PROVE  Sound(c)' \/ Ended(c)'
<1> USE DEF inboxVars, pipeVars, serverVars, peerVars, threadVars
<1>1. c \in Sources /\ c # Local /\ done[c] \in Nat /\ read[c] \in Nat /\ done = [s \in Sources |-> done[s]]
  BY IngressAssumption DEF Held, Stages, Sources
<1>2. ASSUME script' = script, done'[c] = done[c]  PROVE Sound(c)'
  BY <1>2 DEF Sound
<1>3. ASSUME script' = script, done' = [done EXCEPT ![c] = done[c] + 2],
             Frame(c).kind \notin {"schema", "oversize"}
      PROVE  Sound(c)'
  <2>1. PICK q \in Nat : q = done[c] \div 2
    BY <1>1
  <2>2. done'[c] \div 2 = q + 1
    BY <1>1, <1>3, <2>1
  <2>3. Frame(c) = script[c][q + 1]
    BY <1>1, <2>1 DEF Frame, FrameOf, Item, Number
  <2>4. \A m \in 1 .. q : script[c][m].kind \notin {"schema", "oversize"}
    BY <2>1 DEF Sound
  <2>5. \A m \in 1 .. q + 1 : m \in 1 .. q \/ m = q + 1
    OBVIOUS
  <2> QED  BY <1>3, <2>2, <2>3, <2>4, <2>5 DEF Sound
<1>4. CASE \/ \E d \in Clients : Connect(d) \/ Send(d) \/ \E how \in {"closed", "broken"} : Leave(d, how)
           \/ \E p \in Partitions : Peek(p) \/ Pop(p) \/ Halt(p)
           \/ Ingest \/ Stop \/ PollIdle \/ Poll \/ Serve \/ Served \/ Blocked \/ Events \/ Recv \/ Close
           \/ FeedReturns \/ UNCHANGED vars
  <2>1. script' = script /\ done' = done
    <3>1. CASE \/ \E d \in Clients : Connect(d) \/ Send(d) \/ \E how \in {"closed", "broken"} : Leave(d, how)
               \/ \E p \in Partitions : Peek(p) \/ Pop(p) \/ Halt(p)
               \/ UNCHANGED vars
      BY <3>1, Zenon DEF Connect, Send, Leave, Peek, Pop, Halt, vars
    <3>2. CASE Ingest \/ Stop \/ PollIdle \/ Poll \/ Serve \/ Served
      BY <3>2, Zenon DEF Ingest, Stop, PollIdle, Poll, Serve, Served
    <3>3. CASE Blocked \/ Events \/ Recv \/ Close \/ FeedReturns
      BY <3>3, Zenon DEF Blocked, Events, Recv, Close, FeedReturns
    <3> QED  BY <1>4, <3>1, <3>2, <3>3
  <2> QED  BY <1>2, <2>1
<1>5. PICK s : s = feed.source
  OBVIOUS
<1>6. CASE FeedUnknown
  <2>1. /\ script' = script /\ Frame(s).kind = "unknown"
        /\ done' = [done EXCEPT ![s] = done[s] + 2]
    BY <1>5, <1>6 DEF FeedUnknown, Consumed
  <2>2. CASE s = c
    BY <1>3, <2>1, <2>2
  <2>3. CASE s # c
    BY <1>1, <1>2, <2>1, <2>3
  <2> QED  BY <2>2, <2>3
<1>7. CASE FeedDispatch
  <2>1. script' = script /\ (done' = done \/ done' = [done EXCEPT ![s] = Consumed(s, "block")])
    BY <1>5, <1>7, Zenon DEF FeedDispatch
  <2>2. Consumed(s, "block") = done[s]
    BY DEF Consumed
  <2>3. done'[c] = done[c]
    BY <1>1, <2>1, <2>2
  <2> QED  BY <1>2, <2>1, <2>3
<1>8. CASE FeedPublish
  <2>1. /\ script' = script
        /\ done' = done \/ done' = [done EXCEPT ![s] = Consumed(s, "routed")]
        /\ feed.targets # {}
    BY <1>5, <1>8, Zenon DEF FeedPublish
  <2>2. Consumed(s, "routed") = done[s] + 2
    BY DEF Consumed
  <2>3. Frame(s).kind \in {"broadcast", "single"}
    BY <1>5, <2>1 DEF Held, InHand
  <2>4. CASE done' = done
    BY <1>2, <2>1, <2>4
  <2>5. CASE done' = [done EXCEPT ![s] = done[s] + 2] /\ s = c
    BY <1>3, <2>1, <2>3, <2>5
  <2>6. CASE done' = [done EXCEPT ![s] = done[s] + 2] /\ s # c
    BY <1>1, <1>2, <2>1, <2>6
  <2> QED  BY <2>1, <2>2, <2>4, <2>5, <2>6
<1>9. CASE FeedMalformed
  <2>1. /\ script' = script /\ pc = "feed" /\ pc' = Return(s, "error")
        /\ done' = [done EXCEPT ![s] = Consumed(s, "malformed")]
        /\ conns' = conns /\ backlog' = backlog /\ peer' = peer /\ at' = at
    BY <1>5, <1>9, Zenon DEF FeedMalformed
  <2>2. CASE s # c
    BY <1>1, <1>2, <2>1, <2>2
  <2>3. CASE s = c
    <3>1. pc' = "close"
      BY <1>1, <2>1, <2>3 DEF Return
    <3>2. at \in DOMAIN conns /\ c = conns[at]
      BY <1>1, <1>5, <2>1, <2>3, SourceServed
    <3>3. /\ peer[c] # "away" /\ \A j \in DOMAIN backlog : backlog[j] # c
          /\ \A i \in DOMAIN conns : conns[i] = c => i = at
      BY <3>2 DEF Serving
    <3>4. Ended(c)'
      BY <2>1, <3>1, <3>3 DEF Ended
    <3> QED  BY <3>4
  <2> QED  BY <2>2, <2>3
<1> QED
  BY <1>4, <1>6, <1>7, <1>8, <1>9 DEF Next, Server

\* Nothing behind a malformed header is read as frames, through every step.
LEMMA SpoiledNext ==
  ASSUME RInv, Sent, Held, Serving, Spoiled, [Next]_vars
  PROVE  Spoiled'
<1>1. ASSUME NEW c \in Clients  PROVE Sound(c)' \/ Ended(c)'
  BY SoundNext, EndedNext DEF Spoiled
<1> QED  BY <1>1 DEF Spoiled


\* Frame n of a stream is for p: nothing up to it is malformed and its template is known.
Meant(s, n, p) ==
  /\ \A m \in 1 .. n : script[s][m].kind \notin {"schema", "oversize"}
  /\ script[s][n].kind # "unknown" /\ p \in Targets(script[s][n])

\* What p has of a stream is what is through its pipeline and what is half way.
Supplied ==
  \A s \in Sources, p \in Partitions : Holds(History(p), s, Routed(s, p) \cup UnderWay(s, p))

\* The same, as DeliveredOnceInOrder says it.
LEMMA DeliveredIs == DeliveredOnceInOrder <=> Supplied
<1>1. ASSUME NEW s \in Sources, NEW p \in Partitions
      PROVE  Holds(History(p), s, Routed(s, p) \cup UnderWay(s, p)) <=>
               /\ {History(p)[i][2] : i \in From(s, p)} = Routed(s, p) \cup UnderWay(s, p)
               /\ \A i, j \in From(s, p) : i < j => History(p)[i][2] < History(p)[j][2]
  BY Zenon DEF Holds, From
<1> QED  BY <1>1, Zenon DEF DeliveredOnceInOrder, Supplied

\* Which frames are through the pipeline and for p.
LEMMA RoutedIs ==
  ASSUME NEW s, NEW p, NEW n
  PROVE  n \in Routed(s, p) <=> Meant(s, n, p) /\ \E k \in 1 .. done[s] \div 2 : n = Number(s, k)
  BY Zenon DEF Routed, Meant

\* The same frames are through while nothing more is consumed.
LEMMA RoutedSame ==
  ASSUME NEW s, NEW p, script' = script, done'[s] = done[s],
         \A k \in 1 .. done[s] \div 2 : Number(s, k)' = Number(s, k)
  PROVE  Routed(s, p)' = Routed(s, p)
<1>1. \A n : n \in Routed(s, p)' <=>
               Meant(s, n, p)' /\ \E k \in 1 .. done'[s] \div 2 : n = Number(s, k)'
  BY Zenon DEF Routed, Meant
<1>2. \A n : Meant(s, n, p)' <=> Meant(s, n, p)
  BY DEF Meant, Targets
<1>3. \A n : n \in Routed(s, p)' <=> n \in Routed(s, p)
  BY <1>1, <1>2, RoutedIs
<1> QED  BY <1>3

\* One more frame is through.
LEMMA RoutedMore ==
  ASSUME NEW s, NEW p, script' = script, kept' = kept, done[s] \in Nat, done'[s] = done[s] + 2
  PROVE  \A n : n \in Routed(s, p)' <=>
                  n \in Routed(s, p) \/ (n = Item(s)[2] /\ Meant(s, n, p))
<1>1. \A n : n \in Routed(s, p)' <=>
               Meant(s, n, p)' /\ \E k \in 1 .. done'[s] \div 2 : n = Number(s, k)'
  BY Zenon DEF Routed, Meant
<1>2. \A n : Meant(s, n, p)' <=> Meant(s, n, p)
  BY DEF Meant, Targets
<1>3. \A k : Number(s, k)' = Number(s, k)
  BY DEF Number
<1>4. PICK q \in Nat : q = done[s] \div 2
  OBVIOUS
<1>5. done'[s] \div 2 = q + 1
  BY <1>4
<1>6. Item(s)[2] = Number(s, q + 1)
  BY <1>4 DEF Item
<1>7. \A k : k \in 1 .. q + 1 <=> k \in 1 .. q \/ k = q + 1
  BY <1>4
<1>8. \A n : n \in Routed(s, p)' <=> Meant(s, n, p) /\ \E k \in 1 .. q + 1 : n = Number(s, k)
  BY <1>1, <1>2, <1>3, <1>5
<1>9. \A n : n \in Routed(s, p) <=> Meant(s, n, p) /\ \E k \in 1 .. q : n = Number(s, k)
  BY <1>4, RoutedIs
<1> QED  BY <1>6, <1>7, <1>8, <1>9, Zenon

\* What a malformed header discards does not count as through.
LEMMA RoutedSpoiled ==
  ASSUME NEW s, NEW p, s # Local, script' = script, done[s] \in Nat, done'[s] \in Nat,
         done[s] <= done'[s], Frame(s).kind \in {"schema", "oversize"}
  PROVE  Routed(s, p)' = Routed(s, p)
<1>1. \A n : n \in Routed(s, p)' <=>
               Meant(s, n, p)' /\ \E k \in 1 .. done'[s] \div 2 : n = Number(s, k)'
  BY Zenon DEF Routed, Meant
<1>2. \A n : Meant(s, n, p)' <=> Meant(s, n, p)
  BY DEF Meant, Targets
<1>3. \A k : Number(s, k)' = k /\ Number(s, k) = k
  BY DEF Number
<1>4. PICK q, r : q = done[s] \div 2 /\ r = done'[s] \div 2
  OBVIOUS
<1>5. q \in Nat /\ r \in Nat /\ q <= r
  BY <1>4
<1>6. Frame(s) = script[s][q + 1]
  BY <1>3, <1>4 DEF Frame, FrameOf, Item
<1>7. \A n \in 1 .. r : Meant(s, n, p) => n \in 1 .. q
  <2> SUFFICES ASSUME NEW n \in 1 .. r, Meant(s, n, p), n \notin 1 .. q  PROVE FALSE
    OBVIOUS
  <2>1. q + 1 \in 1 .. n
    BY <1>5
  <2> QED  BY <1>6, <2>1 DEF Meant
<1>8. 1 .. q \subseteq 1 .. r
  BY <1>5
<1>9. \A n : n \in Routed(s, p)' <=> Meant(s, n, p) /\ n \in 1 .. r
  BY <1>1, <1>2, <1>3, <1>4
<1>10. \A n : n \in Routed(s, p) <=> Meant(s, n, p) /\ n \in 1 .. q
  BY <1>3, <1>4, RoutedIs
<1> QED  BY <1>7, <1>8, <1>9, <1>10

\* A step that changes no history and lets nothing more through.
LEMMA DeliveredSame ==
  ASSUME DeliveredOnceInOrder, \A p \in Partitions : History(p)' = History(p),
         \A s \in Sources, p \in Partitions : Routed(s, p)' = Routed(s, p),
         \A s \in Sources, p \in Partitions : UnderWay(s, p)' = UnderWay(s, p)
  PROVE  DeliveredOnceInOrder'
<1>1. \A s \in Sources, p \in Partitions : Holds(History(p), s, Routed(s, p) \cup UnderWay(s, p))
  BY DeliveredIs DEF Supplied
<1>2. \A s \in Sources, p \in Partitions : Holds(History(p)', s, Routed(s, p)' \cup UnderWay(s, p)')
  BY <1>1
<1>3. Supplied'
  BY <1>2, Zenon DEF Supplied
<1> QED  BY <1>3, DeliveredIs, PTL

\* Nothing is half way when no slot is claimed.
LEMMA NothingUnderWay ==
  ASSUME feed.targets = {}, NEW s, NEW p
  PROVE  UnderWay(s, p) = {}
  BY DEF UnderWay

\* The steps that let nothing more through: what a stream has consumed stays, and either
\* no slot is claimed before or after, or the frame in hand is left alone.
LEMMA DeliveredElsewhere ==
  ASSUME DeliveredOnceInOrder, script' = script, done' = done, kept' = kept,
         \A p \in Partitions : History(p)' = History(p),
         feed' = feed \/ (feed.targets = {} /\ feed'.targets = {})
  PROVE  DeliveredOnceInOrder'
<1>1. ASSUME NEW s \in Sources, NEW p \in Partitions
      PROVE  Routed(s, p)' = Routed(s, p) /\ UnderWay(s, p)' = UnderWay(s, p)
  <2>1. \A k : Number(s, k)' = Number(s, k)
    BY DEF Number
  <2>2. Routed(s, p)' = Routed(s, p)
    BY <2>1, RoutedSame
  <2>3. CASE feed' = feed
    <3>1. Item(s)' = Item(s)
      BY <2>1 DEF Item
    <3>2. Frame(s)' = Frame(s)
      BY <3>1 DEF Frame, FrameOf
    <3>3. UnderWay(s, p)' = UnderWay(s, p)
      BY <2>3, <3>1, <3>2 DEF UnderWay, Targets
    <3> QED  BY <2>2, <3>3
  <2>4. CASE feed.targets = {} /\ feed'.targets = {}
    <3>1. UnderWay(s, p) = {} /\ UnderWay(s, p)' = {}
      BY <2>4 DEF UnderWay
    <3> QED  BY <2>2, <3>1
  <2> QED  BY <2>3, <2>4
<1> QED  BY <1>1, DeliveredSame

\* motor_main puts a frame of its own into the buffer: behind all that is consumed.
LEMMA DeliveredIngest ==
  ASSUME Sent, Held, DeliveredOnceInOrder, Ingest
  PROVE  DeliveredOnceInOrder'
<1>1. /\ script' = script /\ done' = done /\ pc = "ingest" /\ inbox' = inbox /\ received' = received
      /\ feed' \in {feed, Feed(Local, FALSE)}
      /\ kept' \in {kept, Append(kept, sent[Local] \div 2 + 1)}
  BY Zenon DEF Ingest, inboxVars
<1>2. feed.targets = {} /\ feed'.targets = {}
  BY <1>1 DEF Sent, Feed
<1>3. \A p \in Partitions : History(p)' = History(p)
  BY <1>1 DEF History
<1>4. ASSUME NEW k \in 1 .. done[Local] \div 2  PROVE kept'[k] = kept[k]
  <2>1. /\ kept \in Seq(Nat \ {0}) /\ Len(kept) \in Nat /\ read[Local] = 2 * Len(kept)
        /\ done[Local] \in Nat /\ done[Local] <= read[Local]
    BY DEF Held, Stages, LocalStages, Sources
  <2>2. k \in 1 .. Len(kept)
    BY <2>1
  <2>3. IsSeq(kept)
    BY <2>1 DEF IsSeq
  <2> QED  BY <1>1, <2>2, <2>3, AppendedSeq
<1>5. ASSUME NEW s \in Sources, NEW p \in Partitions
      PROVE  Routed(s, p)' = Routed(s, p) /\ UnderWay(s, p)' = UnderWay(s, p)
  <2>1. \A k \in 1 .. done[s] \div 2 : Number(s, k)' = Number(s, k)
    BY <1>4 DEF Number
  <2>2. Routed(s, p)' = Routed(s, p)
    BY <1>1, <2>1, RoutedSame
  <2>3. UnderWay(s, p) = {} /\ UnderWay(s, p)' = {}
    BY <1>2 DEF UnderWay
  <2> QED  BY <2>2, <2>3
<1> QED  BY <1>3, <1>5, DeliveredSame

\* The frames a stream may be read past: the generated stream has no others.
LEMMA LocalFrames ==
  ASSUME Stages, LocalStages, NEW k \in Nat \ {0}, 2 * k <= read[Local]
  PROVE  script[Local][Number(Local, k)].kind \in {"broadcast", "single"}
<1>1. Local \in Sources /\ script \in Scripts
  BY DEF Sources, Stages
<1>2. script[Local] \in Seq(Frames)
  BY <1>1, IngressAssumption
<1>3. Number(Local, k) \in Nat \ {0} /\ Number(Local, k) <= Len(script[Local])
  BY <1>1, NumberOrder
<1>4. Number(Local, k) \in DOMAIN script[Local]
  BY <1>2, <1>3
<1> QED  BY <1>1, <1>4, IngressAssumption

\* A frame with an unknown template, or what a malformed header discards, is for nobody.
LEMMA DeliveredRefused ==
  ASSUME RInv, Sent, Held, Serving, DeliveredOnceInOrder, FeedUnknown \/ FeedMalformed
  PROVE  DeliveredOnceInOrder'
<1>1. /\ pc = "feed" /\ script' = script /\ kept' = kept /\ inbox' = inbox /\ received' = received
      /\ feed.targets = {}
  BY Zenon DEF FeedUnknown, FeedMalformed, inboxVars
<1>2. PICK s \in Sources : s = feed.source
  BY <1>1, SourceServed
<1>3. \A p \in Partitions : History(p)' = History(p)
  BY <1>1 DEF History
<1>4. feed'.targets = {}
  <2>1. CASE FeedUnknown
    <3>1. feed' = [feed EXCEPT !.failed = TRUE]
      BY <2>1 DEF FeedUnknown
    <3> QED  BY <1>1, <3>1 DEF RInv, FeedShaped
  <2>2. CASE FeedMalformed
    BY <2>2 DEF FeedMalformed, Idle
  <2> QED  BY <2>1, <2>2
<1>5. \A t \in Sources, p \in Partitions : UnderWay(t, p)' = UnderWay(t, p)
  BY <1>1, <1>4 DEF UnderWay
<1>6. /\ done[s] \in Nat /\ read[s] \in Nat /\ done[s] <= read[s] /\ done = [t \in Sources |-> done[t]]
      /\ Stages /\ LocalStages
  BY DEF Held, Stages
<1>7. ASSUME NEW n, done' = [done EXCEPT ![s] = n], NEW t \in Sources, t # s, NEW p \in Partitions
      PROVE  Routed(t, p)' = Routed(t, p)
  <2>1. done'[t] = done[t]
    BY <1>6, <1>7
  <2>2. \A k : Number(t, k)' = Number(t, k)
    BY <1>1 DEF Number
  <2> QED  BY <1>1, <2>1, <2>2, RoutedSame
<1>8. CASE FeedUnknown
  <2>1. /\ Frame(s).kind = "unknown" /\ done' = [done EXCEPT ![s] = done[s] + 2]
    BY <1>2, <1>8 DEF FeedUnknown, Consumed
  <2>2. ASSUME NEW p \in Partitions  PROVE Routed(s, p)' = Routed(s, p)
    <3>1. done'[s] = done[s] + 2
      BY <1>6, <2>1
    <3>2. \A n : n \in Routed(s, p)' <=>
                   n \in Routed(s, p) \/ (n = Item(s)[2] /\ Meant(s, n, p))
      BY <1>1, <1>6, <3>1, RoutedMore
    <3>3. Frame(s) = script[s][Item(s)[2]]
      BY DEF Frame, FrameOf, Item
    <3>4. ~Meant(s, Item(s)[2], p)
      BY <2>1, <3>3 DEF Meant
    <3> QED  BY <3>2, <3>4
  <2>3. \A t \in Sources, p \in Partitions : Routed(t, p)' = Routed(t, p)
    BY <1>7, <2>1, <2>2
  <2> QED  BY <1>3, <1>5, <2>3, DeliveredSame
<1>9. CASE FeedMalformed
  <2>1. /\ Frame(s).kind \in {"schema", "oversize"} /\ done' = [done EXCEPT ![s] = read[s]]
        /\ Buffered(s) >= 1
    BY <1>2, <1>9 DEF FeedMalformed, Consumed
  <2>2. s # Local
    <3> SUFFICES ASSUME s = Local  PROVE FALSE
      OBVIOUS
    <3>1. PICK l \in Nat : read[Local] = 2 * l
      <4>1. kept \in Seq(Nat \ {0}) /\ read[Local] = 2 * Len(kept)
        BY <1>6 DEF LocalStages
      <4>2. Len(kept) \in Nat
        BY <4>1
      <4> QED  BY <4>1, <4>2
    <3>2. PICK k : k = done[Local] \div 2 + 1
      OBVIOUS
    <3>3. k \in Nat \ {0} /\ 2 * k <= read[Local]
      BY <1>6, <2>1, <3>1, <3>2 DEF Buffered
    <3>4. script[Local][Number(Local, k)].kind \in {"broadcast", "single"}
      BY <1>6, <3>3, LocalFrames
    <3>5. Frame(Local) = script[Local][Number(Local, k)]
      BY <3>2 DEF Frame, FrameOf, Item
    <3> QED  BY <2>1, <3>4, <3>5
  <2>3. done'[s] = read[s]
    BY <1>6, <2>1
  <2>4. \A p \in Partitions : Routed(s, p)' = Routed(s, p)
    BY <1>1, <1>6, <2>1, <2>2, <2>3, RoutedSpoiled
  <2>5. \A t \in Sources, p \in Partitions : Routed(t, p)' = Routed(t, p)
    BY <1>7, <2>1, <2>4
  <2> QED  BY <1>3, <1>5, <2>5, DeliveredSame
<1> QED  BY <1>8, <1>9

\* Claiming slots delivers nothing: a frame that finds an inbox full stays in the buffer,
\* and one that has its slots is half way nowhere yet.
LEMMA DeliveredDispatch ==
  ASSUME RInv, Sent, Held, Serving, DeliveredOnceInOrder, FeedDispatch
  PROVE  DeliveredOnceInOrder'
<1>1. pc = "feed" /\ feed.targets = {} /\ script' = script /\ kept' = kept
  BY Zenon DEF FeedDispatch
<1>2. PICK s \in Sources : s = feed.source
  BY <1>1, SourceServed
<1>3. \A p \in Partitions : History(p)' = History(p)
  BY HistoryDispatch
<1>4. PICK ps : ps = Targets(Frame(s))
  OBVIOUS
<1>5. \/ feed' = [feed EXCEPT !.targets = ps] /\ done' = done
      \/ feed' = Idle /\ done' = [done EXCEPT ![s] = Consumed(s, "block")]
  BY <1>2, <1>4, Zenon DEF FeedDispatch, ClaimedTargets
<1>6. CASE feed' = Idle /\ done' = [done EXCEPT ![s] = Consumed(s, "block")]
  <2>1. feed'.targets = {} /\ Consumed(s, "block") = done[s]
    BY <1>6 DEF Idle, Consumed
  <2>2. done' = done
    BY <1>6, <2>1 DEF Held, Stages
  <2> QED  BY <1>1, <1>3, <2>1, <2>2, DeliveredElsewhere
<1>7. CASE feed' = [feed EXCEPT !.targets = ps] /\ done' = done
  <2>1. feed'.targets = ps /\ feed'.source = s
    BY <1>2, <1>7 DEF RInv, FeedShaped
  <2>2. \A t, k : Number(t, k)' = Number(t, k)
    BY <1>1 DEF Number
  <2>3. \A t \in Sources, p \in Partitions : Routed(t, p)' = Routed(t, p)
    BY <1>1, <1>7, <2>2, RoutedSame
  <2>4. Item(s)' = Item(s)
    BY <1>7, <2>2 DEF Item
  <2>5. Targets(Frame(s))' = ps
    BY <1>1, <1>4, <2>4 DEF Frame, FrameOf, Targets
  <2>6. \A t \in Sources, p \in Partitions : UnderWay(t, p)' = {}
    BY <2>1, <2>5, Zenon DEF UnderWay
  <2>7. \A t \in Sources, p \in Partitions : UnderWay(t, p)' = UnderWay(t, p)
    BY <1>1, <2>6, NothingUnderWay
  <2> QED  BY <1>3, <2>3, <2>7, DeliveredSame
<1> QED  BY <1>5, <1>6, <1>7

\* The frame in hand comes after all that its stream has through, and nothing up to it
\* is malformed: it is for exactly the partitions of its targets.
LEMMA InHandIs ==
  ASSUME Held, Serving, Spoiled, pc = "feed", feed.targets # {}, NEW s, s = feed.source
  PROVE  /\ \A p : \A m \in Routed(s, p) : m < Item(s)[2]
         /\ \A p : Meant(s, Item(s)[2], p) <=> p \in Targets(Frame(s))
<1>1. s \in Sources
  BY SourceServed
<1>2. /\ Buffered(s) >= 2 /\ Frame(s).kind \in {"broadcast", "single"}
      /\ Stages /\ LocalStages
  BY DEF Held, InHand
<1>3. /\ done[s] \in Nat /\ read[s] \in Nat /\ script \in Scripts
  BY <1>1, <1>2 DEF Stages
<1>4. PICK k : k = done[s] \div 2 + 1
  OBVIOUS
<1>5. k \in Nat \ {0} /\ 2 * k <= read[s] /\ k - 1 = done[s] \div 2
  BY <1>2, <1>3, <1>4 DEF Buffered
<1>6. PICK n : n = Item(s)[2]
  OBVIOUS
<1>7. n = Number(s, k)
  BY <1>4, <1>6 DEF Item
<1>8. /\ n \in Nat \ {0} /\ n <= Len(script[s])
      /\ \A j \in 1 .. k - 1 : Number(s, j) \in Nat /\ Number(s, j) < n
  BY <1>1, <1>2, <1>5, <1>7, NumberOrder
<1>9. \A p : \A m \in Routed(s, p) : m < n
  BY <1>5, <1>8, RoutedIs
<1>10. Frame(s) = script[s][n]
  BY <1>6 DEF Frame, FrameOf, Item
<1>11. \A m \in 1 .. n : script[s][m].kind \notin {"schema", "oversize"}
  <2>1. CASE s = Local
    <3>1. script[s] \in Seq(Frames)
      BY <1>1, <1>3, IngressAssumption
    <3>2. \A m \in 1 .. n : m \in DOMAIN script[s]
      BY <1>8, <3>1
    <3> QED  BY <1>3, <2>1, <3>2, IngressAssumption
  <2>2. CASE s # Local
    <3>1. s \in Clients /\ at \in DOMAIN conns /\ s = conns[at]
      BY <2>2, SourceServed
    <3>2. Sound(s)
      BY <3>1 DEF Spoiled, Ended
    <3>3. n = k
      BY <1>7, <2>2 DEF Number
    <3>4. \A m \in 1 .. n : m \in 1 .. done[s] \div 2 \/ m = n
      BY <1>5, <3>3
    <3> QED  BY <1>2, <1>10, <3>2, <3>4 DEF Sound
  <2> QED  BY <2>1, <2>2
<1>12. \A p : Meant(s, n, p) <=> p \in Targets(Frame(s))
  BY <1>2, <1>10, <1>11 DEF Meant
<1> QED  BY <1>6, <1>9, <1>12

\* Publishing to one target delivers the frame there, in its place in the stream; after
\* the last target it is through.
LEMMA DeliveredPublish ==
  ASSUME RInv, Sent, Held, Serving, Spoiled, DeliveredOnceInOrder, FeedPublish
  PROVE  DeliveredOnceInOrder'
<1>1. pc = "feed" /\ script' = script /\ kept' = kept /\ feed.targets # {}
  BY Zenon DEF FeedPublish
<1>2. PICK s \in Sources : s = feed.source
  BY <1>1, SourceServed
<1>3. PICK x : x = Item(s)
  OBVIOUS
<1>4. x[1] = s /\ x[2] = Item(s)[2]
  BY <1>3 DEF Item
<1>5. PICK q \in feed.targets :
        /\ feed'.targets = feed.targets \ {q} /\ feed'.source = s
        /\ done' = IF feed.targets = {q} THEN [done EXCEPT ![s] = Consumed(s, "routed")] ELSE done
        /\ \A p \in Partitions :
             /\ p # q => History(p)' = History(p)
             /\ p = q => History(p)' = Append(History(p), x)
  BY <1>2, <1>3, HistoryPublish
<1>6. /\ \A p : \A m \in Routed(s, p) : m < x[2]
      /\ \A p : Meant(s, x[2], p) <=> p \in Targets(Frame(s))
  BY <1>1, <1>2, <1>4, InHandIs
<1>7. done[s] \in Nat /\ done = [t \in Sources |-> done[t]] /\ q \in Targets(Frame(s))
  BY <1>1, <1>2 DEF Held, Stages, InHand
<1>8. \A t \in Sources, p \in Partitions : Holds(History(p), t, Routed(t, p) \cup UnderWay(t, p))
  BY DeliveredIs DEF Supplied
<1>9. \A t, k : Number(t, k)' = Number(t, k)
  BY <1>1 DEF Number
<1>10. ASSUME NEW t \in Sources, t # s, NEW p \in Partitions
       PROVE  Holds(History(p)', t, Routed(t, p)' \cup UnderWay(t, p)')
  <2>1. done'[t] = done[t]
    BY <1>5, <1>7, <1>10
  <2>2. Routed(t, p)' = Routed(t, p)
    BY <1>1, <1>9, <2>1, RoutedSame
  <2>3. UnderWay(t, p) = {} /\ UnderWay(t, p)' = {}
    BY <1>2, <1>5, <1>10 DEF UnderWay
  <2>4. Holds(History(p), t, Routed(t, p) \cup {})
    BY <1>8, <2>3
  <2>5. Holds(History(p)', t, Routed(t, p) \cup {})
    <3>1. CASE p # q
      BY <1>5, <2>4, <3>1
    <3>2. CASE p = q
      <4>1. Holds(Append(History(p), x), t, Routed(t, p) \cup {})
        BY <1>4, <1>10, <2>4, HistorySeq, HoldsAppend
      <4> QED  BY <1>5, <3>2, <4>1
    <3> QED  BY <3>1, <3>2
  <2> QED  BY <2>2, <2>3, <2>5
<1>11. ASSUME NEW p \in Partitions
       PROVE  Holds(History(p)', s, Routed(s, p) \cup (IF p = q THEN {x[2]} ELSE UnderWay(s, p)))
  <2>1. CASE p # q
    BY <1>5, <1>8, <2>1
  <2>2. CASE p = q
    <3>1. UnderWay(s, p) = {}
      BY <2>2 DEF UnderWay
    <3>2. PICK S : S = Routed(s, p)
      OBVIOUS
    <3>3. Routed(s, p) \cup UnderWay(s, p) = S
      BY <3>1, <3>2
    <3>4. Holds(History(p), s, S)
      BY <1>8, <3>3
    <3>5. Holds(Append(History(p), x), s, S \cup {x[2]})
      BY <1>4, <1>6, <3>2, <3>4, HistorySeq, HoldsAppend
    <3> QED  BY <1>5, <2>2, <3>2, <3>5
  <2> QED  BY <2>1, <2>2
<1>12. ASSUME NEW p \in Partitions
       PROVE  Routed(s, p) \cup (IF p = q THEN {x[2]} ELSE UnderWay(s, p)) =
                Routed(s, p)' \cup UnderWay(s, p)'
  <2>1. CASE feed.targets = {q}
    <3>1. feed'.targets = {} /\ done'[s] = done[s] + 2
      BY <1>5, <1>7, <2>1 DEF Consumed
    <3>2. UnderWay(s, p)' = {}
      BY <3>1 DEF UnderWay
    <3>3. \A n : n \in Routed(s, p)' <=>
                   n \in Routed(s, p) \/ (n = x[2] /\ p \in Targets(Frame(s)))
      <4>1. \A n : n \in Routed(s, p)' <=>
                     n \in Routed(s, p) \/ (n = x[2] /\ Meant(s, n, p))
        BY <1>1, <1>4, <1>7, <3>1, RoutedMore
      <4> QED  BY <1>6, <4>1
    <3>4. \A n : n \in (IF p = q THEN {x[2]} ELSE UnderWay(s, p)) <=>
                   (n = x[2] /\ p \in Targets(Frame(s)))
      <4>1. CASE p = q
        BY <1>7, <4>1
      <4>2. CASE p # q
        BY <1>2, <1>4, <2>1, <4>2 DEF UnderWay
      <4> QED  BY <4>1, <4>2
    <3> QED  BY <3>2, <3>3, <3>4
  <2>2. CASE feed.targets # {q}
    <3>1. feed'.targets # {} /\ done' = done
      BY <1>5, <2>2
    <3>2. Routed(s, p)' = Routed(s, p)
      BY <1>1, <1>9, <3>1, RoutedSame
    <3>3. Item(s)' = Item(s)
      BY <1>9, <3>1 DEF Item
    <3>4. Targets(Frame(s))' = Targets(Frame(s))
      BY <1>1, <3>3 DEF Frame, FrameOf, Targets
    <3>5. UnderWay(s, p)' = IF p \notin feed'.targets /\ p \in Targets(Frame(s)) THEN {x[2]} ELSE {}
      BY <1>4, <1>5, <3>1, <3>3, <3>4 DEF UnderWay
    <3>6. UnderWay(s, p) = IF p \notin feed.targets /\ p \in Targets(Frame(s)) THEN {x[2]} ELSE {}
      BY <1>1, <1>2, <1>4 DEF UnderWay
    <3> QED  BY <1>5, <1>7, <3>2, <3>5, <3>6
  <2> QED  BY <2>1, <2>2
<1>13. \A t \in Sources, p \in Partitions : Holds(History(p)', t, Routed(t, p)' \cup UnderWay(t, p)')
  <2>1. \A p \in Partitions : Holds(History(p)', s, Routed(s, p)' \cup UnderWay(s, p)')
    BY <1>11, <1>12
  <2> QED  BY <1>10, <2>1
<1>14. Supplied'
  BY <1>13, Zenon DEF Supplied
<1> QED  BY <1>14, DeliveredIs, PTL

\* Every step delivers a frame in its place or nothing at all.
LEMMA DeliveredNext ==
  ASSUME RInv, Sent, Held, Serving, Spoiled, DeliveredOnceInOrder, [Next]_vars
  PROVE  DeliveredOnceInOrder'
<1> USE DEF inboxVars, pipeVars, threadVars
<1>1. ASSUME inbox' = inbox, received' = received
      PROVE  \A p \in Partitions : History(p)' = History(p)
  BY <1>1 DEF History
<1>2. CASE \/ \E c \in Clients : Connect(c) \/ Send(c) \/ \E how \in {"closed", "broken"} : Leave(c, how)
           \/ \E p \in Partitions : Halt(p)
           \/ Stop \/ PollIdle \/ Poll \/ Served \/ Blocked \/ Events \/ Close
           \/ UNCHANGED vars
  <2>1. /\ script' = script /\ received' = received /\ inbox' = inbox
        /\ feed' = feed /\ done' = done /\ kept' = kept
    BY <1>2, Zenon DEF Connect, Send, Leave, Halt, Stop, PollIdle, Poll, Served, Blocked, Events, Close, vars
  <2> QED  BY <1>1, <2>1, DeliveredElsewhere
<1>3. CASE Serve \/ Recv \/ FeedReturns
  <2>1. /\ script' = script /\ received' = received /\ inbox' = inbox /\ done' = done /\ kept' = kept
        /\ feed' \in {feed, Idle} \/ \E s, retry : feed' = Feed(s, retry)
        /\ pc \in {"serve", "recv"} \/ feed.targets = {}
    <3>1. CASE Serve
      BY <3>1, Zenon DEF Serve, Retry
    <3>2. CASE Recv
      BY <3>2, Zenon DEF Recv
    <3>3. CASE FeedReturns
      BY <3>3, Zenon DEF FeedReturns
    <3> QED  BY <1>3, <3>1, <3>2, <3>3
  <2>2. feed.targets = {}
    BY <2>1 DEF Sent
  <2>3. feed'.targets = {}
    BY <2>1, <2>2 DEF Idle, Feed
  <2> QED  BY <1>1, <2>1, <2>2, <2>3, DeliveredElsewhere
<1>4. ASSUME NEW q \in Partitions, Peek(q) \/ Pop(q)  PROVE DeliveredOnceInOrder'
  <2>1. script' = script /\ feed' = feed /\ done' = done /\ kept' = kept
    BY <1>4, Zenon DEF Peek, Pop
  <2>2. \A p \in Partitions : History(p)' = History(p)
    BY <1>4, HistoryTaken
  <2> QED  BY <2>1, <2>2, DeliveredElsewhere
<1> QED
  BY <1>2, <1>3, <1>4, DeliveredIngest, DeliveredRefused, DeliveredDispatch, DeliveredPublish
  DEF Next, Server

\* Every partition gets the frames of every stream that are meant for it, all of them, once
\* each and in order: an inbox without room leaves the frame in the buffer and it is tried
\* again from there, a chunk may end inside a frame, a malformed header ends its connection
\* and a connection that ends takes nothing of the others with it.
THEOREM IngressDelivered == Spec => []DeliveredOnceInOrder
<1> DEFINE I == DInv /\ InStep
<1>1. Init => I
  BY DeliveryInit, BroadcastInit
<1>2. I /\ [Next]_vars => I'
  <2> SUFFICES ASSUME I, [Next]_vars  PROVE I'
    OBVIOUS
  <2>1. RInv /\ Sent /\ InStep /\ Held /\ Serving /\ Spoiled /\ DeliveredOnceInOrder
    BY DEF DInv, Held
  <2>2. RInv' /\ Sent' /\ InStep'
    BY <2>1, RingsNext, BroadcastNext
  <2>3. Held'
    BY <2>1, HeldNext
  <2>4. Serving'
    BY <2>1, ServingNext
  <2>5. Spoiled'
    BY <2>1, SpoiledNext
  <2>6. DeliveredOnceInOrder'
    BY <2>1, DeliveredNext
  <2> QED  BY <2>2, <2>3, <2>4, <2>5, <2>6 DEF DInv, Held
<1>3. I => DeliveredOnceInOrder
  BY DEF DInv
<1> QED  BY <1>1, <1>2, <1>3, PTL DEF Spec
=============================================================================
