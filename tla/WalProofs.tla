------------------------------ MODULE WalProofs ------------------------------
(***************************************************************************)
(* Proofs about module Wal, for any number and size of buffers, any block  *)
(* size, any sizes of records and any place the log was opened at.         *)
(*                                                                         *)
(* The properties of Wal are not inductive.  IInv adds what the code relies*)
(* on without saying it: which buffers are free, that the groups are in    *)
(* order and cover every LSN, and that durable_lsn is the token of the     *)
(* last group that left the ring.                                          *)
(***************************************************************************)
EXTENDS Wal, SequenceTheorems, WellFoundedInduction, TLAPS

\* buf_free_ tells which buffers append may write: the current one is free, one
\* in flight is not; with no buffer there is no group.
Accounted ==
  /\ cur.buf = NoBuffer => cur.len = 0
  /\ cur.buf # NoBuffer => buf_free[cur.buf]
  /\ \A i \in Inflight : ~buf_free[groups[i].buf]
  /\ cur.len > 0 => buffers[cur.buf] = Range2(cur.first, cur.last)

\* The groups are in LSN order, between the opening LSN and the tip.
Ordered ==
  /\ base <= Tip
  /\ \A i \in DOMAIN groups : base < groups[i].first /\ groups[i].token <= Tip
  /\ \A i, j \in DOMAIN groups : i < j => groups[i].token < groups[j].first

\* Every LSN up to the tip is in some group.
Covered ==
  \A n \in base + 1 .. Tip :
    \E i \in DOMAIN groups : groups[i].first <= n /\ n <= groups[i].token

\* A group that left the ring was written in full, and so were its records.
Completed ==
  /\ \A i \in 1 .. head : groups[i].dev = "ok"
  /\ \A i \in DOMAIN groups :
       groups[i].dev = "ok" => groups[i].first .. groups[i].token \subseteq written
  /\ durable_lsn = IF head = 0 THEN 0 ELSE groups[head].token

IInv ==
  /\ TypeOK
  /\ GroupsFollow
  /\ CurrentFollows
  /\ FileIsTiled
  /\ BufferIsHeld
  /\ Accounted
  /\ Ordered
  /\ Covered
  /\ Completed

-----------------------------------------------------------------------------
\* A non-empty set of naturals has a least element.
LEMMA LeastElement ==
  ASSUME NEW T, T \subseteq Nat, T # {}
  PROVE  \E x \in T : \A y \in T : x <= y
<1> DEFINE R == OpToRel(<, Nat)
<1>1. \E x \in T : \A y \in T : ~ (<<y, x>> \in R)
  <2> HIDE DEF R
  <2>1. IsWellFoundedOn(R, Nat)
    BY NatLessThanWellFounded DEF R
  <2> QED  BY <2>1, WFMin
<1>2. \A x, y \in Nat : (<<y, x>> \in R) <=> y < x
  BY DEF OpToRel
<1> HIDE DEF R
<1>3. PICK x \in T : \A y \in T : ~ (<<y, x>> \in R)
  BY <1>1
<1>4. ASSUME NEW y \in T  PROVE x <= y
  <2>1. x \in Nat /\ y \in Nat
    OBVIOUS
  <2>2. ~ (y < x)
    BY <1>2, <1>3, <2>1
  <2> QED  BY <2>1, <2>2
<1> QED  BY <1>4

\* The buffer maybe_submit turns to is a free one, if there is any.
LEMMA NextBufferIsFree ==
  ASSUME NEW free \in [Buffers -> BOOLEAN]
  PROVE  /\ NextBuffer(free) \in 0 .. NumBuffers
         /\ NextBuffer(free) # NoBuffer =>
              NextBuffer(free) \in Buffers /\ free[NextBuffer(free)]
<1> USE SizesAssumption
<1>1. CASE \E b \in Buffers : free[b]
  <2> DEFINE T == {b \in Buffers : free[b]}
  <2>1. T \subseteq Nat /\ T # {}
    BY <1>1 DEF Buffers
  <2>2. \E b \in T : \A a \in T : b <= a
    <3> HIDE DEF T
    <3> QED  BY <2>1, LeastElement
  <2>3. \E b \in Buffers : free[b] /\ \A a \in Buffers : free[a] => b <= a
    BY <2>2
  <2>4. NextBuffer(free) \in Buffers /\ free[NextBuffer(free)]
    BY <1>1, <2>3 DEF NextBuffer
  <2> QED  BY <2>4 DEF Buffers, NoBuffer
<1>2. CASE ~ \E b \in Buffers : free[b]
  BY <1>2 DEF NextBuffer, NoBuffer
<1> QED  BY <1>1, <1>2

\* A write covers whole blocks, at least the bytes of the group.
LEMMA PaddedType ==
  ASSUME NEW n \in Nat
  PROVE  Padded(n) \in Nat
<1>1. (n + BlockBytes - 1) \div BlockBytes \in Nat
  BY SizesAssumption
<1> QED  BY <1>1, SizesAssumption DEF Padded

-----------------------------------------------------------------------------
\* The log as WalT::open and GroupCommit::init leave it, wherever it is opened.
Opened ==
  /\ last_lsn \in Nat /\ seg_offset \in Nat /\ base = last_lsn
  /\ cur = NoGroup(0) /\ groups = <<>> /\ head = 0 /\ durable_lsn = 0
  /\ buf_free = [b \in Buffers |-> TRUE] /\ buffers = [b \in Buffers |-> Nothing]
  /\ call = "none" /\ written = {} /\ wal_halted = FALSE /\ grp_halted = FALSE

\* WalT::open and GroupCommit::init leave a log in order.
LEMMA OpenedInv == Opened => IInv
<1> SUFFICES ASSUME Opened  PROVE IInv
  OBVIOUS
<1> USE SizesAssumption
<1>1. last_lsn \in Nat /\ seg_offset \in Nat /\ base = last_lsn
  BY DEF Opened
<1>2. /\ cur = NoGroup(0) /\ groups = <<>> /\ head = 0 /\ durable_lsn = 0
      /\ buf_free = [b \in Buffers |-> TRUE] /\ buffers = [b \in Buffers |-> Nothing]
      /\ call = "none" /\ written = {} /\ wal_halted = FALSE /\ grp_halted = FALSE
  BY DEF Opened
<1>3. TypeOK
  <2>1. cur \in [buf : 0 .. NumBuffers, len : Nat, first : Nat, last : Nat]
    BY <1>2 DEF NoGroup
  <2>2. buffers \in [Buffers -> [first : Nat, last : Nat]]
    BY <1>2 DEF Nothing, Range2
  <2>3. groups \in Seq(GroupType) /\ head \in 0 .. Len(groups)
    BY <1>2
  <2>4. buf_free \in [Buffers -> BOOLEAN] /\ written \in SUBSET Nat
    BY <1>2
  <2>5. wal_halted \in BOOLEAN /\ grp_halted \in BOOLEAN /\ call \in {"none", "force_commit"}
    BY <1>2
  <2>6. last_lsn \in Nat /\ seg_offset \in Nat /\ durable_lsn \in Nat /\ base \in Nat
    BY <1>1, <1>2
  <2> QED  BY <2>1, <2>2, <2>3, <2>4, <2>5, <2>6 DEF TypeOK
<1>4. Tip = base
  BY <1>2 DEF Tip
<1>5. CurrentFollows
  BY <1>1, <1>2, <1>4 DEF CurrentFollows, NoGroup
<1>6. Accounted
  BY <1>2 DEF Accounted, NoGroup, NoBuffer, Buffers, Inflight
<1>7. GroupsFollow /\ FileIsTiled /\ BufferIsHeld /\ Completed
  BY <1>2 DEF GroupsFollow, FileIsTiled, BufferIsHeld, Completed, Inflight
<1>8. Ordered /\ Covered
  BY <1>1, <1>2, <1>4 DEF Ordered, Covered
<1> QED  BY <1>3, <1>5, <1>6, <1>7, <1>8 DEF IInv

\* The log starts in order, in a new segment or at the tail of an old one.
LEMMA InitInv == Init => IInv
<1> SUFFICES ASSUME Init  PROVE IInv
  OBVIOUS
<1>1. PICK t \in Tails : last_lsn = t.lsn /\ seg_offset = t.off /\ base = t.lsn
  BY DEF Init
<1>2. t.lsn \in Nat /\ t.off \in Nat
  BY InputsAssumption
<1>3. Opened
  BY <1>1, <1>2 DEF Init, Opened
<1> QED  BY <1>3, OpenedInv

-----------------------------------------------------------------------------
\* The group being built is a well-formed request once it has a record.
LEMMA RequestType ==
  ASSUME TypeOK, Accounted, cur.len > 0
  PROVE  Request \in GroupType /\ cur.buf \in Buffers
<1>1. cur.buf \in Buffers
  BY SizesAssumption DEF TypeOK, Accounted, NoBuffer, Buffers
<1>2. Padded(cur.len) \in Nat
  BY PaddedType DEF TypeOK
<1> QED  BY <1>1, <1>2 DEF Request, GroupType, TypeOK

\* What a submission leaves behind, whatever becomes of the current group: the
\* new group is the last one, in order, with a buffer of its own.
LEMMA SubmitGroupFacts ==
  ASSUME IInv, cur.len > 0, SubmitGroup, UNCHANGED <<head, base, written, durable_lsn>>
  PROVE  /\ seg_offset' \in Nat
         /\ buf_free' \in [Buffers -> BOOLEAN]
         /\ groups' \in Seq(GroupType)
         /\ Len(groups') = Len(groups) + 1
         /\ Tip' = last_lsn
         /\ GroupsFollow' /\ FileIsTiled' /\ Ordered' /\ Covered' /\ Completed'
         /\ \A i \in Inflight' :
              /\ ~buf_free'[groups'[i].buf]
              /\ buffers[groups'[i].buf] = Range2(groups'[i].first, groups'[i].token)
              /\ \A j \in Inflight' : groups'[j].buf = groups'[i].buf => j = i
<1> DEFINE n == Len(groups)
<1>1. Request \in GroupType /\ cur.buf \in Buffers
  BY RequestType DEF IInv
<1>2. groups \in Seq(GroupType) /\ n \in Nat /\ DOMAIN groups = 1 .. n
  BY LenProperties DEF IInv, TypeOK
<1>3. groups' = Append(groups, Request)
  BY DEF SubmitGroup
<1>4. /\ groups' \in Seq(GroupType) /\ Len(groups') = n + 1
      /\ DOMAIN groups' = 1 .. n + 1
      /\ \A i \in 1 .. n : groups'[i] = groups[i]
      /\ groups'[n + 1] = Request
  BY <1>1, <1>2, <1>3
<1>5. \A i \in 1 .. n : groups[i] \in GroupType
  BY <1>2, ElementOfSeq
<1>6. /\ Request.first = cur.first /\ Request.token = cur.last /\ Request.buf = cur.buf
      /\ Request.off = seg_offset /\ Request.len = Padded(cur.len)
      /\ Request.dev = "flight"
  BY DEF Request
<1>7. /\ cur.first = Tip + 1 /\ cur.first <= cur.last /\ cur.last = last_lsn
      /\ cur.first \in Nat /\ cur.last \in Nat /\ Tip \in Nat
  <2>1. cur.first = Tip + 1 /\ cur.first <= cur.last /\ cur.last = last_lsn
    BY DEF IInv, CurrentFollows
  <2>2. Tip \in Nat
    <3>1. CASE n = 0
      BY <1>2, <3>1 DEF Tip, IInv, TypeOK
    <3>2. CASE n # 0
      <4>1. n \in 1 .. n /\ groups # <<>>
        BY <1>2, <3>2
      <4> QED  BY <1>5, <4>1 DEF Tip, GroupType
    <3> QED  BY <3>1, <3>2
  <2> QED  BY <2>1, <2>2 DEF IInv, TypeOK
<1>8. Tip' = last_lsn
  <2>1. groups' # <<>>
    BY <1>4, <1>2
  <2> QED  BY <1>4, <1>6, <1>7, <2>1 DEF Tip
<1>9. Tip = IF n = 0 THEN base ELSE groups[n].token
  BY <1>2 DEF Tip
<1> HIDE DEF n
<1>10. seg_offset' \in Nat /\ seg_offset' = seg_offset + Padded(cur.len) /\ seg_offset \in Nat
  <2>1. cur.len \in Nat /\ seg_offset \in Nat
    BY DEF IInv, TypeOK
  <2>2. Padded(cur.len) \in Nat
    BY <2>1, PaddedType
  <2> QED  BY <2>1, <2>2 DEF SubmitGroup
<1>11. buf_free' \in [Buffers -> BOOLEAN] /\ buf_free' = [buf_free EXCEPT ![cur.buf] = FALSE]
  BY <1>1 DEF SubmitGroup, FreeAfterSubmit, IInv, TypeOK
<1>12. GroupsFollow'
  <2> SUFFICES ASSUME NEW i \in 1 .. n + 1
               PROVE  /\ groups'[i].first = (IF i = 1 THEN base ELSE groups'[i - 1].token) + 1
                      /\ groups'[i].first <= groups'[i].token
    BY <1>4 DEF GroupsFollow
  <2>1. CASE i \in 1 .. n
    <3>1. i # 1 => i - 1 \in 1 .. n
      BY <1>2, <2>1
    <3> QED  BY <1>2, <1>4, <2>1, <3>1 DEF IInv, GroupsFollow
  <2>2. CASE i = n + 1
    <3>1. i # 1 => n \in 1 .. n /\ n # 0 /\ i - 1 = n
      BY <1>2, <2>2
    <3>2. i = 1 => n = 0
      BY <1>2, <2>2
    <3> QED  BY <1>4, <1>6, <1>7, <1>9, <2>2, <3>1, <3>2
  <2> QED  BY <1>2, <2>1, <2>2
<1>13. FileIsTiled'
  <2>1. n # 0 => seg_offset = groups[n].off + groups[n].len
    BY <1>2, <1>4 DEF IInv, FileIsTiled, n
  <2>2. ASSUME NEW i \in 1 .. n
        PROVE  groups'[i + 1].off = groups'[i].off + groups'[i].len
    <3>1. CASE i = n
      BY <1>2, <1>4, <1>6, <2>1, <3>1
    <3>2. CASE i # n
      <4>1. i \in 1 .. n - 1 /\ i + 1 \in 1 .. n
        BY <1>2, <3>2
      <4> QED  BY <1>4, <4>1 DEF IInv, FileIsTiled, n
    <3> QED  BY <3>1, <3>2
  <2>3. seg_offset' = groups'[n + 1].off + groups'[n + 1].len
    BY <1>4, <1>6, <1>10
  <2>4. Len(groups') - 1 = n
    BY <1>2, <1>4
  <2> QED  BY <1>4, <2>2, <2>3, <2>4 DEF FileIsTiled
<1>14. Ordered'
  <2>1. base <= Tip' /\ base' = base
    BY <1>7, <1>8 DEF IInv, Ordered, TypeOK
  <2>2. ASSUME NEW i \in 1 .. n + 1
        PROVE  base < groups'[i].first /\ groups'[i].token <= Tip'
    <3>1. CASE i \in 1 .. n
      <4>1. base < groups[i].first /\ groups[i].token <= Tip /\ groups[i].token \in Nat
        BY <1>2, <1>5, <3>1 DEF IInv, Ordered, GroupType
      <4> QED  BY <1>4, <1>7, <1>8, <3>1, <4>1
    <3>2. CASE i = n + 1
      BY <1>4, <1>6, <1>7, <1>8, <3>2 DEF IInv, Ordered, TypeOK
    <3> QED  BY <1>2, <3>1, <3>2
  <2>3. ASSUME NEW i \in 1 .. n + 1, NEW j \in 1 .. n + 1, i < j
        PROVE  groups'[i].token < groups'[j].first
    <3>1. i \in 1 .. n
      BY <1>2, <2>3
    <3>2. CASE j \in 1 .. n
      BY <1>2, <1>4, <2>3, <3>1, <3>2 DEF IInv, Ordered
    <3>3. CASE j = n + 1
      <4>1. groups[i].token <= Tip /\ groups[i].token \in Nat
        BY <1>2, <1>5, <3>1 DEF IInv, Ordered, GroupType
      <4> QED  BY <1>4, <1>6, <1>7, <3>1, <3>3, <4>1
    <3> QED  BY <1>2, <3>2, <3>3
  <2> QED  BY <1>4, <2>1, <2>2, <2>3 DEF Ordered
<1>15. Covered'
  <2> SUFFICES ASSUME NEW m \in base + 1 .. Tip'
               PROVE  \E i \in 1 .. n + 1 : groups'[i].first <= m /\ m <= groups'[i].token
    BY <1>4 DEF Covered
  <2>0. base \in Nat /\ m \in Nat
    BY <1>7, <1>8 DEF IInv, TypeOK
  <2>1. CASE m <= Tip
    <3>1. m \in base + 1 .. Tip
      BY <1>7, <2>0, <2>1
    <3>2. PICK i \in 1 .. n : groups[i].first <= m /\ m <= groups[i].token
      BY <1>2, <3>1 DEF IInv, Covered
    <3> QED  BY <1>2, <1>4, <3>2
  <2>2. CASE ~ (m <= Tip)
    <3>1. groups'[n + 1].first <= m /\ m <= groups'[n + 1].token
      BY <1>4, <1>6, <1>7, <1>8, <2>0, <2>2
    <3> QED  BY <1>2, <3>1
  <2> QED  BY <2>1, <2>2
<1>16. Completed'
  <2>1. head \in 0 .. n /\ head' = head /\ written' = written /\ durable_lsn' = durable_lsn
    BY DEF IInv, TypeOK, n
  <2>2. \A i \in 1 .. head : groups'[i].dev = "ok"
    BY <1>2, <1>4, <2>1 DEF IInv, Completed
  <2>3. \A i \in 1 .. n + 1 :
          groups'[i].dev = "ok" => groups'[i].first .. groups'[i].token \subseteq written
    <3>1. ASSUME NEW i \in 1 .. n, groups'[i].dev = "ok"
          PROVE  groups'[i].first .. groups'[i].token \subseteq written
      BY <1>2, <1>4, <3>1 DEF IInv, Completed
    <3>2. groups'[n + 1].dev # "ok"
      BY <1>4, <1>6
    <3> QED  BY <1>2, <3>1, <3>2
  <2>4. durable_lsn = IF head = 0 THEN 0 ELSE groups'[head].token
    BY <1>2, <1>4, <2>1 DEF IInv, Completed
  <2> QED  BY <1>4, <2>1, <2>2, <2>3, <2>4 DEF Completed
<1>17. ASSUME NEW i \in Inflight'
       PROVE  /\ ~buf_free'[groups'[i].buf]
              /\ buffers[groups'[i].buf] = Range2(groups'[i].first, groups'[i].token)
              /\ \A j \in Inflight' : groups'[j].buf = groups'[i].buf => j = i
  <2>1. head \in 0 .. n /\ head' = head
    BY DEF IInv, TypeOK, n
  <2>2. Inflight' = head + 1 .. n + 1 /\ Inflight = head + 1 .. n
    BY <1>4, <2>1 DEF Inflight, n
  <2>3. \A j \in Inflight : j \in 1 .. n /\ groups'[j] = groups[j] /\ groups[j].buf \in Buffers
    <3>1. \A j \in Inflight : j \in 1 .. n
      BY <1>2, <2>1, <2>2
    <3> QED  BY <1>4, <1>5, <3>1 DEF GroupType
  <2>4. \A j \in Inflight : groups[j].buf # cur.buf /\ ~buf_free[groups[j].buf]
    BY DEF IInv, BufferIsHeld, Accounted
  <2>5. \A j \in Inflight' : j \in Inflight \/ j = n + 1
    BY <1>2, <2>1, <2>2
  <2>6. groups'[n + 1].buf = cur.buf
    BY <1>4, <1>6
  <2>7. ~buf_free'[cur.buf] /\ \A b \in Buffers : b # cur.buf => buf_free'[b] = buf_free[b]
    BY <1>1, <1>11 DEF IInv, TypeOK
  <2>8. ~buf_free'[groups'[i].buf]
    BY <2>3, <2>4, <2>5, <2>6, <2>7
  <2>9. buffers[groups'[i].buf] = Range2(groups'[i].first, groups'[i].token)
    <3>1. CASE i \in Inflight
      BY <2>3, <3>1 DEF IInv, BufferIsHeld
    <3>2. CASE i = n + 1
      BY <1>4, <1>6, <3>2 DEF IInv, Accounted
    <3> QED  BY <2>5, <3>1, <3>2
  <2>10. ASSUME NEW j \in Inflight', groups'[j].buf = groups'[i].buf  PROVE j = i
    <3>1. CASE i \in Inflight /\ j \in Inflight
      BY <2>3, <2>10, <3>1 DEF IInv, BufferIsHeld
    <3>2. CASE i = n + 1 \/ j = n + 1
      BY <2>3, <2>4, <2>5, <2>6, <2>10, <3>2
    <3> QED  BY <2>5, <3>1, <3>2
  <2> QED  BY <2>8, <2>9, <2>10
<1> QED  BY <1>4, <1>8, <1>10, <1>11, <1>12, <1>13, <1>14, <1>15, <1>16, <1>17 DEF n

-----------------------------------------------------------------------------
\* Every group of the log is well formed.
LEMMA GroupElement ==
  ASSUME NEW gs \in Seq(GroupType), NEW i \in 1 .. Len(gs)
  PROVE  /\ gs[i] \in GroupType
         /\ gs[i].first \in Nat /\ gs[i].token \in Nat /\ gs[i].buf \in Buffers
         /\ gs[i].off \in Nat /\ gs[i].len \in Nat
<1>1. gs[i] \in GroupType
  BY ElementOfSeq
<1> QED  BY <1>1 DEF GroupType

\* The current group as a record.
CurType == [buf : 0 .. NumBuffers, len : Nat, first : Nat, last : Nat]

\* append adds a record to a group: its bytes land in the buffer of that group
\* and in no other.
LEMMA GrownFacts ==
  ASSUME NEW c \in CurType, NEW len \in Nat \ {0}, NEW lsn \in Nat, c.buf \in Buffers,
         NEW bs \in [Buffers -> [first : Nat, last : Nat]],
         NEW g, g = Grown(c, len, lsn)
  PROVE  /\ g \in CurType
         /\ g.buf = c.buf /\ g.len > 0 /\ g.last = lsn
         /\ g.first = IF c.len = 0 THEN lsn ELSE c.first
         /\ Stored(bs, g) \in [Buffers -> [first : Nat, last : Nat]]
         /\ Stored(bs, g)[g.buf] = Range2(g.first, g.last)
         /\ \A b \in Buffers : b # g.buf => Stored(bs, g)[b] = bs[b]
<1>1. /\ g \in CurType
      /\ g.buf = c.buf /\ g.len > 0 /\ g.last = lsn
      /\ g.first = IF c.len = 0 THEN lsn ELSE c.first
  <2>1. c.buf \in 0 .. NumBuffers /\ c.len \in Nat /\ c.first \in Nat
    BY DEF CurType
  <2>2. c.len + len \in Nat /\ c.len + len > 0
    BY <2>1
  <2>3. g = [buf |-> c.buf, len |-> c.len + len,
             first |-> IF c.len = 0 THEN lsn ELSE c.first, last |-> lsn]
    BY DEF Grown, CurType
  <2> QED  BY <2>1, <2>2, <2>3 DEF CurType
<1>2. Range2(g.first, g.last) \in [first : Nat, last : Nat]
  BY <1>1 DEF Range2, CurType
<1> QED  BY <1>1, <1>2 DEF Stored

\* A group keeps the invariant while it grows.
LEMMA AppendToCurrentInv ==
  ASSUME IInv, NEW len \in RecLens, AppendToCurrent(len),
         UNCHANGED <<wal_halted, grp_halted, durable_lsn, head, call, base, written>>
  PROVE  IInv'
<1>1. len \in Nat \ {0} /\ last_lsn \in Nat /\ last_lsn + 1 \in Nat /\ cur \in CurType
  BY InputsAssumption DEF IInv, TypeOK, CurType
<1>2. cur.buf \in Buffers
  BY <1>1, SizesAssumption DEF AppendToCurrent, Fits, CurType, Buffers, NoBuffer
<1>3. buffers \in [Buffers -> [first : Nat, last : Nat]]
  BY DEF IInv, TypeOK
<1>4. cur' = Grown(cur, len, last_lsn + 1) /\ buffers' = Stored(buffers, cur')
      /\ last_lsn' = last_lsn + 1
  BY DEF AppendToCurrent
<1>5. /\ cur' \in CurType
      /\ cur'.buf = cur.buf /\ cur'.len > 0 /\ cur'.last = last_lsn + 1
      /\ cur'.first = IF cur.len = 0 THEN last_lsn + 1 ELSE cur.first
      /\ buffers' \in [Buffers -> [first : Nat, last : Nat]]
      /\ buffers'[cur'.buf] = Range2(cur'.first, cur'.last)
      /\ \A b \in Buffers : b # cur'.buf => buffers'[b] = buffers[b]
  BY <1>1, <1>2, <1>3, <1>4, GrownFacts
<1>6. UNCHANGED <<seg_offset, buf_free, groups, head, base, written, durable_lsn>>
  BY DEF AppendToCurrent
<1>7. TypeOK'
  BY <1>1, <1>4, <1>5, <1>6 DEF IInv, TypeOK, CurType
<1>8. Tip' = Tip /\ GroupsFollow' /\ FileIsTiled' /\ Ordered' /\ Covered' /\ Completed'
  BY <1>6 DEF IInv, Tip, GroupsFollow, FileIsTiled, Ordered, Covered, Completed
<1>9. CurrentFollows'
  <2>1. CASE cur.len = 0
    BY <1>1, <1>4, <1>5, <1>8, <2>1 DEF IInv, CurrentFollows
  <2>2. CASE cur.len # 0
    <3>1. cur.len > 0 /\ cur.first \in Nat /\ cur.last \in Nat
      BY <1>1, <2>2 DEF CurType
    <3>2. cur.first = Tip + 1 /\ cur.first <= cur.last /\ cur.last = last_lsn
      BY <3>1 DEF IInv, CurrentFollows
    <3> QED  BY <1>1, <1>4, <1>5, <1>8, <2>2, <3>1, <3>2 DEF CurrentFollows
  <2> QED  BY <2>1, <2>2
<1>10. BufferIsHeld'
  <2>1. Inflight' = Inflight
    BY <1>6 DEF Inflight
  <2>2. \A i \in Inflight : groups[i].buf \in Buffers
    <3>1. \A i \in Inflight : i \in 1 .. Len(groups)
      BY LenProperties DEF IInv, TypeOK, Inflight
    <3> QED  BY <3>1, GroupElement DEF IInv, TypeOK
  <2>3. \A i \in Inflight : groups[i].buf # cur'.buf
    BY <1>5 DEF IInv, BufferIsHeld
  <2>4. \A i \in Inflight : buffers'[groups[i].buf] = buffers[groups[i].buf]
    BY <1>5, <2>2, <2>3
  <2> QED  BY <1>6, <2>1, <2>3, <2>4 DEF IInv, BufferIsHeld
<1>11. Accounted'
  <2>1. Inflight' = Inflight
    BY <1>6 DEF Inflight
  <2>2. cur.buf # NoBuffer
    BY DEF AppendToCurrent, Fits
  <2> QED  BY <1>5, <1>6, <2>1, <2>2 DEF IInv, Accounted, NoBuffer
<1> QED  BY <1>7, <1>8, <1>9, <1>10, <1>11 DEF IInv

\* maybe_submit: the group goes and a fresh one takes its place.
LEMMA SubmitCurrentInv ==
  ASSUME IInv, cur.len > 0, SubmitGroup, cur' = NoGroup(NextBuffer(FreeAfterSubmit)),
         UNCHANGED <<last_lsn, durable_lsn, buffers, head, base, written, grp_halted>>,
         wal_halted' \in BOOLEAN, call' \in {"none", "force_commit"}
  PROVE  IInv'
<1>1. /\ seg_offset' \in Nat
      /\ buf_free' \in [Buffers -> BOOLEAN]
      /\ groups' \in Seq(GroupType)
      /\ Len(groups') = Len(groups) + 1
      /\ Tip' = last_lsn
      /\ GroupsFollow' /\ FileIsTiled' /\ Ordered' /\ Covered' /\ Completed'
      /\ \A i \in Inflight' :
           /\ ~buf_free'[groups'[i].buf]
           /\ buffers[groups'[i].buf] = Range2(groups'[i].first, groups'[i].token)
           /\ \A j \in Inflight' : groups'[j].buf = groups'[i].buf => j = i
  BY SubmitGroupFacts
<1>2. buf_free' = FreeAfterSubmit
  BY DEF SubmitGroup
<1>3. /\ cur'.buf \in 0 .. NumBuffers /\ cur'.len = 0 /\ cur'.first = 0 /\ cur'.last = 0
      /\ cur'.buf # NoBuffer => cur'.buf \in Buffers /\ buf_free'[cur'.buf]
  BY <1>1, <1>2, NextBufferIsFree DEF NoGroup
<1>4. cur' \in CurType
  BY <1>3 DEF CurType, NoGroup
<1>5. TypeOK'
  <2>1. head' \in 0 .. Len(groups')
    BY <1>1, LenProperties DEF IInv, TypeOK
  <2> QED  BY <1>1, <1>4, <2>1 DEF IInv, TypeOK, CurType
<1>6. CurrentFollows'
  BY <1>1, <1>3 DEF CurrentFollows
<1>7. ASSUME NEW i \in Inflight'  PROVE cur'.buf # groups'[i].buf
  <2>1. ~buf_free'[groups'[i].buf]
    BY <1>1
  <2>2. groups'[i].buf \in Buffers
    <3>1. i \in 1 .. Len(groups')
      BY <1>5, LenProperties DEF TypeOK, Inflight
    <3> QED  BY <1>1, <3>1, GroupElement
  <2>3. groups'[i].buf # NoBuffer
    BY <2>2, SizesAssumption DEF Buffers, NoBuffer
  <2> QED  BY <1>3, <2>1, <2>3
<1>8. BufferIsHeld'
  BY <1>1, <1>7 DEF BufferIsHeld
<1>9. Accounted'
  BY <1>1, <1>3 DEF Accounted, NoBuffer
<1> QED  BY <1>1, <1>5, <1>6, <1>8, <1>9 DEF IInv

\* append that makes room first: the old group goes, the record opens a new one
\* in a buffer the device does not hold.
LEMMA SubmitThenAppendInv ==
  ASSUME IInv, NEW len \in RecLens, SubmitThenAppend(len),
         UNCHANGED <<wal_halted, grp_halted, durable_lsn, head, call, base, written>>
  PROVE  IInv'
<1> DEFINE fresh == NoGroup(NextBuffer(FreeAfterSubmit))
<1>1. cur.len > 0 /\ SubmitGroup
  BY DEF SubmitThenAppend
<1>2. CASE ~Fits(fresh, len)
  <2>1. cur' = fresh /\ UNCHANGED <<buffers, last_lsn>>
    BY <1>2 DEF SubmitThenAppend
  <2>2. wal_halted' \in BOOLEAN /\ call' \in {"none", "force_commit"}
    BY DEF IInv, TypeOK
  <2> QED  BY <1>1, <2>1, <2>2, SubmitCurrentInv
<1>3. CASE Fits(fresh, len)
  <2>1. /\ cur' = Grown(fresh, len, last_lsn + 1)
        /\ buffers' = Stored(buffers, cur')
        /\ last_lsn' = last_lsn + 1
    BY <1>3 DEF SubmitThenAppend
  <2>2. /\ seg_offset' \in Nat
        /\ buf_free' \in [Buffers -> BOOLEAN]
        /\ groups' \in Seq(GroupType)
        /\ Len(groups') = Len(groups) + 1
        /\ Tip' = last_lsn
        /\ GroupsFollow' /\ FileIsTiled' /\ Ordered' /\ Covered' /\ Completed'
        /\ \A i \in Inflight' :
             /\ ~buf_free'[groups'[i].buf]
             /\ buffers[groups'[i].buf] = Range2(groups'[i].first, groups'[i].token)
             /\ \A j \in Inflight' : groups'[j].buf = groups'[i].buf => j = i
    BY <1>1, SubmitGroupFacts
  <2>3. buf_free' = FreeAfterSubmit
    BY <1>1 DEF SubmitGroup
  <2>4. /\ fresh \in CurType /\ fresh.len = 0
        /\ fresh.buf \in Buffers /\ buf_free'[fresh.buf]
    <3>1. fresh.buf = NextBuffer(buf_free') /\ fresh.len = 0 /\ fresh.buf # NoBuffer
      BY <1>3, <2>3 DEF NoGroup, Fits
    <3>2. fresh.buf \in 0 .. NumBuffers /\ fresh.buf \in Buffers /\ buf_free'[fresh.buf]
      BY <2>2, <3>1, NextBufferIsFree
    <3> QED  BY <3>1, <3>2 DEF CurType, NoGroup
  <2> HIDE DEF fresh
  <2>5. /\ len \in Nat \ {0} /\ last_lsn \in Nat /\ last_lsn + 1 \in Nat
        /\ buffers \in [Buffers -> [first : Nat, last : Nat]]
    BY InputsAssumption DEF IInv, TypeOK
  <2>6. /\ cur' \in CurType
        /\ cur'.buf = fresh.buf /\ cur'.len > 0 /\ cur'.last = last_lsn + 1
        /\ cur'.first = IF fresh.len = 0 THEN last_lsn + 1 ELSE fresh.first
        /\ buffers' \in [Buffers -> [first : Nat, last : Nat]]
        /\ buffers'[cur'.buf] = Range2(cur'.first, cur'.last)
        /\ \A b \in Buffers : b # cur'.buf => buffers'[b] = buffers[b]
    BY <2>1, <2>4, <2>5, GrownFacts
  <2>7. TypeOK'
    <3>1. head' \in 0 .. Len(groups')
      BY <2>2, LenProperties DEF IInv, TypeOK
    <3> QED  BY <2>1, <2>2, <2>5, <2>6, <3>1 DEF IInv, TypeOK, CurType
  <2>8. CurrentFollows'
    BY <2>1, <2>2, <2>4, <2>5, <2>6 DEF CurrentFollows
  <2>9. ASSUME NEW i \in Inflight'
        PROVE  cur'.buf # groups'[i].buf /\ buffers'[groups'[i].buf] = buffers[groups'[i].buf]
    <3>1. groups'[i].buf \in Buffers
      <4>1. i \in 1 .. Len(groups')
        BY <2>7, LenProperties DEF TypeOK, Inflight
      <4> QED  BY <2>2, <4>1, GroupElement
    <3>2. ~buf_free'[groups'[i].buf]
      BY <2>2
    <3> QED  BY <2>4, <2>6, <3>1, <3>2
  <2>10. BufferIsHeld'
    BY <2>2, <2>9 DEF BufferIsHeld
  <2>11. Accounted'
    <3>1. cur'.buf # NoBuffer
      BY <2>4, <2>6, SizesAssumption DEF Buffers, NoBuffer
    <3> QED  BY <2>2, <2>4, <2>6, <3>1 DEF Accounted, NoBuffer
  <2> QED  BY <2>2, <2>7, <2>8, <2>10, <2>11 DEF IInv
<1> QED  BY <1>2, <1>3

-----------------------------------------------------------------------------
\* Completions and reaping change no group's place in the log.
LEMMA SameShape ==
  ASSUME IInv, groups' \in Seq(GroupType), Len(groups') = Len(groups),
         UNCHANGED <<base, seg_offset>>,
         \A i \in 1 .. Len(groups) :
           /\ groups'[i].first = groups[i].first /\ groups'[i].token = groups[i].token
           /\ groups'[i].off = groups[i].off /\ groups'[i].len = groups[i].len
  PROVE  Tip' = Tip /\ GroupsFollow' /\ FileIsTiled' /\ Ordered' /\ Covered'
<1> DEFINE n == Len(groups)
<1>1. /\ n \in Nat /\ DOMAIN groups = 1 .. n /\ DOMAIN groups' = 1 .. n
      /\ Len(groups') = n /\ (groups = <<>> <=> n = 0) /\ (groups' = <<>> <=> n = 0)
  BY LenProperties, EmptySeq DEF IInv, TypeOK
<1>2. \A i \in 1 .. n :
        /\ groups'[i].first = groups[i].first /\ groups'[i].token = groups[i].token
        /\ groups'[i].off = groups[i].off /\ groups'[i].len = groups[i].len
  OBVIOUS
<1>3. Tip = (IF n = 0 THEN base ELSE groups[n].token) /\ Tip' = Tip
  <2>1. n # 0 => n \in 1 .. n
    BY <1>1
  <2> QED  BY <1>1, <1>2, <2>1 DEF Tip
<1>4. FileIsTiled'
  <2>1. \A i \in 1 .. n - 1 : i \in 1 .. n /\ i + 1 \in 1 .. n
    BY <1>1
  <2>2. n # 0 => n \in 1 .. n
    BY <1>1
  <2> QED  BY <1>1, <1>2, <2>1, <2>2 DEF IInv, FileIsTiled
<1> HIDE DEF n
<1>5. GroupsFollow'
  <2>1. \A i \in 1 .. n : i # 1 => i - 1 \in 1 .. n
    BY <1>1
  <2> QED  BY <1>1, <1>2, <2>1 DEF IInv, GroupsFollow
<1>6. Ordered'
  BY <1>1, <1>2, <1>3 DEF IInv, Ordered
<1>7. Covered'
  BY <1>1, <1>2, <1>3 DEF IInv, Covered
<1> QED  BY <1>3, <1>4, <1>5, <1>6, <1>7

\* The device stores a group in full, or fails.
LEMMA CompleteInv ==
  ASSUME IInv, NEW i \in Inflight, NEW how \in {"ok", "fail"}, Complete(i, how)
  PROVE  IInv'
<1> DEFINE n == Len(groups)
<1>1. groups \in Seq(GroupType) /\ n \in Nat /\ DOMAIN groups = 1 .. n /\ head \in 0 .. n
  BY LenProperties DEF IInv, TypeOK
<1>2. i \in 1 .. n /\ i > head
  BY <1>1 DEF Inflight
<1>3. /\ groups' = [groups EXCEPT ![i].dev = how]
      /\ groups[i].dev = "flight"
      /\ written' = IF how = "ok" THEN written \cup Lsns(buffers[groups[i].buf]) ELSE written
      /\ UNCHANGED <<last_lsn, seg_offset, wal_halted, call, grp_halted, durable_lsn>>
      /\ UNCHANGED <<cur, buf_free, buffers, head, base>>
  BY DEF Complete, walVars
<1>4. [groups[i] EXCEPT !.dev = how] \in GroupType
  <2>1. groups[i] \in GroupType
    BY <1>1, <1>2, GroupElement
  <2> QED  BY <2>1 DEF GroupType
<1>5. /\ groups' \in Seq(GroupType) /\ Len(groups') = n
      /\ \A j \in 1 .. n : groups'[j] = IF j = i THEN [groups[i] EXCEPT !.dev = how] ELSE groups[j]
  BY <1>1, <1>2, <1>3, <1>4, ExceptSeq
<1>6. \A j \in 1 .. n :
        /\ groups'[j].first = groups[j].first /\ groups'[j].token = groups[j].token
        /\ groups'[j].off = groups[j].off /\ groups'[j].len = groups[j].len
        /\ groups'[j].buf = groups[j].buf
        /\ j # i => groups'[j].dev = groups[j].dev
  <2>1. groups[i] \in GroupType
    BY <1>1, <1>2, GroupElement
  <2>2. /\ groups'[i].first = groups[i].first /\ groups'[i].token = groups[i].token
        /\ groups'[i].off = groups[i].off /\ groups'[i].len = groups[i].len
        /\ groups'[i].buf = groups[i].buf
    BY <1>2, <1>5, <2>1 DEF GroupType
  <2>3. \A j \in 1 .. n : j # i => groups'[j] = groups[j]
    BY <1>5
  <2> QED  BY <2>2, <2>3
<1>7. Tip' = Tip /\ GroupsFollow' /\ FileIsTiled' /\ Ordered' /\ Covered'
  BY <1>3, <1>5, <1>6, SameShape
<1>8. Lsns(buffers[groups[i].buf]) = groups[i].first .. groups[i].token
  <2>1. buffers[groups[i].buf] = Range2(groups[i].first, groups[i].token)
    BY DEF IInv, BufferIsHeld
  <2> QED  BY <2>1 DEF Range2, Lsns
<1>9. written \subseteq written' /\ written' \in SUBSET Nat
  <2>1. groups[i].first .. groups[i].token \subseteq Nat
    BY <1>1, <1>2, GroupElement
  <2> QED  BY <1>3, <1>8, <2>1 DEF IInv, TypeOK
<1>10. TypeOK'
  BY <1>1, <1>3, <1>5, <1>9 DEF IInv, TypeOK
<1>11. CurrentFollows'
  BY <1>3, <1>7 DEF IInv, CurrentFollows
<1>12. Inflight' = Inflight /\ \A j \in Inflight : j \in 1 .. n
  BY <1>1, <1>3, <1>5 DEF Inflight
<1>13. BufferIsHeld'
  BY <1>3, <1>6, <1>12 DEF IInv, BufferIsHeld
<1>14. Accounted'
  BY <1>3, <1>6, <1>12 DEF IInv, Accounted, NoBuffer
<1>15. Completed'
  <2>1. \A j \in 1 .. head : j \in 1 .. n /\ j # i
    BY <1>1, <1>2
  <2>2. \A j \in 1 .. head : groups'[j].dev = "ok"
    BY <1>6, <2>1 DEF IInv, Completed
  <2>3. ASSUME NEW j \in 1 .. n, groups'[j].dev = "ok"
        PROVE  groups'[j].first .. groups'[j].token \subseteq written'
    <3>1. CASE j = i
      <4>1. how = "ok"
        BY <1>4, <1>5, <2>3, <3>1 DEF GroupType
      <4> QED  BY <1>3, <1>6, <1>8, <3>1, <4>1
    <3>2. CASE j # i
      BY <1>1, <1>6, <1>9, <2>3, <3>2 DEF IInv, Completed
    <3> QED  BY <3>1, <3>2
  <2>4. durable_lsn' = IF head' = 0 THEN 0 ELSE groups'[head'].token
    <3>1. head # 0 => head \in 1 .. n
      BY <1>1
    <3> QED  BY <1>3, <1>6, <3>1 DEF IInv, Completed
  <2>5. DOMAIN groups' = 1 .. n
    BY <1>5, LenProperties
  <2> QED  BY <1>3, <2>2, <2>3, <2>4, <2>5 DEF Completed
<1> QED  BY <1>7, <1>10, <1>11, <1>13, <1>14, <1>15 DEF IInv

-----------------------------------------------------------------------------
\* reap: the groups that leave the ring were all written in full; their buffers
\* become free and one of them serves an append that was waiting.
LEMMA GroupReapInv ==
  ASSUME IInv, GroupReap, UNCHANGED <<last_lsn, seg_offset, buffers, base, written>>,
         wal_halted' \in BOOLEAN, call' \in {"none", "force_commit"}
  PROVE  IInv' /\ durable_lsn <= durable_lsn'
<1> DEFINE n == Len(groups)
<1>1. groups \in Seq(GroupType) /\ n \in Nat /\ DOMAIN groups = 1 .. n /\ head \in 0 .. n
  BY LenProperties DEF IInv, TypeOK
<1>2. PICK k \in 0 .. n - head :
        /\ Retires(k)
        /\ groups' = Marked
        /\ head' = head + k
        /\ durable_lsn' = IF k = 0 THEN durable_lsn ELSE groups[head + k].token
        /\ buf_free' = [b \in Buffers |->
                          buf_free[b] \/ \E i \in head + 1 .. head + k : groups[i].buf = b]
        /\ cur' = IF cur.buf = NoBuffer /\ k > 0
                  THEN [cur EXCEPT !.buf = groups[head + 1].buf] ELSE cur
        /\ grp_halted' = (grp_halted \/ FailureSeen)
  BY DEF GroupReap
<1>3. k \in Nat /\ head' \in 0 .. n /\ head <= head'
  BY <1>1, <1>2
<1>4. ASSUME NEW i \in 1 .. n
      PROVE  /\ Marked[i] \in GroupType
             /\ Marked[i].first = groups[i].first /\ Marked[i].token = groups[i].token
             /\ Marked[i].off = groups[i].off /\ Marked[i].len = groups[i].len
             /\ Marked[i].buf = groups[i].buf /\ Marked[i].dev = groups[i].dev
  <2>1. groups[i] \in GroupType
    BY <1>1, GroupElement
  <2>2. Marked[i] = groups[i] \/ \E s \in BOOLEAN : Marked[i] = [groups[i] EXCEPT !.seen = s]
    BY <1>1, <2>1 DEF Marked, GroupType
  <2> QED  BY <2>1, <2>2 DEF GroupType
<1>5. groups' \in Seq(GroupType) /\ Len(groups') = n /\ DOMAIN groups' = 1 .. n
  <2>1. Marked \in [1 .. n -> GroupType]
    BY <1>1, <1>4 DEF Marked
  <2> QED  BY <1>1, <1>2, <2>1
<1>6. \A i \in 1 .. n :
        /\ groups'[i].first = groups[i].first /\ groups'[i].token = groups[i].token
        /\ groups'[i].off = groups[i].off /\ groups'[i].len = groups[i].len
        /\ groups'[i].buf = groups[i].buf /\ groups'[i].dev = groups[i].dev
  BY <1>2, <1>4
<1>7. Tip' = Tip /\ GroupsFollow' /\ FileIsTiled' /\ Ordered' /\ Covered'
  BY <1>5, <1>6, SameShape
<1>8. buf_free' \in [Buffers -> BOOLEAN]
  BY <1>2 DEF IInv, TypeOK
<1>9. Inflight' = head' + 1 .. n /\ Inflight = head + 1 .. n
  BY <1>5 DEF Inflight
<1> HIDE DEF n
<1>10. \A i \in Inflight' : i \in Inflight /\ i \in 1 .. n
  <2>1. Inflight' = head + k + 1 .. n
    BY <1>2, <1>9
  <2>2. head \in Nat
    BY <1>1
  <2>3. \A i \in head + k + 1 .. n : i \in head + 1 .. n /\ i \in 1 .. n
    BY <1>1, <1>3, <2>2
  <2> QED  BY <1>9, <2>1, <2>3
<1>11. \A i \in head + 1 .. head + k :
         i \in Inflight /\ i \in 1 .. n /\ i \notin Inflight' /\ groups[i].dev = "ok"
  <2>1. \A i \in head + 1 .. head + k : i \in Inflight /\ i \in 1 .. n /\ i \notin Inflight'
    BY <1>1, <1>2, <1>3, <1>9
  <2> QED  BY <1>2, <1>4, <2>1 DEF Retires
<1>12. \A i \in 1 .. n : groups[i].buf \in Buffers
  BY <1>1, GroupElement DEF n
<1>13. cur' \in CurType /\ cur'.len = cur.len /\ cur'.first = cur.first /\ cur'.last = cur.last
       /\ (cur'.buf = cur.buf \/ (cur.buf = NoBuffer /\ k > 0 /\ cur'.buf = groups[head + 1].buf))
  <2>1. cur \in CurType
    BY DEF IInv, TypeOK, CurType
  <2>2. k > 0 => head + 1 \in head + 1 .. head + k
    BY <1>1, <1>3
  <2>3. k > 0 => groups[head + 1].buf \in 0 .. NumBuffers
    BY <1>11, <1>12, <2>2, SizesAssumption DEF Buffers
  <2> QED  BY <1>2, <2>1, <2>3 DEF CurType
<1>14. TypeOK'
  <2>1. durable_lsn' \in Nat
    <3>1. k # 0 => head + k \in 1 .. n
      BY <1>1, <1>2, <1>3
    <3> QED  BY <1>1, <1>2, <3>1, GroupElement DEF IInv, TypeOK, n
  <2>2. grp_halted' \in BOOLEAN
    BY <1>2 DEF IInv, TypeOK
  <2> QED  BY <1>3, <1>5, <1>8, <1>13, <2>1, <2>2 DEF IInv, TypeOK, CurType
<1>15. CurrentFollows'
  BY <1>7, <1>13 DEF IInv, CurrentFollows
<1>16. \A i \in Inflight' : ~buf_free'[groups'[i].buf]
  <2> SUFFICES ASSUME NEW i \in Inflight'  PROVE ~buf_free'[groups[i].buf]
    BY <1>6, <1>10
  <2>1. ~buf_free[groups[i].buf]
    BY <1>10 DEF IInv, Accounted
  <2>2. \A j \in head + 1 .. head + k : groups[j].buf # groups[i].buf
    BY <1>10, <1>11 DEF IInv, BufferIsHeld
  <2> QED  BY <1>2, <1>10, <1>12, <2>1, <2>2
<1>17. cur'.buf # NoBuffer => cur'.buf \in Buffers /\ buf_free'[cur'.buf]
  <2>1. CASE cur'.buf = cur.buf
    <3>1. cur.buf # NoBuffer => cur.buf \in Buffers
      BY SizesAssumption DEF IInv, TypeOK, Buffers, NoBuffer
    <3> QED  BY <1>2, <2>1, <3>1 DEF IInv, Accounted
  <2>2. CASE k > 0 /\ cur'.buf = groups[head + 1].buf
    <3>1. head + 1 \in head + 1 .. head + k
      BY <1>1, <1>3, <2>2
    <3> QED  BY <1>2, <1>11, <1>12, <2>2, <3>1
  <2> QED  BY <1>13, <2>1, <2>2
<1>18. Accounted'
  BY <1>13, <1>16, <1>17 DEF IInv, Accounted, NoBuffer
<1>19. BufferIsHeld'
  <2>1. \A i \in Inflight' : cur'.buf # groups'[i].buf
    <3>1. \A i \in Inflight' : groups'[i].buf # NoBuffer
      BY <1>6, <1>10, <1>12, SizesAssumption DEF Buffers, NoBuffer
    <3> QED  BY <1>16, <1>17, <3>1
  <2> QED  BY <1>6, <1>10, <2>1 DEF IInv, BufferIsHeld
<1>20. Completed'
  <2>1. \A i \in 1 .. head' : groups'[i].dev = "ok"
    <3>1. \A i \in 1 .. head' : i \in 1 .. n /\ (i \in 1 .. head \/ i \in head + 1 .. head + k)
      BY <1>1, <1>2, <1>3
    <3> QED  BY <1>6, <1>11, <3>1 DEF IInv, Completed
  <2>2. \A i \in 1 .. n :
          groups'[i].dev = "ok" => groups'[i].first .. groups'[i].token \subseteq written'
    BY <1>1, <1>6 DEF IInv, Completed
  <2>3. durable_lsn' = IF head' = 0 THEN 0 ELSE groups'[head'].token
    <3>1. head' # 0 => head' \in 1 .. n
      BY <1>3, <1>1
    <3>2. k = 0 => head' = head
      BY <1>1, <1>2
    <3>3. k # 0 => head' # 0
      BY <1>1, <1>2, <1>3
    <3> QED  BY <1>2, <1>6, <3>1, <3>2, <3>3 DEF IInv, Completed
  <2> QED  BY <1>5, <2>1, <2>2, <2>3 DEF Completed
<1>21. durable_lsn <= durable_lsn'
  <2>1. CASE k = 0 \/ head = 0
    BY <1>2, <1>14, <2>1, SMTT(40) DEF IInv, TypeOK, Completed
  <2>2. CASE k # 0 /\ head # 0
    <3>1. head \in 1 .. n /\ head + k \in 1 .. n /\ head < head + k
      BY <1>1, <1>2, <1>3, <2>2
    <3>2. groups[head].token < groups[head + k].first
      BY <1>1, <3>1 DEF IInv, Ordered
    <3>3. groups[head + k].first <= groups[head + k].token
      BY <1>1, <3>1 DEF IInv, GroupsFollow
    <3>4. /\ groups[head].token \in Nat /\ groups[head + k].first \in Nat
          /\ groups[head + k].token \in Nat
      BY <1>1, <3>1, GroupElement DEF n
    <3> QED  BY <1>2, <2>2, <3>2, <3>3, <3>4 DEF IInv, Completed
  <2> QED  BY <2>1, <2>2
<1> QED  BY <1>7, <1>14, <1>15, <1>18, <1>19, <1>20, <1>21 DEF IInv

-----------------------------------------------------------------------------
\* Every call of the log and every act of the device keeps the invariant.
LEMMA NextInv == IInv /\ [Next]_vars => IInv'
<1> SUFFICES ASSUME IInv, [Next]_vars  PROVE IInv'
  OBVIOUS
<1>0. wal_halted \in BOOLEAN /\ call \in {"none", "force_commit"}
  BY DEF IInv, TypeOK
<1>1. ASSUME NEW len \in RecLens, WalAppend(len)  PROVE IInv'
  BY <1>1, AppendToCurrentInv, SubmitThenAppendInv DEF WalAppend
<1>2. ASSUME SubmitHalts, call' \in {"none", "force_commit"},
             UNCHANGED <<last_lsn, grp_halted, durable_lsn, buffers, head, base, written>>
      PROVE  IInv'
  <2>1. UNCHANGED <<seg_offset, cur, buf_free, groups>> /\ wal_halted' = TRUE
    BY <1>2 DEF SubmitHalts
  <2>2. TypeOK'
    BY <1>2, <2>1 DEF IInv, TypeOK
  <2>3. Tip' = Tip /\ Inflight' = Inflight
    BY <1>2, <2>1 DEF Tip, Inflight
  <2>4. GroupsFollow' /\ CurrentFollows' /\ FileIsTiled' /\ BufferIsHeld'
    BY <1>2, <2>1, <2>3 DEF IInv, GroupsFollow, CurrentFollows, FileIsTiled, BufferIsHeld
  <2>5. Accounted' /\ Ordered' /\ Covered' /\ Completed'
    BY <1>2, <2>1, <2>3 DEF IInv, Accounted, Ordered, Covered, Completed, NoBuffer
  <2> QED  BY <2>2, <2>4, <2>5 DEF IInv
<1>3. ASSUME NEW due \in BOOLEAN, MaybeSubmit(due)  PROVE IInv'
  <2>1. /\ cur.len > 0 /\ call' \in {"none", "force_commit"}
        /\ UNCHANGED <<last_lsn, grp_halted, durable_lsn, buffers, head, base, written>>
    BY <1>0, <1>3 DEF MaybeSubmit
  <2>2. CASE SubmitCurrent
    BY <1>0, <2>1, <2>2, SubmitCurrentInv DEF SubmitCurrent
  <2>3. CASE SubmitHalts
    BY <1>2, <2>1, <2>3
  <2> QED  BY <1>3, <2>2, <2>3 DEF MaybeSubmit
<1>4. ASSUME GroupReap, UNCHANGED <<last_lsn, seg_offset, buffers, base, written>>,
             \/ wal_halted' = grp_halted'
             \/ \E target \in 1 .. last_lsn : wal_halted' = (grp_halted' \/ durable_lsn' < target),
             call' \in {"none", "force_commit"}
      PROVE  IInv'
  <2>1. grp_halted' \in BOOLEAN
    BY <1>4 DEF GroupReap, IInv, TypeOK
  <2>2. wal_halted' \in BOOLEAN
    BY <1>4, <2>1
  <2> QED  BY <1>4, <2>2, GroupReapInv
<1>5. CASE Reap
  BY <1>0, <1>4, <1>5 DEF Reap
<1>6. CASE ForceCommit
  <2>1. call' \in {"none", "force_commit"}
    BY <1>6 DEF ForceCommit
  <2>2. UNCHANGED <<last_lsn, grp_halted, durable_lsn, buffers, head, base, written>>
    BY <1>6 DEF ForceCommit
  <2>3. CASE UNCHANGED <<seg_offset, cur, buf_free, groups, wal_halted>>
    <3>1. TypeOK'
      BY <2>1, <2>2, <2>3 DEF IInv, TypeOK
    <3>2. Tip' = Tip /\ Inflight' = Inflight
      BY <2>2, <2>3 DEF Tip, Inflight
    <3>3. GroupsFollow' /\ CurrentFollows' /\ FileIsTiled' /\ BufferIsHeld'
      BY <2>2, <2>3, <3>2 DEF IInv, GroupsFollow, CurrentFollows, FileIsTiled, BufferIsHeld
    <3>4. Accounted' /\ Ordered' /\ Covered' /\ Completed'
      BY <2>2, <2>3, <3>2 DEF IInv, Accounted, Ordered, Covered, Completed, NoBuffer
    <3> QED  BY <3>1, <3>3, <3>4 DEF IInv
  <2>4. CASE cur.len > 0 /\ SubmitCurrent
    BY <1>0, <2>1, <2>2, <2>4, SubmitCurrentInv DEF SubmitCurrent
  <2>5. CASE SubmitHalts
    BY <1>2, <2>1, <2>2, <2>5
  <2> QED  BY <1>6, <2>3, <2>4, <2>5 DEF ForceCommit
<1>7. CASE ForceCommitReap
  BY <1>4, <1>7 DEF ForceCommitReap
<1>8. ASSUME NEW target \in 1 .. last_lsn, AwaitDurable(target)  PROVE IInv'
  BY <1>0, <1>4, <1>8 DEF AwaitDurable
<1>9. ASSUME NEW i \in Inflight, NEW how \in {"ok", "fail"}, Complete(i, how)  PROVE IInv'
  BY <1>9, CompleteInv
<1>10. CASE UNCHANGED vars
  <2> USE <1>10 DEF vars, walVars, grpVars
  <2>1. TypeOK'
    BY DEF IInv, TypeOK
  <2>2. Tip' = Tip /\ Inflight' = Inflight
    BY DEF Tip, Inflight
  <2>3. GroupsFollow' /\ CurrentFollows' /\ FileIsTiled' /\ BufferIsHeld'
    BY <2>2 DEF IInv, GroupsFollow, CurrentFollows, FileIsTiled, BufferIsHeld
  <2>4. Accounted' /\ Ordered' /\ Covered' /\ Completed'
    BY <2>2 DEF IInv, Accounted, Ordered, Covered, Completed, NoBuffer
  <2> QED  BY <2>1, <2>3, <2>4 DEF IInv
<1> QED  BY <1>1, <1>3, <1>5, <1>6, <1>7, <1>8, <1>9, <1>10 DEF Next

\* The inductive invariant holds in every reachable state of the log.
THEOREM SpecIInv == Spec => []IInv
  BY InitInv, NextInv, PTL DEF Spec

-----------------------------------------------------------------------------
\* The tip of the log is an LSN append has handed out.
LEMMA TipBound ==
  ASSUME IInv
  PROVE  Tip \in Nat /\ base \in Nat /\ last_lsn \in Nat /\ base <= Tip /\ Tip <= last_lsn
         /\ base <= last_lsn
<1> DEFINE n == Len(groups)
<1>1. n \in Nat /\ groups \in Seq(GroupType)
  BY LenProperties DEF IInv, TypeOK
<1>2. base \in Nat /\ last_lsn \in Nat /\ cur.len \in Nat /\ cur.first \in Nat
      /\ cur.last \in Nat
  BY DEF IInv, TypeOK
<1>3. Tip \in Nat
  <2>1. n # 0 => n \in 1 .. n /\ groups # <<>>
    BY <1>1
  <2>2. n = 0 => groups = <<>>
    BY <1>1
  <2> QED  BY <1>1, <1>2, <2>1, <2>2, GroupElement DEF Tip
<1>4. base <= Tip
  BY DEF IInv, Ordered
<1>5. CASE cur.len = 0
  BY <1>2, <1>3, <1>4, <1>5 DEF IInv, CurrentFollows
<1>6. CASE cur.len > 0
  BY <1>2, <1>3, <1>4, <1>6 DEF IInv, CurrentFollows
<1> QED  BY <1>2, <1>5, <1>6

\* The durable prefix: an LSN at or below durable_lsn is in a group that left the
\* ring, because the groups cover every LSN and are in order.
LEMMA DurableGroup ==
  ASSUME IInv, NEW m \in base + 1 .. durable_lsn
  PROVE  \E i \in 1 .. head : groups[i].first <= m /\ m <= groups[i].token
<1> DEFINE n == Len(groups)
<1>1. groups \in Seq(GroupType) /\ n \in Nat /\ DOMAIN groups = 1 .. n /\ head \in 0 .. n
  BY LenProperties DEF IInv, TypeOK
<1>2. \A i \in 1 .. n : groups[i].first \in Nat /\ groups[i].token \in Nat
  BY <1>1, GroupElement
<1>3. Tip \in Nat /\ base \in Nat /\ last_lsn \in Nat /\ Tip <= last_lsn
  BY TipBound
<1> HIDE DEF n
<1>4. head # 0
  BY <1>3 DEF IInv, Completed
<1>5. head \in 1 .. n
  BY <1>1, <1>4
<1>6. durable_lsn = groups[head].token
  BY <1>4 DEF IInv, Completed
<1>7. durable_lsn \in Nat /\ durable_lsn <= Tip
  BY <1>1, <1>2, <1>5, <1>6 DEF IInv, Ordered
<1>8. m \in base + 1 .. Tip /\ m \in Nat
  BY <1>3, <1>7
<1>9. PICK i \in 1 .. n : groups[i].first <= m /\ m <= groups[i].token
  BY <1>1, <1>8 DEF IInv, Covered
<1>10. ~ (head < i)
  <2> SUFFICES ASSUME head < i  PROVE FALSE
    OBVIOUS
  <2>1. groups[head].token < groups[i].first
    BY <1>1, <1>5, <1>9 DEF IInv, Ordered
  <2> QED  BY <1>2, <1>5, <1>6, <1>7, <1>8, <1>9, <2>1
<1>11. i \in 1 .. head
  BY <1>1, <1>9, <1>10
<1> QED  BY <1>9, <1>11

\* The records of the durable prefix are stored, and it ends within the log.
LEMMA DurablePrefix == IInv => DurableIsWritten /\ durable_lsn <= last_lsn
<1> SUFFICES ASSUME IInv  PROVE DurableIsWritten /\ durable_lsn <= last_lsn
  OBVIOUS
<1>1. groups \in Seq(GroupType) /\ DOMAIN groups = 1 .. Len(groups) /\ head \in 0 .. Len(groups)
      /\ Len(groups) \in Nat
  BY LenProperties DEF IInv, TypeOK
<1>2. \A i \in 1 .. Len(groups) : groups[i].first \in Nat /\ groups[i].token \in Nat
  BY <1>1, GroupElement
<1>3. Tip \in Nat /\ base \in Nat /\ last_lsn \in Nat /\ Tip <= last_lsn
  BY TipBound
<1>4. durable_lsn <= last_lsn /\ durable_lsn \in Nat
  <2>1. CASE head = 0
    BY <1>3, <2>1 DEF IInv, Completed
  <2>2. CASE head # 0
    <3>1. head \in 1 .. Len(groups) /\ durable_lsn = groups[head].token
      BY <1>1, <2>2 DEF IInv, Completed
    <3>2. groups[head].token <= Tip
      BY <1>1, <3>1 DEF IInv, Ordered
    <3> QED  BY <1>2, <1>3, <3>1, <3>2
  <2> QED  BY <2>1, <2>2
<1>5. ASSUME NEW m \in base + 1 .. durable_lsn  PROVE m \in written
  <2>1. PICK i \in 1 .. head : groups[i].first <= m /\ m <= groups[i].token
    BY DurableGroup
  <2>2. groups[i].first .. groups[i].token \subseteq written /\ i \in 1 .. Len(groups)
    BY <1>1, <2>1 DEF IInv, Completed
  <2>3. m \in groups[i].first .. groups[i].token
    BY <1>2, <1>3, <1>4, <2>1, <2>2
  <2> QED  BY <2>2, <2>3
<1> QED  BY <1>4, <1>5 DEF DurableIsWritten

\* The state of WalT and GroupCommit keeps its type.
THEOREM WalTypeOK == Spec => []TypeOK
<1>1. IInv => TypeOK
  BY DEF IInv
<1> QED  BY <1>1, SpecIInv, PTL

\* I8: LSNs reach the file with no gap and no repetition.
THEOREM WalContiguous == Spec => []LogIsContiguous
<1>1. IInv => LogIsContiguous
  BY DEF IInv, LogIsContiguous
<1> QED  BY <1>1, SpecIInv, PTL

\* Groups tile the segment: no group overwrites another and there is no hole.
THEOREM WalTiled == Spec => []FileIsTiled
<1>1. IInv => FileIsTiled
  BY DEF IInv
<1> QED  BY <1>1, SpecIInv, PTL

\* append never writes into a buffer the device may still read.
THEOREM WalBuffersHeld == Spec => []BufferIsHeld
<1>1. IInv => BufferIsHeld
  BY DEF IInv
<1> QED  BY <1>1, SpecIInv, PTL

\* I9: what durable_lsn announces is stored in full, in whatever order the device
\* ends its writes and whichever of them fail.
THEOREM WalDurable == Spec => []DurableIsWritten
<1>1. IInv => DurableIsWritten
  BY DurablePrefix
<1> QED  BY <1>1, SpecIInv, PTL

-----------------------------------------------------------------------------
(* WalT implements the contract of core::Journal.                           *)

\* What the refinement needs besides IInv: only records of this log were stored,
\* and force_commit goes on to its reap only in a log that has not stopped.
Bounded ==
  /\ written \subseteq 1 .. last_lsn
  /\ call = "force_commit" => ~wal_halted

\* The log never goes back: LSNs are not taken back and the tip is among them.
LEMMA LastLsnGrows ==
  ASSUME IInv, [Next]_vars
  PROVE  last_lsn \in Nat /\ last_lsn' \in Nat /\ last_lsn <= last_lsn' /\ base' = base
<1>1. last_lsn \in Nat
  BY DEF IInv, TypeOK
<1>2. last_lsn' = last_lsn \/ last_lsn' = last_lsn + 1
  BY DEF Next, vars, walVars, grpVars, WalAppend, AppendToCurrent, SubmitThenAppend,
         MaybeSubmit, Reap, ForceCommit, ForceCommitReap, AwaitDurable, Complete
<1>3. base' = base
  BY DEF Next, vars, walVars, grpVars, WalAppend,
         MaybeSubmit, Reap, ForceCommit, ForceCommitReap, AwaitDurable, Complete
<1> QED  BY <1>1, <1>2, <1>3

\* A completion stores LSNs the log has handed out.
LEMMA CompleteStores ==
  ASSUME IInv, NEW i \in Inflight, NEW how \in {"ok", "fail"}, Complete(i, how)
  PROVE  /\ written \subseteq written'
         /\ written' \subseteq written \cup (1 .. last_lsn)
<1>1. i \in 1 .. Len(groups) /\ groups \in Seq(GroupType) /\ DOMAIN groups = 1 .. Len(groups)
  BY LenProperties DEF IInv, TypeOK, Inflight
<1>2. buffers[groups[i].buf] = Range2(groups[i].first, groups[i].token)
  BY DEF IInv, BufferIsHeld
<1>3. Lsns(buffers[groups[i].buf]) = groups[i].first .. groups[i].token
  BY <1>2 DEF Range2, Lsns
<1>4. groups[i].first \in Nat /\ groups[i].token \in Nat
  BY <1>1, GroupElement
<1>5. base < groups[i].first /\ groups[i].token <= Tip /\ base \in Nat
  BY <1>1 DEF IInv, Ordered, TypeOK
<1>6. Tip \in Nat /\ Tip <= last_lsn /\ last_lsn \in Nat
  BY TipBound
<1>7. groups[i].first .. groups[i].token \subseteq 1 .. last_lsn
  BY <1>4, <1>5, <1>6
<1> QED  BY <1>3, <1>7 DEF Complete

\* The added facts are kept too.
LEMMA BoundedNext == IInv /\ Bounded /\ [Next]_vars => Bounded'
<1> SUFFICES ASSUME IInv, Bounded, [Next]_vars  PROVE Bounded'
  OBVIOUS
<1>1. 1 .. last_lsn \subseteq 1 .. last_lsn'
  BY LastLsnGrows
<1>2. written' \subseteq 1 .. last_lsn'
  <2>1. CASE written' = written
    BY <1>1, <2>1 DEF Bounded
  <2>2. ASSUME NEW i \in Inflight, NEW how \in {"ok", "fail"}, Complete(i, how)
        PROVE  written' \subseteq 1 .. last_lsn'
    BY <1>1, <2>2, CompleteStores DEF Bounded
  <2> QED  BY <2>1, <2>2 DEF Next, vars, WalAppend, MaybeSubmit, Reap, ForceCommit,
                             ForceCommitReap, AwaitDurable
<1>3. call' = "force_commit" => ~wal_halted'
  <2>1. CASE UNCHANGED <<call, wal_halted>>
    BY <2>1 DEF Bounded
  <2>2. CASE call' = "none"
    BY <2>2
  <2>3. CASE ForceCommit
    BY <2>3 DEF ForceCommit, SubmitCurrent
  <2> QED  BY <2>1, <2>2, <2>3 DEF Next, vars, walVars, WalAppend, MaybeSubmit, Reap,
                                   ForceCommitReap, AwaitDurable, Complete
<1> QED  BY <1>2, <1>3 DEF Bounded

\* A call of reap moves durable_lsn as the contract allows.
LEMMA ReapRefines ==
  ASSUME IInv, IInv', Bounded, ~wal_halted, GroupReap,
         UNCHANGED <<last_lsn, seg_offset, buffers, base, written>>,
         wal_halted' \in BOOLEAN, call' \in {"none", "force_commit"}
  PROVE  JournalContract!Reap
<1>1. durable_lsn <= durable_lsn'
  BY GroupReapInv
<1>2. (IInv => DurableIsWritten /\ durable_lsn <= last_lsn)'
  BY DurablePrefix, PTL
<1>3. base + 1 .. durable_lsn' \subseteq written /\ durable_lsn' <= last_lsn
  BY <1>2 DEF DurableIsWritten
<1>4. base \in Nat /\ durable_lsn' \in Nat
  BY DEF IInv, TypeOK
<1>5. 1 .. durable_lsn' \subseteq (1 .. base) \cup written
  BY <1>3, <1>4
<1> QED  BY <1>1, <1>3, <1>5 DEF JournalContract!Reap

\* Every step of the log is a step of the contract or changes nothing it shows.
LEMMA StepRefines ==
  IInv /\ Bounded /\ [Next]_vars => [JournalContract!Next]_(JournalContract!vars)
<1> SUFFICES ASSUME IInv, Bounded, [Next]_vars
             PROVE  [JournalContract!Next]_(JournalContract!vars)
  OBVIOUS
<1>0. IInv' /\ base' = base /\ wal_halted \in BOOLEAN
      /\ call \in {"none", "force_commit"}
  BY NextInv, LastLsnGrows DEF IInv, TypeOK
<1>1. CASE UNCHANGED <<last_lsn, durable_lsn, wal_halted, written>>
  BY <1>0, <1>1 DEF JournalContract!vars
<1>2. ASSUME NEW len \in RecLens, WalAppend(len)
      PROVE  [JournalContract!Next]_(JournalContract!vars)
  <2>1. last_lsn' = last_lsn \/ last_lsn' = last_lsn + 1
    BY <1>2 DEF WalAppend, AppendToCurrent, SubmitThenAppend
  <2>2. ~wal_halted /\ UNCHANGED <<wal_halted, durable_lsn, written>>
    BY <1>2 DEF WalAppend
  <2>3. CASE last_lsn' = last_lsn
    BY <1>1, <2>2, <2>3
  <2>4. CASE last_lsn' = last_lsn + 1
    BY <1>0, <2>2, <2>4 DEF JournalContract!Append, JournalContract!Next
  <2> QED  BY <2>1, <2>3, <2>4
<1>3. ASSUME SubmitHalts, UNCHANGED <<last_lsn, durable_lsn, written>>
      PROVE  [JournalContract!Next]_(JournalContract!vars)
  BY <1>0, <1>3 DEF SubmitHalts, JournalContract!Halt, JournalContract!Next
<1>4. ASSUME NEW due \in BOOLEAN, MaybeSubmit(due)
      PROVE  [JournalContract!Next]_(JournalContract!vars)
  BY <1>1, <1>3, <1>4 DEF MaybeSubmit, SubmitCurrent
<1>5. CASE ForceCommit
  BY <1>1, <1>3, <1>5 DEF ForceCommit, SubmitCurrent
<1>6. ASSUME ~wal_halted, GroupReap, UNCHANGED <<last_lsn, seg_offset, buffers, base, written>>
      PROVE  [JournalContract!Next]_(JournalContract!vars)
  <2>1. wal_halted' \in BOOLEAN /\ call' \in {"none", "force_commit"}
    BY <1>0 DEF IInv, TypeOK
  <2>2. JournalContract!Reap
    BY <1>0, <1>6, <2>1, ReapRefines
  <2> QED  BY <2>2 DEF JournalContract!Next
<1>7. CASE Reap
  BY <1>6, <1>7 DEF Reap
<1>8. CASE ForceCommitReap
  BY <1>6, <1>8 DEF ForceCommitReap, Bounded
<1>9. ASSUME NEW target \in 1 .. last_lsn, AwaitDurable(target)
      PROVE  [JournalContract!Next]_(JournalContract!vars)
  BY <1>6, <1>9 DEF AwaitDurable
<1>10. ASSUME NEW i \in Inflight, NEW how \in {"ok", "fail"}, Complete(i, how)
       PROVE  [JournalContract!Next]_(JournalContract!vars)
  <2>1. /\ written \subseteq written'
        /\ written' \subseteq written \cup (1 .. last_lsn)
    BY <1>10, CompleteStores
  <2>2. base \in Nat /\ last_lsn \in Nat /\ base <= last_lsn
    BY TipBound DEF IInv, TypeOK, Ordered
  <2>3. (1 .. base) \cup written' \subseteq 1 .. last_lsn
    BY <2>1, <2>2 DEF Bounded
  <2>4. UNCHANGED <<last_lsn, durable_lsn, wal_halted>>
    BY <1>10 DEF Complete, walVars
  <2> QED  BY <1>0, <2>1, <2>3, <2>4 DEF JournalContract!Store, JournalContract!Next
<1>11. CASE UNCHANGED vars
  BY <1>1, <1>11 DEF vars, walVars, grpVars
<1> QED  BY <1>2, <1>4, <1>5, <1>7, <1>8, <1>9, <1>10, <1>11 DEF Next

\* The log is opened in a state the contract starts from.
LEMMA InitRefines == Init => Bounded /\ JournalContract!Init
<1> SUFFICES ASSUME Init  PROVE Bounded /\ JournalContract!Init
  OBVIOUS
<1>1. last_lsn \in Nat /\ base = last_lsn /\ durable_lsn = 0 /\ wal_halted = FALSE
      /\ written = {} /\ call = "none"
  BY InputsAssumption DEF Init
<1> QED  BY <1>1 DEF Bounded, JournalContract!Init

\* WalT keeps the contract of core::Journal: append, reap and a fail-stop are the
\* only things its caller can see, and durable_lsn is a stored prefix of the log.
THEOREM WalImplementsJournal == Spec => ImplementsJournal
<1>1. Spec => []Bounded
  BY InitRefines, InitInv, NextInv, BoundedNext, SpecIInv, PTL DEF Spec
<1> QED
  BY <1>1, InitRefines, SpecIInv, StepRefines, PTL
     DEF Spec, ImplementsJournal, JournalContract!Spec
=============================================================================
