--------------------------- MODULE RecoveryProofs ---------------------------
(***************************************************************************)
(* Proofs about module LogRecovery, for any segment, any sizes of blocks,  *)
(* groups and records and any number of events and crashes.                *)
(*                                                                         *)
(* The argument is about the way of the reader.  Every record the log was  *)
(* opened with, and every durable one, is on disk in one piece, and from   *)
(* the end of each the reader gets to the next, at once or over the rest   *)
(* of a block (Path).  Groups are only written past the block where the    *)
(* last replayed record ends, so the way stays; it leads on into the new   *)
(* groups if the reader did not stop inside that block (midblock).  While  *)
(* it reads, the reader is on that way and cannot stop before its end.     *)
(***************************************************************************)
EXTENDS LogRecovery, WalProofs

\* The first cell after the record of an LSN; the log starts at cell 0.
EndOf(r, n) == IF n = 0 THEN 0 ELSE r[n].at + r[n].len

\* The record is on disk in one piece.
OnDisk(d, r, n) ==
  /\ EndOf(r, n) <= SegmentCells
  /\ \A k \in 0 .. r[n].len - 1 : d[r[n].at + k] = Part(r, n, k)

\* The reader comes from o to p without accepting a record.
Gets(d, o, p) == o = p \/ (o < SegmentCells /\ Skips(d, o) /\ p = Padded(o))

\* The first m records of r are what the reader finds on the disk.
Path(d, r, m) ==
  \A n \in 1 .. m : OnDisk(d, r, n) /\ Gets(d, EndOf(r, n - 1), r[n].at)

\* Records lie in LSN order and do not overlap.
Sorted(r) == \A n, m \in DOMAIN r : n < m => EndOf(r, n) <= r[m].at

\* The records of a group lie one behind the other.
Consecutive(r, first, last) == \A n \in first + 1 .. last : r[n].at = EndOf(r, n - 1)

RecType == [ev : Nat, len : Nat \ {0}, at : Nat]
CellType == [lsn : Nat, ev : Nat, len : Nat \ {0}, part : Nat] \cup {Zero}

\* Where the groups of this life start: the block after the last replayed record.
Start == Padded(EndOf(rec, base))

RTypeOK ==
  /\ disk \in [Cells -> CellType]
  /\ rec \in Seq(RecType) /\ Len(rec) = last_lsn
  /\ events \in Nat /\ crashes \in Nat /\ phase \in {"open", "read"}
  /\ midblock \in BOOLEAN

\* A group holds its records from its first cell on, padded to whole blocks.
GroupPlaced(r, g) ==
  /\ r[g.first].at = g.off
  /\ Consecutive(r, g.first, g.token)
  /\ Padded(EndOf(r, g.token)) = g.off + g.len

\* The groups lie past the replayed records, in order, inside the segment.
GroupsPlaced(r, gs, start, tail) ==
  /\ \A i \in DOMAIN gs :
       /\ GroupPlaced(r, gs[i])
       /\ start <= gs[i].off
       /\ gs[i].off + gs[i].len <= tail
       /\ gs[i].off + gs[i].len <= SegmentCells
  /\ \A i, j \in DOMAIN gs : i < j => gs[i].off + gs[i].len <= gs[j].off
  /\ start <= tail
  /\ IF gs = <<>> THEN tail = start ELSE gs[1].off = start

\* The records of the group being built lie from seg_offset_ on.
CurrentPlaced(r, c, tail) ==
  c.len > 0 => /\ r[c.first].at = tail
               /\ Consecutive(r, c.first, c.last)
               /\ EndOf(r, c.last) = tail + c.len

\* A group the device stored is on the disk, padding included.
GroupStored(d, r, g) ==
  /\ \A n \in g.first .. g.token : OnDisk(d, r, n)
  /\ \A c \in EndOf(r, g.token) .. g.off + g.len - 1 : d[c] = Zero

GroupsStored(d, r, gs) ==
  \A i \in DOMAIN gs : gs[i].dev = "ok" => GroupStored(d, r, gs[i])

Placed ==
  /\ Sorted(rec)
  /\ GroupsPlaced(rec, groups, Start, seg_offset)
  /\ Padded(seg_offset) = seg_offset
  /\ CurrentPlaced(rec, cur, seg_offset)

\* What the disk holds of this life.
Kept ==
  /\ GroupsStored(disk, rec, groups)
  /\ Path(disk, rec, base)
  /\ ~midblock => Gets(disk, EndOf(rec, base), Start)

\* The durable records are within the durable prefix.
Acknowledged ==
  /\ crashes = 0 => phase = "open"
  /\ crashes = 0 \/ (crashes = 1 /\ phase = "read") => ~midblock
  /\ ~midblock => \A r \in acked : r.lsn <= base \/ r.lsn <= durable_lsn
  /\ crashes <= 1 \/ ~midblock => AckedSurvives

\* What the reader has handed out, and where it stands.
Reading ==
  phase = "read" =>
    /\ log \in Seq(RecType)
    /\ offset \in Nat
    /\ Sorted(log)
    /\ Path(disk, log, Len(log))
    /\ Gets(disk, EndOf(log, Len(log)), offset)
    /\ resume = Padded(EndOf(log, Len(log)))

\* It follows the log of the life that crashed as far as that was safe.
Follows ==
  phase = "read" =>
    \A n \in DOMAIN log :
      n <= base \/ (~midblock /\ n <= durable_lsn) => log[n] = rec[n]

RInv == IInv /\ RTypeOK /\ Placed /\ Kept /\ Acknowledged /\ Reading /\ Follows

-----------------------------------------------------------------------------
(* Blocks.                                                                  *)

\* Multiples of the block size are in the order of their factors.
LEMMA TimesOrder ==
  ASSUME NEW a \in Int, NEW b \in Int, NEW d \in Nat \ {0}, a < b
  PROVE  a * d + d <= b * d
<1>1. PICK k \in Nat : k = b - a - 1
  OBVIOUS
<1>2. PICK t \in Int : t = k * d
  BY <1>1
<1>3. t >= 0
  BY <1>1, <1>2
<1>4. b * d = a * d + d + t
  <2>1. b = a + 1 + k
    BY <1>1
  <2> QED  BY <1>1, <1>2, <2>1
<1> QED  BY <1>3, <1>4

\* The quotient and the rest of a division by the block size.
LEMMA DivBlock ==
  ASSUME NEW n \in Nat
  PROVE  /\ n \div BlockBytes \in Nat /\ n % BlockBytes \in 0 .. BlockBytes - 1
         /\ n = (n \div BlockBytes) * BlockBytes + (n % BlockBytes)
  BY SizesAssumption

\* Only one multiple of the block size is within a block of a number.
LEMMA OneMultiple ==
  ASSUME NEW a \in Int, NEW b \in Int, NEW n \in Int,
         n <= a * BlockBytes, a * BlockBytes < n + BlockBytes,
         n <= b * BlockBytes, b * BlockBytes < n + BlockBytes
  PROVE  a = b
<1> USE SizesAssumption
<1>1. PICK x \in Int, y \in Int : x = a * BlockBytes /\ y = b * BlockBytes
  OBVIOUS
<1>2. ~ (a < b)
  <2> SUFFICES ASSUME a < b  PROVE FALSE
    OBVIOUS
  <2>1. x + BlockBytes <= y
    BY <1>1, TimesOrder
  <2> QED  BY <1>1, <2>1
<1>3. ~ (b < a)
  <2> SUFFICES ASSUME b < a  PROVE FALSE
    OBVIOUS
  <2>1. y + BlockBytes <= x
    BY <1>1, TimesOrder
  <2> QED  BY <1>1, <2>1
<1> QED  BY <1>2, <1>3

\* pad_to_block: the first multiple of the block size that is not below n.
LEMMA PaddedIs ==
  ASSUME NEW n \in Nat
  PROVE  /\ \E q \in Nat : Padded(n) = q * BlockBytes
         /\ Padded(n) \in Nat /\ n <= Padded(n) /\ Padded(n) < n + BlockBytes
<1> USE SizesAssumption
<1>1. PICK m \in Nat : m = n + BlockBytes - 1
  OBVIOUS
<1>2. PICK q \in Nat, r \in 0 .. BlockBytes - 1 :
        q = m \div BlockBytes /\ m = q * BlockBytes + r
  BY <1>1, DivBlock
<1>3. Padded(n) = q * BlockBytes
  BY <1>1, <1>2 DEF Padded
<1>4. PICK t \in Int : t = q * BlockBytes
  BY <1>2
<1>5. t \in Nat /\ n <= t /\ t < n + BlockBytes
  BY <1>1, <1>2, <1>4
<1> QED  BY <1>2, <1>3, <1>4, <1>5

\* A multiple of the block size has no rest and is its own padding.
LEMMA MultipleAligned ==
  ASSUME NEW q \in Nat
  PROVE  (q * BlockBytes) % BlockBytes = 0 /\ Padded(q * BlockBytes) = q * BlockBytes
<1> USE SizesAssumption
<1>1. PICK t \in Nat : t = q * BlockBytes
  OBVIOUS
<1>2. t % BlockBytes = 0
  <2>1. PICK a \in Nat, r \in 0 .. BlockBytes - 1 :
          a = t \div BlockBytes /\ r = t % BlockBytes /\ t = a * BlockBytes + r
    BY <1>1, DivBlock
  <2>2. PICK u \in Int : u = a * BlockBytes
    BY <2>1
  <2>3. ~ (a < q)
    <3> SUFFICES ASSUME a < q  PROVE FALSE
      OBVIOUS
    <3>1. u + BlockBytes <= t
      BY <1>1, <2>1, <2>2, TimesOrder
    <3> QED  BY <1>1, <2>1, <2>2, <3>1
  <2>4. ~ (q < a)
    <3> SUFFICES ASSUME q < a  PROVE FALSE
      OBVIOUS
    <3>1. t + BlockBytes <= u
      BY <1>1, <2>1, <2>2, TimesOrder
    <3> QED  BY <1>1, <2>1, <2>2, <3>1
  <2>5. a = q
    BY <2>1, <2>3, <2>4
  <2> QED  BY <1>1, <2>1, <2>2, <2>5
<1>3. Padded(t) = t
  <2>1. PICK p \in Nat : Padded(t) = p * BlockBytes
    BY <1>1, PaddedIs
  <2>2. t <= p * BlockBytes /\ p * BlockBytes < t + BlockBytes
    BY <1>1, <2>1, PaddedIs
  <2>3. p = q
    BY <1>1, <2>1, <2>2, OneMultiple
  <2> QED  BY <1>1, <2>1, <2>3
<1> QED  BY <1>1, <1>2, <1>3

\* Padding twice changes nothing, and what is padded is aligned.
LEMMA PaddedAligned ==
  ASSUME NEW n \in Nat
  PROVE  Padded(n) % BlockBytes = 0 /\ Padded(Padded(n)) = Padded(n)
<1>1. PICK q \in Nat : Padded(n) = q * BlockBytes
  BY PaddedIs
<1> QED  BY <1>1, MultipleAligned

\* An aligned offset is its own padding.
LEMMA AlignedPadded ==
  ASSUME NEW n \in Nat, n % BlockBytes = 0
  PROVE  Padded(n) = n
<1> USE SizesAssumption
<1>1. PICK q \in Nat : n = q * BlockBytes
  <2>1. n \div BlockBytes \in Nat /\ n = (n \div BlockBytes) * BlockBytes + 0
    BY DivBlock
  <2>2. PICK q \in Nat : q = n \div BlockBytes
    BY <2>1
  <2> QED  BY <2>1, <2>2
<1> QED  BY <1>1, MultipleAligned

\* A group at an aligned offset ends at an aligned offset.
LEMMA PaddedSum ==
  ASSUME NEW o \in Nat, NEW n \in Nat, Padded(o) = o
  PROVE  Padded(o + n) = o + Padded(n)
<1> USE SizesAssumption
<1>1. PICK a \in Nat : o = a * BlockBytes
  BY PaddedIs
<1>2. PICK b \in Nat : Padded(n) = b * BlockBytes
  BY PaddedIs
<1>3. PICK c \in Nat : Padded(o + n) = c * BlockBytes
  <2>1. o + n \in Nat
    OBVIOUS
  <2> QED  BY <2>1, PaddedIs
<1>4. PICK x \in Nat, y \in Nat, z \in Nat :
        x = a * BlockBytes /\ y = b * BlockBytes /\ z = c * BlockBytes
  BY <1>1, <1>2, <1>3
<1>5. (a + b) * BlockBytes = x + y
  BY <1>4
<1>6. n <= y /\ y < n + BlockBytes
  BY <1>2, <1>4, PaddedIs
<1>7. o + n <= z /\ z < o + n + BlockBytes
  <2>1. o + n \in Nat
    OBVIOUS
  <2> QED  BY <1>3, <1>4, <2>1, PaddedIs
<1>8. a + b = c
  <2>1. o + n <= (a + b) * BlockBytes /\ (a + b) * BlockBytes < o + n + BlockBytes
    BY <1>1, <1>4, <1>5, <1>6
  <2>2. o + n <= c * BlockBytes /\ c * BlockBytes < o + n + BlockBytes
    BY <1>4, <1>7
  <2>3. a + b \in Int /\ c \in Int /\ o + n \in Int
    OBVIOUS
  <2>4. PICK e \in Int, m \in Int : e = a + b /\ m = o + n
    BY <2>3
  <2> QED  BY <2>1, <2>2, <2>4, OneMultiple
<1> QED  BY <1>1, <1>2, <1>3, <1>4, <1>5, <1>8

-----------------------------------------------------------------------------
(* Records and where they lie.                                              *)

\* A record takes at least one cell, from its place up to its end.
LEMMA RecordPlace ==
  ASSUME NEW r \in Seq(RecType), NEW n \in 1 .. Len(r)
  PROVE  /\ r[n] \in RecType
         /\ r[n].ev \in Nat /\ r[n].len \in Nat \ {0} /\ r[n].at \in Nat
         /\ EndOf(r, n) \in Nat /\ EndOf(r, n) = r[n].at + r[n].len
         /\ r[n].at < EndOf(r, n)
<1>1. r[n] \in RecType
  BY ElementOfSeq
<1>2. r[n].ev \in Nat /\ r[n].len \in Nat \ {0} /\ r[n].at \in Nat
  BY <1>1 DEF RecType
<1>3. n # 0
  OBVIOUS
<1> QED  BY <1>1, <1>2, <1>3 DEF EndOf

\* The end of a record, or the start of the log, is an offset.
LEMMA EndType ==
  ASSUME NEW r \in Seq(RecType), NEW n \in 0 .. Len(r)
  PROVE  EndOf(r, n) \in Nat
<1>1. CASE n = 0
  BY <1>1 DEF EndOf
<1>2. CASE n # 0
  <2>1. n \in 1 .. Len(r)
    BY <1>2
  <2> QED  BY <2>1, RecordPlace
<1> QED  BY <1>1, <1>2

\* Records that are sorted end in order too, and each one starts after the end of
\* those before it.
LEMMA SortedEnds ==
  ASSUME NEW r \in Seq(RecType), Sorted(r), NEW n \in 0 .. Len(r), NEW m \in 0 .. Len(r),
         n <= m
  PROVE  EndOf(r, n) <= EndOf(r, m) /\ (n < m => EndOf(r, n) <= r[m].at)
<1>0. DOMAIN r = 1 .. Len(r) /\ Len(r) \in Nat
  BY LenProperties
<1>1. CASE n = m
  BY <1>1, EndType
<1>2. CASE n # m /\ n = 0
  <2>1. m \in 1 .. Len(r) /\ EndOf(r, n) = 0
    BY <1>0, <1>2 DEF EndOf
  <2> QED  BY <2>1, RecordPlace
<1>3. CASE n # m /\ n # 0
  <2>1. n \in 1 .. Len(r) /\ m \in 1 .. Len(r) /\ n < m
    BY <1>0, <1>3
  <2>2. EndOf(r, n) <= r[m].at
    BY <1>0, <2>1 DEF Sorted
  <2>3. r[m].at \in Nat /\ EndOf(r, m) \in Nat /\ r[m].at < EndOf(r, m) /\ EndOf(r, n) \in Nat
    BY <2>1, RecordPlace
  <2> QED  BY <2>2, <2>3
<1> QED  BY <1>1, <1>2, <1>3

\* A record stays on disk while nothing is written to its cells.
LEMMA OnDiskKept ==
  ASSUME NEW r \in Seq(RecType), NEW n \in 1 .. Len(r), NEW d, NEW e, OnDisk(d, r, n),
         \A c \in Cells : r[n].at <= c /\ c < EndOf(r, n) => e[c] = d[c]
  PROVE  OnDisk(e, r, n)
<1>1. r[n].len \in Nat /\ r[n].at \in Nat /\ EndOf(r, n) = r[n].at + r[n].len
  BY RecordPlace
<1>2. EndOf(r, n) <= SegmentCells
  BY DEF OnDisk
<1>3. ASSUME NEW k \in 0 .. r[n].len - 1  PROVE e[r[n].at + k] = Part(r, n, k)
  <2>1. PICK c \in Int : c = r[n].at + k
    BY <1>1
  <2>2. c \in Cells /\ r[n].at <= c /\ c < EndOf(r, n)
    BY <1>1, <1>2, <2>1, SegmentAssumption DEF Cells
  <2>3. d[c] = Part(r, n, k)
    BY <2>1 DEF OnDisk
  <2> QED  BY <2>1, <2>2, <2>3
<1> QED  BY <1>2, <1>3 DEF OnDisk

\* The reader passes padding as long as the cell it looks at is not written.
LEMMA GetsKept ==
  ASSUME NEW d, NEW e, NEW o \in Nat, NEW p, Gets(d, o, p),
         o \in Cells /\ o < p => e[o] = d[o]
  PROVE  Gets(e, o, p)
<1>1. CASE o = p
  BY <1>1 DEF Gets
<1>2. CASE o # p
  <2>1. o < SegmentCells /\ Skips(d, o) /\ p = Padded(o)
    BY <1>2 DEF Gets
  <2>2. o \in Cells /\ o < p
    <3>1. Padded(o) \in Nat /\ o <= Padded(o)
      BY PaddedIs
    <3> QED  BY <1>2, <2>1, <3>1, SegmentAssumption DEF Cells
  <2>3. Skips(e, o)
    BY <2>1, <2>2 DEF Skips
  <2> QED  BY <2>1, <2>3 DEF Gets
<1> QED  BY <1>1, <1>2

\* The way of the reader stays as long as nothing is written before its end.
LEMMA PathKept ==
  ASSUME NEW r \in Seq(RecType), Sorted(r), NEW m \in 0 .. Len(r), NEW d, NEW e,
         Path(d, r, m), \A c \in Cells : c < EndOf(r, m) => e[c] = d[c]
  PROVE  Path(e, r, m)
<1> SUFFICES ASSUME NEW n \in 1 .. m
             PROVE  OnDisk(e, r, n) /\ Gets(e, EndOf(r, n - 1), r[n].at)
  BY DEF Path
<1>1. n \in 1 .. Len(r) /\ n \in 0 .. Len(r) /\ n - 1 \in 0 .. Len(r) /\ n <= m
  BY LenProperties
<1>2. OnDisk(d, r, n) /\ Gets(d, EndOf(r, n - 1), r[n].at)
  BY DEF Path
<1>3. EndOf(r, n) <= EndOf(r, m)
  BY <1>1, SortedEnds
<1>4. /\ r[n].at \in Nat /\ EndOf(r, n) \in Nat /\ r[n].at < EndOf(r, n)
      /\ EndOf(r, m) \in Nat /\ EndOf(r, n - 1) \in Nat
  BY <1>1, RecordPlace, EndType
<1>5. \A c \in Cells : r[n].at <= c /\ c < EndOf(r, n) => e[c] = d[c]
  BY <1>3, <1>4 DEF Cells
<1>6. OnDisk(e, r, n)
  BY <1>1, <1>2, <1>5, OnDiskKept
<1>7. PICK o \in Nat : o = EndOf(r, n - 1)
  BY <1>4
<1>8. o \in Cells /\ o < r[n].at => e[o] = d[o]
  BY <1>3, <1>4, <1>7 DEF Cells
<1>9. Gets(e, o, r[n].at)
  BY <1>2, <1>7, <1>8, GetsKept
<1> QED  BY <1>6, <1>7, <1>9

-----------------------------------------------------------------------------
(* Writing.                                                                 *)

\* The records of a submitted group are records of this life, and lie in its cells.
LEMMA GroupRecords ==
  ASSUME IInv, RTypeOK, Placed, NEW i \in DOMAIN groups
  PROVE  /\ groups[i].first \in 1 .. Len(rec) /\ groups[i].token \in 1 .. Len(rec)
         /\ base < groups[i].first /\ groups[i].first <= groups[i].token
         /\ groups[i].off \in Nat /\ groups[i].len \in Nat
         /\ groups[i].off + groups[i].len <= SegmentCells
         /\ EndOf(rec, groups[i].token) \in Nat
         /\ EndOf(rec, groups[i].token) <= groups[i].off + groups[i].len
         /\ \A n \in groups[i].first .. groups[i].token :
              /\ n \in 1 .. Len(rec)
              /\ groups[i].off <= rec[n].at
              /\ EndOf(rec, n) <= EndOf(rec, groups[i].token)
<1>0. /\ groups \in Seq(GroupType) /\ i \in 1 .. Len(groups)
      /\ rec \in Seq(RecType) /\ Len(rec) = last_lsn /\ last_lsn \in Nat /\ base \in Nat
  BY LenProperties DEF IInv, TypeOK, RTypeOK
<1>1. PICK g : g = groups[i]
  OBVIOUS
<1>2. g.first \in Nat /\ g.token \in Nat /\ g.off \in Nat /\ g.len \in Nat
  BY <1>0, <1>1, GroupElement
<1>3. Tip \in Nat /\ Tip <= last_lsn
  BY TipBound
<1>4. base < g.first /\ g.token <= Tip /\ g.first <= g.token
  BY <1>1 DEF IInv, Ordered, GroupsFollow
<1>5. g.first \in 1 .. Len(rec) /\ g.token \in 1 .. Len(rec)
  BY <1>0, <1>2, <1>3, <1>4
<1>6. /\ rec[g.first].at = g.off /\ Padded(EndOf(rec, g.token)) = g.off + g.len
      /\ g.off + g.len <= SegmentCells
  BY <1>1 DEF Placed, GroupsPlaced, GroupPlaced
<1>7. EndOf(rec, g.token) \in Nat /\ EndOf(rec, g.token) <= g.off + g.len
  <2>1. EndOf(rec, g.token) \in Nat
    BY <1>0, <1>5, RecordPlace
  <2>2. EndOf(rec, g.token) <= Padded(EndOf(rec, g.token))
    BY <2>1, PaddedIs
  <2> QED  BY <1>6, <2>1, <2>2
<1>8. ASSUME NEW n \in g.first .. g.token
      PROVE  /\ n \in 1 .. Len(rec)
             /\ g.off <= rec[n].at
             /\ EndOf(rec, n) <= EndOf(rec, g.token)
  <2>1. /\ n \in 1 .. Len(rec) /\ n \in 0 .. Len(rec) /\ g.token \in 0 .. Len(rec)
        /\ g.first \in 0 .. Len(rec) /\ n <= g.token /\ g.first <= n /\ n \in Nat
    BY <1>0, <1>2, <1>5
  <2>2. EndOf(rec, n) <= EndOf(rec, g.token)
    BY <1>0, <2>1, SortedEnds DEF Placed
  <2>3. CASE n = g.first
    BY <1>0, <1>2, <1>6, <2>1, <2>2, <2>3
  <2>4. CASE n # g.first
    <3>1. EndOf(rec, g.first) <= rec[n].at
      BY <1>0, <1>2, <2>1, <2>4, SortedEnds DEF Placed
    <3>2. g.off < EndOf(rec, g.first) /\ EndOf(rec, g.first) \in Nat /\ rec[n].at \in Nat
      BY <1>0, <1>5, <1>6, <2>1, RecordPlace
    <3>3. PICK e \in Nat, f \in Nat : e = EndOf(rec, g.first) /\ f = rec[n].at
      BY <3>2
    <3>4. g.off <= f
      BY <1>2, <3>1, <3>2, <3>3
    <3> QED  BY <2>1, <2>2, <3>3, <3>4
  <2> QED  BY <2>3, <2>4
<1> QED  BY <1>1, <1>2, <1>4, <1>5, <1>6, <1>7, <1>8

\* The cells a write puts on disk are cells of records or zero.
LEMMA ImageType ==
  ASSUME IInv, RTypeOK, Placed, NEW i \in DOMAIN groups, NEW c \in Cells
  PROVE  Image(groups[i], c) \in CellType
<1>1. PICK g : g = groups[i]
  OBVIOUS
<1>2. CASE \E lsn \in g.first .. g.token : c \in Span(rec, lsn)
  <2>1. PICK n \in g.first .. g.token :
          c \in Span(rec, n) /\ Image(g, c) = Part(rec, n, c - rec[n].at)
    BY <1>2 DEF Image
  <2>2. n \in 1 .. Len(rec) /\ rec \in Seq(RecType)
    BY <1>1, <2>1, GroupRecords DEF RTypeOK
  <2>3. rec[n].ev \in Nat /\ rec[n].len \in Nat \ {0} /\ rec[n].at \in Nat /\ n \in Nat
    BY <2>2, RecordPlace
  <2>4. c - rec[n].at \in Nat
    BY <2>1, <2>3 DEF Span, Cells
  <2> QED  BY <1>1, <2>1, <2>3, <2>4 DEF Part, CellType
<1>3. CASE ~ \E lsn \in g.first .. g.token : c \in Span(rec, lsn)
  BY <1>1, <1>3 DEF Image, CellType
<1> QED  BY <1>2, <1>3

\* What the device does to the disk: the cells of the groups it writes, and no other.
LEMMA WritesOnlyGroups ==
  ASSUME IInv, RTypeOK, Placed, NEW gs, gs \subseteq DOMAIN groups, NEW blocks,
         NEW e, e = WithBlocks(gs, blocks)
  PROVE  /\ e \in [Cells -> CellType]
         /\ \A c \in Cells : (\A i \in gs : c \notin CellsOf(groups[i])) => e[c] = disk[c]
<1>1. ASSUME NEW c \in Cells  PROVE e[c] \in CellType
  <2>1. CASE BlockOf(c) \in blocks /\ \E i \in gs : c \in CellsOf(groups[i])
    <3>1. PICK i \in gs : i = CHOOSE j \in gs : c \in CellsOf(groups[j])
      BY <2>1
    <3>2. e[c] = Image(groups[i], c)
      BY <2>1, <3>1 DEF WithBlocks
    <3> QED  BY <3>1, <3>2, ImageType
  <2>2. CASE ~ (BlockOf(c) \in blocks /\ \E i \in gs : c \in CellsOf(groups[i]))
    <3>1. e[c] = disk[c]
      BY <2>2 DEF WithBlocks
    <3> QED  BY <3>1 DEF RTypeOK
  <2> QED  BY <2>1, <2>2
<1>2. e \in [Cells -> CellType]
  <2>1. e = [c \in Cells |-> e[c]]
    BY DEF WithBlocks
  <2> QED  BY <1>1, <2>1
<1>3. ASSUME NEW c \in Cells, \A i \in gs : c \notin CellsOf(groups[i])
      PROVE  e[c] = disk[c]
  BY <1>3 DEF WithBlocks
<1> QED  BY <1>2, <1>3

\* A write in full puts the image of the group in each of its cells.
LEMMA WritesGroup ==
  ASSUME IInv, RTypeOK, Placed, NEW i \in DOMAIN groups,
         NEW e, e = WithBlocks({i}, BlocksOf(groups[i])),
         NEW c \in Cells, c \in CellsOf(groups[i])
  PROVE  e[c] = Image(groups[i], c)
<1>1. BlockOf(c) \in BlocksOf(groups[i])
  BY DEF BlocksOf
<1>2. \E j \in {i} : c \in CellsOf(groups[j])
  OBVIOUS
<1>3. (CHOOSE j \in {i} : c \in CellsOf(groups[j])) = i
  BY <1>2
<1> QED  BY <1>1, <1>2, <1>3 DEF WithBlocks

\* A cell belongs to the one record of the group that covers it.
LEMMA ImageOfRecord ==
  ASSUME IInv, RTypeOK, Placed, NEW i \in DOMAIN groups,
         NEW n \in groups[i].first .. groups[i].token, NEW c \in Cells,
         rec[n].at <= c, c < EndOf(rec, n)
  PROVE  Image(groups[i], c) = Part(rec, n, c - rec[n].at)
<1>0. rec \in Seq(RecType) /\ Sorted(rec) /\ Len(rec) \in Nat
  BY LenProperties DEF RTypeOK, Placed
<1>1. PICK g : g = groups[i]
  OBVIOUS
<1>2. \A m \in g.first .. g.token : m \in 1 .. Len(rec)
  BY <1>1, GroupRecords
<1>3. ASSUME NEW m \in g.first .. g.token
      PROVE  c \in Span(rec, m) <=> rec[m].at <= c /\ c < EndOf(rec, m)
  <2>1. rec[m].at \in Nat /\ rec[m].len \in Nat /\ EndOf(rec, m) = rec[m].at + rec[m].len
    BY <1>0, <1>2, RecordPlace
  <2> QED  BY <2>1 DEF Span, Cells
<1>4. n \in g.first .. g.token /\ c \in Span(rec, n)
  BY <1>1, <1>3
<1>5. PICK m \in g.first .. g.token :
        c \in Span(rec, m) /\ Image(g, c) = Part(rec, m, c - rec[m].at)
  BY <1>4 DEF Image
<1>6. /\ n \in 1 .. Len(rec) /\ m \in 1 .. Len(rec)
      /\ rec[m].at <= c /\ c < EndOf(rec, m)
  BY <1>1, <1>2, <1>3, <1>5
<1>7. /\ rec[n].at \in Nat /\ rec[m].at \in Nat /\ EndOf(rec, n) \in Nat /\ EndOf(rec, m) \in Nat
      /\ c \in Int /\ n \in Nat /\ m \in Nat
  BY <1>0, <1>6, RecordPlace DEF Cells
<1>8. ~ (n < m)
  <2> SUFFICES ASSUME n < m  PROVE FALSE
    OBVIOUS
  <2>1. EndOf(rec, n) <= rec[m].at
    BY <1>0, <1>6, SortedEnds
  <2> QED  BY <1>6, <1>7, <2>1
<1>9. ~ (m < n)
  <2> SUFFICES ASSUME m < n  PROVE FALSE
    OBVIOUS
  <2>1. EndOf(rec, m) <= rec[n].at
    BY <1>0, <1>6, SortedEnds
  <2> QED  BY <1>6, <1>7, <2>1
<1>10. m = n
  BY <1>7, <1>8, <1>9
<1> QED  BY <1>1, <1>5, <1>10

\* A write in full leaves the group on disk, its records whole and its padding zero.
LEMMA WriteStores ==
  ASSUME IInv, RTypeOK, Placed, NEW i \in DOMAIN groups,
         NEW e, e = WithBlocks({i}, BlocksOf(groups[i]))
  PROVE  GroupStored(e, rec, groups[i])
<1>0. rec \in Seq(RecType)
  BY DEF RTypeOK
<1>1. PICK g : g = groups[i]
  OBVIOUS
<1>2. /\ g.off \in Nat /\ g.len \in Nat /\ g.off + g.len <= SegmentCells
      /\ EndOf(rec, g.token) \in Nat /\ EndOf(rec, g.token) <= g.off + g.len
  BY <1>1, GroupRecords
<1>3. \A n \in g.first .. g.token :
        n \in 1 .. Len(rec) /\ g.off <= rec[n].at /\ EndOf(rec, n) <= EndOf(rec, g.token)
  BY <1>1, GroupRecords
<1>4. ASSUME NEW n \in g.first .. g.token  PROVE OnDisk(e, rec, n)
  <2>1. /\ rec[n].at \in Nat /\ rec[n].len \in Nat /\ EndOf(rec, n) = rec[n].at + rec[n].len
        /\ EndOf(rec, n) \in Nat
    BY <1>0, <1>3, RecordPlace
  <2>2. g.off <= rec[n].at /\ EndOf(rec, n) <= EndOf(rec, g.token)
    BY <1>3
  <2>3. EndOf(rec, n) <= SegmentCells
    BY <1>2, <2>1, <2>2, SegmentAssumption
  <2>4. ASSUME NEW k \in 0 .. rec[n].len - 1  PROVE e[rec[n].at + k] = Part(rec, n, k)
    <3>1. PICK c \in Int : c = rec[n].at + k
      BY <2>1
    <3>2. c \in Cells /\ c \in g.off .. g.off + g.len - 1 /\ rec[n].at <= c /\ c < EndOf(rec, n)
      BY <1>2, <2>1, <2>2, <3>1, SegmentAssumption DEF Cells
    <3>3. e[c] = Image(groups[i], c)
      BY <1>1, <3>2, WritesGroup DEF CellsOf
    <3>4. Image(groups[i], c) = Part(rec, n, c - rec[n].at)
      BY <1>1, <3>2, ImageOfRecord
    <3>5. c - rec[n].at = k
      BY <2>1, <3>1
    <3> QED  BY <3>1, <3>3, <3>4, <3>5
  <2> QED  BY <2>3, <2>4 DEF OnDisk
<1>5. ASSUME NEW c \in EndOf(rec, g.token) .. g.off + g.len - 1  PROVE e[c] = Zero
  <2>1. ASSUME NEW n \in g.first .. g.token  PROVE c \notin Span(rec, n)
    <3>1. /\ rec[n].at \in Nat /\ rec[n].len \in Nat /\ EndOf(rec, n) = rec[n].at + rec[n].len
      BY <1>0, <1>3, RecordPlace
    <3>2. EndOf(rec, n) <= EndOf(rec, g.token)
      BY <1>3
    <3> QED  BY <1>2, <3>1, <3>2 DEF Span
  <2>2. Image(g, c) = Zero
    BY <2>1 DEF Image
  <2>3. EndOf(rec, g.token) >= g.off
    <3>1. g.token \in g.first .. g.token
      BY <1>1, GroupRecords
    <3>2. g.off <= rec[g.token].at /\ g.token \in 1 .. Len(rec)
      BY <1>3, <3>1
    <3>3. rec[g.token].at \in Nat /\ rec[g.token].at < EndOf(rec, g.token)
      BY <1>0, <3>2, RecordPlace
    <3> QED  BY <1>2, <3>2, <3>3
  <2>4. c \in Cells /\ c \in g.off .. g.off + g.len - 1
    BY <1>2, <2>3, SegmentAssumption DEF Cells
  <2>5. e[c] = Image(groups[i], c)
    BY <1>1, <2>4, WritesGroup DEF CellsOf
  <2> QED  BY <1>1, <2>2, <2>5
<1> QED  BY <1>1, <1>4, <1>5 DEF GroupStored

\* A write leaves every other stored group, the replayed records and the way over
\* their last block as they were.
LEMMA WriteKeeps ==
  ASSUME IInv, RTypeOK, Placed, Kept, NEW gs, gs \subseteq DOMAIN groups, NEW blocks,
         NEW e, e = WithBlocks(gs, blocks)
  PROVE  /\ \A j \in DOMAIN groups :
              groups[j].dev = "ok" /\ j \notin gs => GroupStored(e, rec, groups[j])
         /\ Path(e, rec, base)
         /\ ~midblock => Gets(e, EndOf(rec, base), Start)
<1>0. /\ rec \in Seq(RecType) /\ Sorted(rec) /\ Len(rec) \in Nat /\ base \in 0 .. Len(rec)
      /\ groups \in Seq(GroupType) /\ DOMAIN groups = 1 .. Len(groups) /\ Len(groups) \in Nat
  <2>1. base \in Nat /\ last_lsn \in Nat /\ base <= last_lsn
    BY TipBound
  <2> QED  BY <2>1, LenProperties DEF RTypeOK, Placed, IInv, TypeOK
<1>1. \A c \in Cells : (\A i \in gs : c \notin CellsOf(groups[i])) => e[c] = disk[c]
  BY WritesOnlyGroups
<1>2. EndOf(rec, base) \in Nat /\ Start \in Nat /\ EndOf(rec, base) <= Start
  BY <1>0, EndType, PaddedIs DEF Start
<1>3. \A i \in gs : Start <= groups[i].off /\ groups[i].off \in Nat /\ groups[i].len \in Nat
  BY GroupRecords DEF Placed, GroupsPlaced
<1>4. ASSUME NEW c \in Cells, c < Start  PROVE e[c] = disk[c]
  <2>1. \A i \in gs : c \notin CellsOf(groups[i])
    BY <1>2, <1>3, <1>4 DEF CellsOf, Cells
  <2> QED  BY <1>1, <2>1
<1>5. Path(e, rec, base)
  <2>1. \A c \in Cells : c < EndOf(rec, base) => e[c] = disk[c]
    BY <1>2, <1>4 DEF Cells
  <2> QED  BY <1>0, <2>1, PathKept DEF Kept
<1>6. ~midblock => Gets(e, EndOf(rec, base), Start)
  <2>1. ~midblock => Gets(disk, EndOf(rec, base), Start)
    BY DEF Kept
  <2>2. EndOf(rec, base) \in Cells /\ EndOf(rec, base) < Start
          => e[EndOf(rec, base)] = disk[EndOf(rec, base)]
    BY <1>4
  <2> QED  BY <1>2, <2>1, <2>2, GetsKept
<1>7. ASSUME NEW j \in DOMAIN groups, groups[j].dev = "ok", j \notin gs
      PROVE  GroupStored(e, rec, groups[j])
  <2>1. PICK g : g = groups[j]
    OBVIOUS
  <2>2. GroupStored(disk, rec, g)
    BY <1>7, <2>1 DEF Kept, GroupsStored
  <2>3. /\ g.off \in Nat /\ g.len \in Nat /\ g.off + g.len <= SegmentCells
        /\ EndOf(rec, g.token) \in Nat /\ EndOf(rec, g.token) <= g.off + g.len
        /\ g.token \in g.first .. g.token
    BY <2>1, GroupRecords
  <2>4. \A n \in g.first .. g.token :
          n \in 1 .. Len(rec) /\ g.off <= rec[n].at /\ EndOf(rec, n) <= EndOf(rec, g.token)
    BY <2>1, GroupRecords
  <2>5. ASSUME NEW c \in Cells, g.off <= c, c < g.off + g.len  PROVE e[c] = disk[c]
    <3>1. ASSUME NEW i \in gs  PROVE c \notin CellsOf(groups[i])
      <4>1. i \in 1 .. Len(groups) /\ j \in 1 .. Len(groups) /\ (i < j \/ j < i)
        BY <1>0, <1>7
      <4>2. \/ groups[i].off + groups[i].len <= g.off
            \/ g.off + g.len <= groups[i].off
        BY <1>0, <2>1, <4>1 DEF Placed, GroupsPlaced
      <4> QED  BY <1>3, <2>3, <2>5, <4>2 DEF CellsOf, Cells
    <3> QED  BY <1>1, <3>1
  <2>6. ASSUME NEW n \in g.first .. g.token  PROVE OnDisk(e, rec, n)
    <3>1. OnDisk(disk, rec, n) /\ n \in 1 .. Len(rec)
      BY <2>2, <2>4 DEF GroupStored
    <3>2. rec[n].at \in Nat /\ EndOf(rec, n) \in Nat
      BY <1>0, <3>1, RecordPlace
    <3>3. \A c \in Cells : rec[n].at <= c /\ c < EndOf(rec, n) => e[c] = disk[c]
      <4>1. g.off <= rec[n].at /\ EndOf(rec, n) <= EndOf(rec, g.token)
        BY <2>4
      <4>2. \A c \in Cells : rec[n].at <= c /\ c < EndOf(rec, n) => g.off <= c /\ c < g.off + g.len
        BY <2>3, <3>2, <4>1 DEF Cells
      <4> QED  BY <2>5, <4>2
    <3> QED  BY <1>0, <3>1, <3>3, OnDiskKept
  <2>7. ASSUME NEW c \in EndOf(rec, g.token) .. g.off + g.len - 1  PROVE e[c] = Zero
    <3>1. g.off <= rec[g.token].at /\ g.token \in 1 .. Len(rec)
      BY <2>3, <2>4
    <3>2. rec[g.token].at \in Nat /\ rec[g.token].at < EndOf(rec, g.token)
      BY <1>0, <3>1, RecordPlace
    <3>3. c \in Cells /\ g.off <= c /\ c < g.off + g.len
      <4>1. /\ g.off \in Nat /\ g.len \in Nat /\ g.off + g.len <= SegmentCells
            /\ EndOf(rec, g.token) \in Nat
        BY <2>3
      <4>2. g.off < EndOf(rec, g.token)
        BY <3>1, <3>2, <4>1
      <4>3. c \in Int /\ EndOf(rec, g.token) <= c /\ c <= g.off + g.len - 1
        BY <4>1
      <4> QED  BY <4>1, <4>2, <4>3, SegmentAssumption DEF Cells
    <3> QED  BY <2>2, <2>5, <3>3 DEF GroupStored
  <2> QED  BY <2>1, <2>6, <2>7 DEF GroupStored
<1> QED  BY <1>5, <1>6, <1>7

-----------------------------------------------------------------------------
(* Appending and submitting.                                                *)

\* What is said of a record depends on that record alone.
LEMMA SameRecord ==
  ASSUME NEW r, NEW q, NEW n \in Nat, n # 0 => q[n] = r[n]
  PROVE  /\ EndOf(q, n) = EndOf(r, n)
         /\ \A d : n # 0 /\ OnDisk(d, r, n) => OnDisk(d, q, n)
<1>1. EndOf(q, n) = EndOf(r, n)
  BY DEF EndOf
<1>2. ASSUME NEW d, n # 0, OnDisk(d, r, n)  PROVE OnDisk(d, q, n)
  <2>1. \A k : Part(q, n, k) = Part(r, n, k)
    BY <1>2 DEF Part
  <2> QED  BY <1>1, <1>2, <2>1 DEF OnDisk
<1> QED  BY <1>1, <1>2

\* A record that is appended changes nothing about those before it.
LEMMA LongerLog ==
  ASSUME IInv, RTypeOK, Placed, Kept, NEW q, \A n \in 1 .. Len(rec) : q[n] = rec[n]
  PROVE  /\ EndOf(q, base) = EndOf(rec, base)
         /\ Path(disk, q, base)
         /\ GroupsStored(disk, q, groups)
<1>0. Len(rec) \in Nat /\ base \in 0 .. Len(rec)
  <2>1. base \in Nat /\ last_lsn \in Nat /\ base <= last_lsn
    BY TipBound
  <2> QED  BY <2>1 DEF RTypeOK
<1>1. \A n \in 0 .. Len(rec) : EndOf(q, n) = EndOf(rec, n)
  <2> SUFFICES ASSUME NEW n \in 0 .. Len(rec)  PROVE EndOf(q, n) = EndOf(rec, n)
    OBVIOUS
  <2>1. n \in Nat /\ (n # 0 => q[n] = rec[n])
    BY <1>0
  <2> QED  BY <2>1, SameRecord
<1>2. \A n \in 1 .. Len(rec) : \A d : OnDisk(d, rec, n) => OnDisk(d, q, n)
  <2> SUFFICES ASSUME NEW n \in 1 .. Len(rec)  PROVE \A d : OnDisk(d, rec, n) => OnDisk(d, q, n)
    OBVIOUS
  <2>1. n \in Nat /\ n # 0 /\ q[n] = rec[n]
    BY <1>0
  <2> QED  BY <2>1, SameRecord
<1>3. Path(disk, q, base)
  <2> SUFFICES ASSUME NEW n \in 1 .. base
               PROVE  OnDisk(disk, q, n) /\ Gets(disk, EndOf(q, n - 1), q[n].at)
    BY DEF Path
  <2>1. n \in 1 .. Len(rec) /\ n - 1 \in 0 .. Len(rec)
    BY <1>0
  <2>2. OnDisk(disk, rec, n) /\ Gets(disk, EndOf(rec, n - 1), rec[n].at)
    BY DEF Kept, Path
  <2> QED  BY <1>1, <1>2, <2>1, <2>2
<1>4. ASSUME NEW i \in DOMAIN groups, groups[i].dev = "ok"
      PROVE  GroupStored(disk, q, groups[i])
  <2>1. GroupStored(disk, rec, groups[i])
    BY <1>4 DEF Kept, GroupsStored
  <2>2. /\ groups[i].token \in 0 .. Len(rec)
        /\ \A n \in groups[i].first .. groups[i].token : n \in 1 .. Len(rec)
    BY <1>0, GroupRecords
  <2>3. EndOf(q, groups[i].token) = EndOf(rec, groups[i].token)
    BY <1>1, <2>2
  <2> QED  BY <1>2, <2>1, <2>2, <2>3 DEF GroupStored
<1> QED  BY <1>0, <1>1, <1>3, <1>4 DEF GroupsStored

\* The place of the groups is a matter of their records and their cells.
LEMMA PlacedSame ==
  ASSUME NEW r, NEW q, NEW l \in Nat, \A n \in 1 .. l : q[n] = r[n],
         NEW gs, NEW hs, DOMAIN hs = DOMAIN gs, hs = <<>> <=> gs = <<>>,
         gs # <<>> => 1 \in DOMAIN gs,
         \A i \in DOMAIN gs :
           /\ hs[i].first = gs[i].first /\ hs[i].token = gs[i].token
           /\ hs[i].off = gs[i].off /\ hs[i].len = gs[i].len
           /\ gs[i].first \in 1 .. l /\ gs[i].token \in 1 .. l,
         NEW start, NEW tail, GroupsPlaced(r, gs, start, tail)
  PROVE  GroupsPlaced(q, hs, start, tail)
<1>1. \A n \in 0 .. l : EndOf(q, n) = EndOf(r, n)
  BY DEF EndOf
<1>2. ASSUME NEW i \in DOMAIN gs  PROVE GroupPlaced(q, hs[i])
  <2>1. PICK g, h : g = gs[i] /\ h = hs[i]
    OBVIOUS
  <2>2. /\ h.first = g.first /\ h.token = g.token /\ h.off = g.off /\ h.len = g.len
        /\ g.first \in 1 .. l /\ g.token \in 1 .. l
    BY <2>1
  <2>3. GroupPlaced(r, g)
    BY <2>1 DEF GroupsPlaced
  <2>4. ASSUME NEW n \in g.first + 1 .. g.token  PROVE q[n].at = EndOf(q, n - 1)
    <3>1. n \in 1 .. l /\ n - 1 \in 0 .. l
      BY <2>2
    <3>2. r[n].at = EndOf(r, n - 1)
      BY <2>3 DEF GroupPlaced, Consecutive
    <3> QED  BY <1>1, <3>1, <3>2
  <2>5. q[g.first] = r[g.first] /\ EndOf(q, g.token) = EndOf(r, g.token)
    BY <1>1, <2>2
  <2> QED  BY <2>1, <2>2, <2>3, <2>4, <2>5 DEF GroupPlaced, Consecutive
<1>3. ASSUME NEW i \in DOMAIN hs
      PROVE  /\ start <= hs[i].off /\ hs[i].off + hs[i].len <= tail
             /\ hs[i].off + hs[i].len <= SegmentCells
  BY DEF GroupsPlaced
<1>4. ASSUME NEW i \in DOMAIN hs, NEW j \in DOMAIN hs, i < j
      PROVE  hs[i].off + hs[i].len <= hs[j].off
  BY <1>4 DEF GroupsPlaced
<1>5. start <= tail /\ IF hs = <<>> THEN tail = start ELSE hs[1].off = start
  BY DEF GroupsPlaced
<1> QED  BY <1>2, <1>3, <1>4, <1>5 DEF GroupsPlaced

\* append puts the record right behind those of its group, or at the start of a new
\* one, and in either case past every record before it.
LEMMA AppendPlaces ==
  ASSUME NEW r \in Seq(RecType), Sorted(r), NEW tail \in Nat, NEW c \in CurType,
         CurrentPlaced(r, c, tail),
         c.len > 0 => c.first \in 1 .. Len(r) /\ c.last = Len(r),
         c.len = 0 => EndOf(r, Len(r)) <= tail,
         NEW len \in Nat \ {0}, NEW x \in RecType, x.len = len, x.at = tail + c.len,
         NEW q, q = Append(r, x), NEW g, g = Grown(c, len, Len(r) + 1)
  PROVE  q \in Seq(RecType) /\ Sorted(q) /\ CurrentPlaced(q, g, tail)
<1>0. Len(r) \in Nat /\ DOMAIN r = 1 .. Len(r) /\ c.len \in Nat /\ c.first \in Nat
  BY LenProperties DEF CurType
<1>1. PICK l \in Nat : l = Len(r)
  BY <1>0
<1>2. /\ q \in Seq(RecType) /\ DOMAIN q = 1 .. l + 1 /\ Len(q) = l + 1
      /\ \A n \in 1 .. l : q[n] = r[n]
      /\ q[l + 1] = x
  BY <1>0, <1>1
<1>3. \A n \in 0 .. l : EndOf(q, n) = EndOf(r, n)
  BY <1>2 DEF EndOf
<1>4. EndOf(r, l) \in Nat
  <2>1. l \in 0 .. Len(r)
    BY <1>1
  <2> QED  BY <2>1, EndType
<1>5. EndOf(r, l) <= x.at /\ (c.len > 0 => EndOf(r, l) = x.at)
  <2>1. CASE c.len > 0
    BY <1>1, <1>4, <2>1 DEF CurrentPlaced
  <2>2. CASE c.len = 0
    BY <1>0, <1>1, <1>4, <2>2
  <2> QED  BY <1>0, <2>1, <2>2
<1>6. Sorted(q)
  <2> SUFFICES ASSUME NEW n \in 1 .. l + 1, NEW m \in 1 .. l + 1, n < m
               PROVE  EndOf(q, n) <= q[m].at
    BY <1>2 DEF Sorted
  <2>1. n \in 1 .. l /\ n \in 0 .. l
    BY <1>1
  <2>2. CASE m \in 1 .. l
    BY <1>0, <1>1, <1>2, <1>3, <2>1, <2>2 DEF Sorted
  <2>3. CASE m = l + 1
    <3>1. n \in 0 .. Len(r) /\ l \in 0 .. Len(r) /\ n <= l
      BY <1>1, <2>1
    <3>2. EndOf(r, n) <= EndOf(r, l) /\ EndOf(r, n) \in Nat
      BY <3>1, SortedEnds, EndType
    <3>3. x.at \in Nat
      BY DEF RecType
    <3>4. EndOf(q, n) = EndOf(r, n) /\ q[m] = x
      BY <1>2, <1>3, <2>1, <2>3
    <3> QED  BY <1>4, <1>5, <3>2, <3>3, <3>4
  <2> QED  BY <1>1, <2>2, <2>3
<1>7. /\ g.len = c.len + len /\ g.last = l + 1
      /\ g.first = IF c.len = 0 THEN l + 1 ELSE c.first
  BY <1>1 DEF Grown, CurType
<1>8. EndOf(q, l + 1) = tail + g.len
  <2>1. EndOf(q, l + 1) = x.at + x.len
    BY <1>2 DEF EndOf
  <2> QED  BY <1>0, <1>7, <2>1
<1>9. CASE c.len = 0
  <2>1. q[g.first].at = tail
    BY <1>2, <1>7, <1>9
  <2>2. Consecutive(q, g.first, g.last)
    BY <1>7, <1>9 DEF Consecutive
  <2> QED  BY <1>2, <1>6, <1>7, <1>8, <2>1, <2>2 DEF CurrentPlaced
<1>10. CASE c.len > 0
  <2>1. c.first \in 1 .. l /\ c.last = l /\ g.first = c.first
    BY <1>1, <1>7, <1>10
  <2>2. r[c.first].at = tail /\ Consecutive(r, c.first, l)
    BY <1>10, <2>1 DEF CurrentPlaced
  <2>3. q[g.first].at = tail
    BY <1>2, <2>1, <2>2
  <2>4. ASSUME NEW n \in g.first + 1 .. g.last  PROVE q[n].at = EndOf(q, n - 1)
    <3>1. n - 1 \in 0 .. l /\ (n \in c.first + 1 .. l \/ n = l + 1) /\ n \in Nat
      BY <1>7, <2>1
    <3>2. CASE n \in c.first + 1 .. l
      <4>1. r[n].at = EndOf(r, n - 1) /\ n \in 1 .. l
        BY <2>1, <2>2, <3>2 DEF Consecutive
      <4> QED  BY <1>2, <1>3, <3>1, <4>1
    <3>3. CASE n = l + 1
      <4>1. q[n].at = x.at /\ n - 1 = l
        BY <1>2, <3>3
      <4> QED  BY <1>3, <1>5, <1>10, <3>1, <4>1
    <3> QED  BY <3>1, <3>2, <3>3
  <2> QED  BY <1>2, <1>6, <1>7, <1>8, <2>3, <2>4 DEF CurrentPlaced, Consecutive
<1> QED  BY <1>0, <1>9, <1>10

\* A submission puts the group behind the others, inside the segment, and leaves
\* seg_offset_ at a block boundary behind it.
LEMMA SubmitPlaces ==
  ASSUME IInv, RTypeOK, Placed, cur.len > 0, NEW gs, gs = Append(groups, Request),
         NEW tail, tail = seg_offset + Padded(cur.len), tail <= SegmentCells
  PROVE  GroupsPlaced(rec, gs, Start, tail) /\ tail \in Nat /\ Padded(tail) = tail
<1>0. /\ seg_offset \in Nat /\ cur.len \in Nat /\ groups \in Seq(GroupType)
      /\ Len(groups) \in Nat /\ DOMAIN groups = 1 .. Len(groups)
  BY LenProperties DEF IInv, TypeOK
<1>1. Padded(cur.len) \in Nat /\ cur.len <= Padded(cur.len)
  BY <1>0, PaddedIs
<1>2. Padded(seg_offset) = seg_offset
  BY DEF Placed
<1>3. Padded(seg_offset + cur.len) = tail
  BY <1>0, <1>2, PaddedSum
<1>4. tail \in Nat /\ Padded(tail) = tail
  <2>1. seg_offset + cur.len \in Nat
    BY <1>0
  <2> QED  BY <1>3, <2>1, PaddedIs, PaddedAligned
<1>5. Request \in GroupType
  BY RequestType DEF IInv
<1>6. PICK l \in Nat : l = Len(groups)
  BY <1>0
<1>7. /\ DOMAIN gs = 1 .. l + 1 /\ gs # <<>>
      /\ \A i \in 1 .. l : gs[i] = groups[i]
      /\ gs[l + 1] = Request
  BY <1>0, <1>5, <1>6
<1>8. /\ Request.first = cur.first /\ Request.token = cur.last
      /\ Request.off = seg_offset /\ Request.len = Padded(cur.len)
  BY DEF Request
<1>9. Start \in Nat /\ Start <= seg_offset
  <2>1. Start <= seg_offset
    BY DEF Placed, GroupsPlaced
  <2>2. base \in 0 .. Len(rec) /\ rec \in Seq(RecType)
    BY TipBound DEF RTypeOK
  <2>3. EndOf(rec, base) \in Nat
    BY <2>2, EndType
  <2> QED  BY <2>1, <2>3, PaddedIs DEF Start
<1>10. GroupPlaced(rec, Request)
  <2>1. /\ rec[cur.first].at = seg_offset /\ Consecutive(rec, cur.first, cur.last)
        /\ EndOf(rec, cur.last) = seg_offset + cur.len
    BY DEF Placed, CurrentPlaced
  <2> QED  BY <1>3, <1>8, <2>1 DEF GroupPlaced
<1>11. \A i \in 1 .. l :
         /\ GroupPlaced(rec, gs[i]) /\ Start <= gs[i].off
         /\ gs[i].off + gs[i].len <= seg_offset /\ gs[i].off + gs[i].len <= SegmentCells
         /\ gs[i].off \in Nat /\ gs[i].len \in Nat
  <2>1. \A i \in 1 .. l : groups[i].off \in Nat /\ groups[i].len \in Nat
    BY <1>0, <1>6, GroupElement
  <2> QED  BY <1>0, <1>6, <1>7, <2>1 DEF Placed, GroupsPlaced
<1>12. ASSUME NEW i \in DOMAIN gs
       PROVE  /\ GroupPlaced(rec, gs[i]) /\ Start <= gs[i].off
              /\ gs[i].off + gs[i].len <= tail /\ gs[i].off + gs[i].len <= SegmentCells
  <2>1. CASE i \in 1 .. l
    <3>1. /\ gs[i].off + gs[i].len <= seg_offset
          /\ gs[i].off \in Nat /\ gs[i].len \in Nat
      BY <1>11, <2>1
    <3>2. PICK x \in Nat, y \in Nat : x = gs[i].off /\ y = gs[i].len
      BY <3>1
    <3>3. PICK z \in Nat : z = Padded(cur.len)
      BY <1>1
    <3>4. x + y <= seg_offset + z
      BY <1>0, <3>1, <3>2
    <3>5. gs[i].off + gs[i].len <= tail
      BY <3>2, <3>3, <3>4
    <3> QED  BY <1>11, <2>1, <3>5
  <2>2. CASE i = l + 1
    <3>1. gs[i] = Request
      BY <1>7, <2>2
    <3>2. Request.off + Request.len = tail /\ Start <= Request.off
      BY <1>8, <1>9
    <3>3. tail <= tail
      BY <1>4
    <3> QED  BY <1>10, <3>1, <3>2, <3>3
  <2> QED  BY <1>7, <2>1, <2>2
<1>13. ASSUME NEW i \in DOMAIN gs, NEW j \in DOMAIN gs, i < j
       PROVE  gs[i].off + gs[i].len <= gs[j].off
  <2>1. i \in 1 .. l
    BY <1>7, <1>13
  <2>2. CASE j \in 1 .. l
    BY <1>0, <1>6, <1>7, <1>13, <2>1, <2>2 DEF Placed, GroupsPlaced
  <2>3. CASE j = l + 1
    BY <1>7, <1>8, <1>11, <2>1, <2>3
  <2> QED  BY <1>7, <2>2, <2>3
<1>14. gs[1].off = Start
  <2>1. CASE l = 0
    <3>1. groups = <<>>
      BY <1>0, <1>6, <2>1
    <3>2. seg_offset = Start
      BY <3>1 DEF Placed, GroupsPlaced
    <3> QED  BY <1>7, <1>8, <2>1, <3>2
  <2>2. CASE l # 0
    <3>1. groups # <<>> /\ 1 \in 1 .. l
      BY <1>0, <1>6, <2>2
    <3>2. groups[1].off = Start
      BY <3>1 DEF Placed, GroupsPlaced
    <3> QED  BY <1>7, <3>1, <3>2
  <2> QED  BY <2>1, <2>2
<1>15. Start <= tail
  BY <1>0, <1>1, <1>9
<1> QED  BY <1>4, <1>7, <1>12, <1>13, <1>14, <1>15 DEF GroupsPlaced

\* Every submitted record ends before the place of the next group.
LEMMA TailPast ==
  ASSUME IInv, RTypeOK, Placed
  PROVE  EndOf(rec, Tip) <= seg_offset
<1>0. /\ rec \in Seq(RecType) /\ groups \in Seq(GroupType) /\ seg_offset \in Nat
      /\ DOMAIN groups = 1 .. Len(groups) /\ Len(groups) \in Nat
  BY LenProperties DEF RTypeOK, IInv, TypeOK
<1>1. CASE groups = <<>>
  <2>1. Tip = base /\ seg_offset = Start
    BY <1>1 DEF Tip, Placed, GroupsPlaced
  <2>2. EndOf(rec, base) \in Nat
    BY <1>0, EndType, TipBound DEF RTypeOK
  <2> QED  BY <2>1, <2>2, PaddedIs DEF Start
<1>2. CASE groups # <<>>
  <2>1. PICK i \in DOMAIN groups : i = Len(groups)
    BY <1>0, <1>2
  <2>2. Tip = groups[i].token
    BY <1>2, <2>1 DEF Tip
  <2>3. /\ EndOf(rec, groups[i].token) \in Nat /\ groups[i].off \in Nat /\ groups[i].len \in Nat
        /\ EndOf(rec, groups[i].token) <= groups[i].off + groups[i].len
    BY GroupRecords
  <2>4. groups[i].off + groups[i].len <= seg_offset
    BY DEF Placed, GroupsPlaced
  <2> QED  BY <1>0, <2>2, <2>3, <2>4
<1> QED  BY <1>1, <1>2

\* A step of the log in use: records may be added and groups submitted or reaped,
\* while nothing reaches the disk.
LEMMA LogStep ==
  ASSUME RInv, IInv', phase = "open",
         UNCHANGED <<disk, base, crashes, phase, midblock>>, events' \in Nat,
         rec' \in Seq(RecType), Len(rec') = last_lsn', Len(rec) <= Len(rec'),
         \A n \in 1 .. Len(rec) : rec'[n] = rec[n],
         Sorted(rec'), GroupsPlaced(rec', groups', Start, seg_offset'),
         Padded(seg_offset') = seg_offset', CurrentPlaced(rec', cur', seg_offset'),
         \A i \in DOMAIN groups' : groups'[i].dev = "ok" =>
           /\ i \in DOMAIN groups /\ groups[i].dev = "ok"
           /\ groups'[i].first = groups[i].first /\ groups'[i].token = groups[i].token
           /\ groups'[i].off = groups[i].off /\ groups'[i].len = groups[i].len,
         durable_lsn <= durable_lsn', durable_lsn' <= Len(rec),
         \A r \in acked' :
           r \in acked \/ \E n \in base + 1 .. durable_lsn' : r = [lsn |-> n, ev |-> rec[n].ev]
  PROVE  RInv'
<1>1. /\ EndOf(rec', base) = EndOf(rec, base)
      /\ Path(disk, rec', base)
      /\ GroupsStored(disk, rec', groups)
  BY LongerLog DEF RInv
<1>2. Start' = Start
  BY <1>1 DEF Start
<1>3. RTypeOK'
  BY DEF RInv, RTypeOK
<1>4. Placed'
  BY <1>2 DEF Placed
<1>5. GroupsStored(disk, rec', groups')
  <2> SUFFICES ASSUME NEW i \in DOMAIN groups', groups'[i].dev = "ok"
               PROVE  GroupStored(disk, rec', groups'[i])
    BY DEF GroupsStored
  <2>1. GroupStored(disk, rec', groups[i])
    BY <1>1 DEF GroupsStored
  <2> QED  BY <2>1 DEF GroupStored
<1>6. Kept'
  <2>1. ~midblock => Gets(disk, EndOf(rec, base), Start)
    BY DEF RInv, Kept
  <2> QED  BY <1>1, <1>2, <1>5, <2>1 DEF Kept
<1>7. durable_lsn \in Nat /\ durable_lsn' \in Nat /\ base \in Nat /\ Len(rec) \in Nat
  BY DEF RInv, IInv, TypeOK, RTypeOK
<1>8. ~midblock => \A r \in acked' : r.lsn <= base \/ r.lsn <= durable_lsn'
  <2> SUFFICES ASSUME ~midblock, NEW r \in acked'
               PROVE  r.lsn <= base \/ r.lsn <= durable_lsn'
    OBVIOUS
  <2>1. CASE r \in acked
    <3>1. crashes <= 1 \/ ~midblock => AckedSurvives
      BY DEF RInv, Acknowledged
    <3>2. r.lsn \in DOMAIN rec
      BY <2>1, <3>1 DEF AckedSurvives, Holds
    <3>3. r.lsn \in Nat
      BY <3>2, LenProperties DEF RInv, RTypeOK
    <3>4. r.lsn <= base \/ r.lsn <= durable_lsn
      BY <2>1 DEF RInv, Acknowledged
    <3> QED  BY <1>7, <3>3, <3>4
  <2>2. CASE \E n \in base + 1 .. durable_lsn' : r = [lsn |-> n, ev |-> rec[n].ev]
    BY <1>7, <2>2
  <2> QED  BY <2>1, <2>2
<1>9. ASSUME crashes <= 1 \/ ~midblock  PROVE AckedSurvives'
  <2>1. AckedSurvives
    BY <1>9 DEF RInv, Acknowledged
  <2>2. /\ DOMAIN rec = 1 .. Len(rec) /\ DOMAIN rec' = 1 .. Len(rec') /\ Len(rec') \in Nat
        /\ Len(rec) = last_lsn
    BY LenProperties DEF RInv, RTypeOK
  <2> SUFFICES ASSUME NEW r \in acked'
               PROVE  r.lsn \in DOMAIN rec' /\ rec'[r.lsn].ev = r.ev
    BY DEF AckedSurvives, Holds
  <2>3. CASE r \in acked
    <3>1. r.lsn \in 1 .. Len(rec) /\ rec[r.lsn].ev = r.ev
      BY <2>1, <2>2, <2>3 DEF AckedSurvives, Holds
    <3>2. r.lsn \in 1 .. Len(rec')
      BY <1>7, <2>2, <3>1
    <3> QED  BY <2>2, <3>1, <3>2
  <2>4. CASE \E n \in base + 1 .. durable_lsn' : r = [lsn |-> n, ev |-> rec[n].ev]
    <3>1. PICK n \in base + 1 .. durable_lsn' : r = [lsn |-> n, ev |-> rec[n].ev]
      BY <2>4
    <3>2. n \in 1 .. Len(rec)
      BY <1>7, <3>1
    <3> QED  BY <1>7, <2>2, <3>1, <3>2
  <2> QED  BY <2>3, <2>4
<1>10. Acknowledged'
  BY <1>8, <1>9 DEF RInv, Acknowledged
<1>11. Reading' /\ Follows'
  BY DEF Reading, Follows
<1> QED  BY <1>3, <1>4, <1>6, <1>10, <1>11 DEF RInv

\* The durable prefix ends within the log.
DurableInLog == durable_lsn <= last_lsn

\* So it does after a step that keeps the invariant.
LEMMA DurableInLogNext == IInv' => DurableInLog'
<1>1. IInv => DurableInLog
  BY DurablePrefix DEF DurableInLog
<1> QED  BY <1>1, PTL

\* append, whether or not it makes room first.
LEMMA AppendEventInv ==
  ASSUME RInv, NEW len \in RecLens, AppendEvent(len)
  PROVE  RInv'
<1>0. /\ IInv /\ RTypeOK /\ Placed /\ Kept /\ rec \in Seq(RecType) /\ Len(rec) = last_lsn
      /\ last_lsn \in Nat /\ cur \in CurType /\ seg_offset \in Nat /\ events \in Nat
      /\ groups \in Seq(GroupType) /\ cur.len \in Nat
      /\ len \in Nat \ {0} /\ Sorted(rec)
  BY InputsAssumption DEF RInv, RTypeOK, IInv, TypeOK, CurType, Placed
<1>1. /\ phase = "open" /\ WalAppend(len) /\ seg_offset' <= SegmentCells
      /\ IF last_lsn' > last_lsn
         THEN /\ events' = events + 1
              /\ rec' = Append(rec, [ev |-> events + 1, len |-> len,
                                     at |-> seg_offset' + (cur'.len - len)])
         ELSE UNCHANGED <<events, rec>>
      /\ UNCHANGED <<disk, crashes, phase, midblock, acked>>
  BY DEF AppendEvent, InSegment, readVars, histVars
<1>2. /\ UNCHANGED <<base, durable_lsn>>
      /\ UNCHANGED <<wal_halted, grp_halted, durable_lsn, head, call, base, written>>
      /\ AppendToCurrent(len) \/ SubmitThenAppend(len)
  BY <1>1 DEF WalAppend
<1>3. IInv'
  BY <1>0, <1>2, AppendToCurrentInv, SubmitThenAppendInv
<1>4. durable_lsn <= Len(rec) /\ durable_lsn' = durable_lsn /\ durable_lsn \in Nat
  BY <1>0, <1>2, DurablePrefix DEF IInv, TypeOK
<1>5. \A i \in DOMAIN groups :
        groups[i].first \in 1 .. Len(rec) /\ groups[i].token \in 1 .. Len(rec)
  BY <1>0, GroupRecords
<1>6. groups # <<>> => 1 \in DOMAIN groups
  BY <1>0, LenProperties
<1>7. \A r \in acked' :
        r \in acked \/ \E n \in base + 1 .. durable_lsn' : r = [lsn |-> n, ev |-> rec[n].ev]
  BY <1>1
<1>8. ASSUME NEW c \in CurType, NEW tail \in Nat, CurrentPlaced(rec, c, tail),
             c.len > 0 => c.first \in 1 .. Len(rec) /\ c.last = Len(rec),
             c.len = 0 => EndOf(rec, Len(rec)) <= tail,
             cur' = Grown(c, len, last_lsn + 1), last_lsn' = last_lsn + 1, seg_offset' = tail
      PROVE  /\ rec' \in Seq(RecType) /\ Sorted(rec') /\ CurrentPlaced(rec', cur', tail)
             /\ Len(rec') = last_lsn' /\ Len(rec) <= Len(rec') /\ events' \in Nat
             /\ \A n \in 1 .. Len(rec) : rec'[n] = rec[n]
  <2>1. last_lsn' > last_lsn /\ c.len \in Nat
    BY <1>0, <1>8 DEF CurType
  <2>2. cur'.len = c.len + len
    BY <1>8 DEF Grown, CurType
  <2>3. PICK x : x = [ev |-> events + 1, len |-> len, at |-> seg_offset' + (cur'.len - len)]
    OBVIOUS
  <2>4. x.len = len /\ x.at = tail + c.len /\ x \in RecType
    <3>1. seg_offset' + (cur'.len - len) = tail + c.len /\ tail + c.len \in Nat
      BY <1>0, <1>8, <2>1, <2>2
    <3>2. events + 1 \in Nat
      BY <1>0
    <3> QED  BY <1>0, <2>3, <3>1, <3>2 DEF RecType
  <2>5. rec' = Append(rec, x) /\ events' = events + 1
    BY <1>1, <2>1, <2>3
  <2>6. cur' = Grown(c, len, Len(rec) + 1)
    BY <1>0, <1>8
  <2>7. rec' \in Seq(RecType) /\ Sorted(rec') /\ CurrentPlaced(rec', cur', tail)
    BY <1>0, <1>8, <2>4, <2>5, <2>6, AppendPlaces
  <2>8. Len(rec') = Len(rec) + 1 /\ \A n \in 1 .. Len(rec) : rec'[n] = rec[n]
    BY <1>0, <2>4, <2>5
  <2> QED  BY <1>0, <1>8, <2>5, <2>7, <2>8
<1>9. CASE AppendToCurrent(len)
  <2>1. /\ cur' = Grown(cur, len, last_lsn + 1) /\ last_lsn' = last_lsn + 1
        /\ UNCHANGED <<seg_offset, groups>>
    BY <1>9 DEF AppendToCurrent
  <2>2. /\ CurrentPlaced(rec, cur, seg_offset) /\ Padded(seg_offset) = seg_offset
        /\ GroupsPlaced(rec, groups, Start, seg_offset)
    BY <1>0 DEF Placed
  <2>3. cur.len > 0 => cur.first \in 1 .. Len(rec) /\ cur.last = Len(rec)
    <3>1. cur.len > 0 => cur.first = Tip + 1 /\ cur.first <= cur.last /\ cur.last = last_lsn
      BY <1>0 DEF IInv, CurrentFollows
    <3>2. Tip \in Nat
      BY <1>0, TipBound
    <3> QED  BY <1>0, <3>1, <3>2
  <2>4. cur.len = 0 => EndOf(rec, Len(rec)) <= seg_offset
    <3>1. cur.len = 0 => last_lsn = Tip
      BY <1>0 DEF IInv, CurrentFollows
    <3> QED  BY <1>0, <3>1, TailPast
  <2>5. /\ rec' \in Seq(RecType) /\ Sorted(rec') /\ CurrentPlaced(rec', cur', seg_offset)
        /\ Len(rec') = last_lsn' /\ Len(rec) <= Len(rec') /\ events' \in Nat
        /\ \A n \in 1 .. Len(rec) : rec'[n] = rec[n]
    BY <1>0, <1>8, <2>1, <2>2, <2>3, <2>4
  <2>6. GroupsPlaced(rec', groups, Start, seg_offset)
    BY <1>0, <1>5, <1>6, <2>2, <2>5, PlacedSame
  <2>7. \A i \in DOMAIN groups' : groups'[i].dev = "ok" =>
          /\ i \in DOMAIN groups /\ groups[i].dev = "ok"
          /\ groups'[i].first = groups[i].first /\ groups'[i].token = groups[i].token
          /\ groups'[i].off = groups[i].off /\ groups'[i].len = groups[i].len
    BY <2>1
  <2>8. durable_lsn <= durable_lsn' /\ durable_lsn' <= Len(rec)
    BY <1>4
  <2> QED  BY <1>1, <1>2, <1>3, <1>7, <2>1, <2>2, <2>5, <2>6, <2>7, <2>8, LogStep
<1>10. CASE SubmitThenAppend(len)
  <2>1. /\ cur.len > 0 /\ groups' = Append(groups, Request)
        /\ seg_offset' = seg_offset + Padded(cur.len)
    BY <1>10 DEF SubmitThenAppend, SubmitGroup
  <2>2. GroupsPlaced(rec, groups', Start, seg_offset') /\ seg_offset' \in Nat
        /\ Padded(seg_offset') = seg_offset'
    BY <1>0, <1>1, <2>1, SubmitPlaces
  <2>3. /\ cur.first \in 1 .. Len(rec) /\ cur.last = Len(rec)
        /\ EndOf(rec, Len(rec)) = seg_offset + cur.len
    <3>1. cur.first = Tip + 1 /\ cur.first <= cur.last /\ cur.last = last_lsn
      BY <1>0, <2>1 DEF IInv, CurrentFollows
    <3>2. Tip \in Nat
      BY <1>0, TipBound
    <3>3. EndOf(rec, cur.last) = seg_offset + cur.len
      BY <1>0, <2>1 DEF Placed, CurrentPlaced
    <3> QED  BY <1>0, <3>1, <3>2, <3>3
  <2>4. PICK l \in Nat : l = Len(groups)
    BY <1>0
  <2>5. /\ DOMAIN groups' = 1 .. l + 1 /\ DOMAIN groups = 1 .. l /\ groups' # <<>>
        /\ \A i \in 1 .. l : groups'[i] = groups[i]
        /\ groups'[l + 1] = Request
    <3>1. Request \in GroupType
      BY <1>0, <2>1, RequestType DEF IInv
    <3> QED  BY <1>0, <2>1, <2>4, <3>1
  <2>6. \A i \in DOMAIN groups' :
          groups'[i].first \in 1 .. Len(rec) /\ groups'[i].token \in 1 .. Len(rec)
    <3>1. Request.first \in 1 .. Len(rec) /\ Request.token \in 1 .. Len(rec)
      BY <1>0, <2>3 DEF Request
    <3> QED  BY <1>5, <2>4, <2>5, <3>1
  <2>7. \A i \in DOMAIN groups' : groups'[i].dev = "ok" =>
          /\ i \in DOMAIN groups /\ groups[i].dev = "ok"
          /\ groups'[i].first = groups[i].first /\ groups'[i].token = groups[i].token
          /\ groups'[i].off = groups[i].off /\ groups'[i].len = groups[i].len
    <3>1. Request.dev # "ok"
      BY DEF Request
    <3>2. \A i \in DOMAIN groups' : i \in 1 .. l \/ i = l + 1
      BY <2>4, <2>5
    <3> QED  BY <2>5, <3>1, <3>2
  <2>8. durable_lsn <= durable_lsn' /\ durable_lsn' <= Len(rec)
    BY <1>4
  <2>9. PICK fresh \in CurType :
          /\ fresh.len = 0
          /\ \/ cur' = Grown(fresh, len, last_lsn + 1) /\ last_lsn' = last_lsn + 1
             \/ cur' = fresh /\ last_lsn' = last_lsn
    <3>1. PICK b : b = NextBuffer(FreeAfterSubmit)
      OBVIOUS
    <3>2. FreeAfterSubmit \in [Buffers -> BOOLEAN]
      BY <1>0 DEF FreeAfterSubmit, IInv, TypeOK
    <3>3. b \in 0 .. NumBuffers
      BY <3>1, <3>2, NextBufferIsFree
    <3>4. NoGroup(b) \in CurType /\ NoGroup(b).len = 0
      BY <3>3 DEF NoGroup, CurType
    <3>5. \/ cur' = Grown(NoGroup(b), len, last_lsn + 1) /\ last_lsn' = last_lsn + 1
          \/ cur' = NoGroup(b) /\ last_lsn' = last_lsn
      BY <1>10, <3>1 DEF SubmitThenAppend
    <3> QED  BY <3>4, <3>5
  <2>10. CurrentPlaced(rec, fresh, seg_offset')
    BY <2>9 DEF CurrentPlaced
  <2>11. CASE cur' = Grown(fresh, len, last_lsn + 1) /\ last_lsn' = last_lsn + 1
    <3>1. EndOf(rec, Len(rec)) <= seg_offset'
      <4>1. Padded(cur.len) \in Nat /\ cur.len <= Padded(cur.len)
        BY <1>0, PaddedIs
      <4> QED  BY <1>0, <2>1, <2>3, <4>1
    <3>2. /\ rec' \in Seq(RecType) /\ Sorted(rec') /\ CurrentPlaced(rec', cur', seg_offset')
          /\ Len(rec') = last_lsn' /\ Len(rec) <= Len(rec') /\ events' \in Nat
          /\ \A n \in 1 .. Len(rec) : rec'[n] = rec[n]
      BY <1>8, <2>2, <2>9, <2>10, <2>11, <3>1
    <3>3. 1 \in DOMAIN groups'
      BY <2>5
    <3>4. GroupsPlaced(rec', groups', Start, seg_offset')
      BY <1>0, <2>2, <2>5, <2>6, <3>2, <3>3, PlacedSame
    <3> QED  BY <1>1, <1>2, <1>3, <1>7, <2>2, <2>7, <2>8, <3>2, <3>4, LogStep
  <2>12. CASE cur' = fresh /\ last_lsn' = last_lsn
    <3>1. rec' = rec /\ events' = events
      BY <1>0, <1>1, <2>12
    <3>2. Sorted(rec') /\ CurrentPlaced(rec', cur', seg_offset')
      BY <1>0, <2>10, <2>12, <3>1
    <3>3. /\ rec' \in Seq(RecType) /\ Len(rec') = last_lsn' /\ Len(rec) <= Len(rec')
          /\ events' \in Nat /\ \A n \in 1 .. Len(rec) : rec'[n] = rec[n]
      BY <1>0, <2>12, <3>1
    <3>4. GroupsPlaced(rec', groups', Start, seg_offset')
      BY <2>2, <3>1
    <3> QED  BY <1>1, <1>2, <1>3, <1>7, <2>2, <2>7, <2>8, <3>2, <3>3, <3>4, LogStep
  <2> QED  BY <2>9, <2>11, <2>12
<1> QED  BY <1>2, <1>9, <1>10

\* maybe_submit and reap.
LEMMA SubmitOrReapInv ==
  ASSUME RInv, SubmitOrReap
  PROVE  RInv'
<1>0. /\ IInv /\ RTypeOK /\ Placed /\ Kept /\ rec \in Seq(RecType) /\ Len(rec) = last_lsn
      /\ last_lsn \in Nat /\ cur \in CurType /\ seg_offset \in Nat /\ events \in Nat
      /\ groups \in Seq(GroupType) /\ Len(groups) \in Nat /\ DOMAIN groups = 1 .. Len(groups)
      /\ durable_lsn \in Nat
  BY LenProperties DEF RInv, RTypeOK, IInv, TypeOK, CurType
<1>1. /\ phase = "open"
      /\ MaybeSubmit(TRUE) \/ Reap
      /\ seg_offset' <= SegmentCells
      /\ acked' = acked \cup {[lsn |-> n, ev |-> rec[n].ev] : n \in base + 1 .. durable_lsn'}
      /\ UNCHANGED <<disk, rec, events, crashes, phase, midblock>>
  BY DEF SubmitOrReap, InSegment, readVars, NewlyAcked
<1>2. UNCHANGED <<base, last_lsn>>
  BY <1>1 DEF MaybeSubmit, Reap
<1>3. IInv'
  <2>1. Next
    BY <1>1 DEF Next
  <2> QED  BY <1>0, <2>1, NextInv
<1>4. durable_lsn' <= Len(rec)
  BY <1>0, <1>2, <1>3, DurableInLogNext DEF DurableInLog
<1>5. \A r \in acked' :
        r \in acked \/ \E n \in base + 1 .. durable_lsn' : r = [lsn |-> n, ev |-> rec[n].ev]
  BY <1>1
<1>6. /\ rec' \in Seq(RecType) /\ Len(rec') = last_lsn' /\ Len(rec) <= Len(rec')
      /\ events' \in Nat /\ \A n \in 1 .. Len(rec) : rec'[n] = rec[n]
      /\ Sorted(rec')
  BY <1>0, <1>1, <1>2 DEF Placed
<1>7. /\ CurrentPlaced(rec, cur, seg_offset) /\ Padded(seg_offset) = seg_offset
      /\ GroupsPlaced(rec, groups, Start, seg_offset)
  BY <1>0 DEF Placed
<1>8. phase = "open" /\ UNCHANGED <<disk, base, crashes, phase, midblock>>
  BY <1>1, <1>2
<1>9. CASE MaybeSubmit(TRUE) /\ SubmitCurrent
  <2>1. /\ cur.len > 0 /\ groups' = Append(groups, Request)
        /\ seg_offset' = seg_offset + Padded(cur.len) /\ durable_lsn' = durable_lsn
        /\ cur' = NoGroup(NextBuffer(FreeAfterSubmit))
    BY <1>9 DEF MaybeSubmit, SubmitCurrent, SubmitGroup
  <2>2. GroupsPlaced(rec, groups', Start, seg_offset') /\ Padded(seg_offset') = seg_offset'
    BY <1>0, <1>1, <2>1, SubmitPlaces
  <2>3. CurrentPlaced(rec', cur', seg_offset')
    <3>1. cur'.len = 0
      BY <2>1 DEF NoGroup
    <3> QED  BY <3>1 DEF CurrentPlaced
  <2>4. PICK l \in Nat : l = Len(groups)
    BY <1>0
  <2>5. /\ DOMAIN groups' = 1 .. l + 1
        /\ \A i \in 1 .. l : groups'[i] = groups[i]
        /\ groups'[l + 1] = Request
    <3>1. Request \in GroupType
      BY <1>0, <2>1, RequestType DEF IInv
    <3> QED  BY <1>0, <2>1, <2>4, <3>1
  <2>6. \A i \in DOMAIN groups' : groups'[i].dev = "ok" =>
          /\ i \in DOMAIN groups /\ groups[i].dev = "ok"
          /\ groups'[i].first = groups[i].first /\ groups'[i].token = groups[i].token
          /\ groups'[i].off = groups[i].off /\ groups'[i].len = groups[i].len
    <3>1. Request.dev # "ok"
      BY DEF Request
    <3>2. \A i \in DOMAIN groups' : i \in 1 .. l \/ i = l + 1
      BY <2>4, <2>5
    <3> QED  BY <1>0, <2>4, <2>5, <3>1, <3>2
  <2>7. durable_lsn <= durable_lsn' /\ GroupsPlaced(rec', groups', Start, seg_offset')
    BY <1>0, <1>1, <2>1, <2>2
  <2> QED  BY <1>3, <1>4, <1>5, <1>6, <1>8, <2>2, <2>3, <2>6, <2>7, LogStep
<1>10. CASE MaybeSubmit(TRUE) /\ SubmitHalts
  <2>1. UNCHANGED <<seg_offset, cur, groups, durable_lsn>>
    BY <1>10 DEF MaybeSubmit, SubmitHalts
  <2>2. \A i \in DOMAIN groups' : groups'[i].dev = "ok" =>
          /\ i \in DOMAIN groups /\ groups[i].dev = "ok"
          /\ groups'[i].first = groups[i].first /\ groups'[i].token = groups[i].token
          /\ groups'[i].off = groups[i].off /\ groups'[i].len = groups[i].len
    BY <2>1
  <2>3. /\ durable_lsn <= durable_lsn' /\ GroupsPlaced(rec', groups', Start, seg_offset')
        /\ CurrentPlaced(rec', cur', seg_offset') /\ Padded(seg_offset') = seg_offset'
    BY <1>0, <1>1, <1>7, <2>1
  <2> QED  BY <1>3, <1>4, <1>5, <1>6, <1>8, <2>2, <2>3, LogStep
<1>11. CASE Reap
  <2>1. PICK k \in 0 .. Len(groups) - head :
          /\ groups' = Marked
          /\ cur' = IF cur.buf = NoBuffer /\ k > 0
                    THEN [cur EXCEPT !.buf = groups[head + 1].buf] ELSE cur
    BY <1>11 DEF Reap, GroupReap
  <2>2. seg_offset' = seg_offset
    BY <1>11 DEF Reap
  <2>3. durable_lsn <= durable_lsn'
    <3>1. /\ GroupReap /\ UNCHANGED <<last_lsn, seg_offset, buffers, base, written>>
          /\ wal_halted' = grp_halted' /\ call' = call
      BY <1>11 DEF Reap
    <3>2. wal_halted' \in BOOLEAN /\ call' \in {"none", "force_commit"}
      BY <1>3 DEF IInv, TypeOK
    <3> QED  BY <1>0, <3>1, <3>2, GroupReapInv
  <2>4. ASSUME NEW i \in DOMAIN groups
        PROVE  /\ groups'[i].first = groups[i].first /\ groups'[i].token = groups[i].token
               /\ groups'[i].off = groups[i].off /\ groups'[i].len = groups[i].len
               /\ groups'[i].dev = groups[i].dev
    <3>1. groups[i] \in GroupType
      BY <1>0, GroupElement
    <3> QED  BY <2>1, <3>1 DEF Marked, GroupType
  <2>5. DOMAIN groups' = DOMAIN groups /\ (groups' = <<>> <=> groups = <<>>)
    <3>1. DOMAIN groups' = DOMAIN groups
      BY <2>1 DEF Marked
    <3>2. groups' \in Seq(GroupType)
      BY <1>3 DEF IInv, TypeOK
    <3> QED  BY <1>0, <3>1, <3>2, LenProperties, EmptySeq
  <2>6. \A i \in DOMAIN groups :
          groups[i].first \in 1 .. Len(rec) /\ groups[i].token \in 1 .. Len(rec)
    BY <1>0, GroupRecords
  <2>7. groups # <<>> => 1 \in DOMAIN groups
    BY <1>0
  <2>8. GroupsPlaced(rec, groups', Start, seg_offset)
    BY <1>0, <1>7, <2>4, <2>5, <2>6, <2>7, PlacedSame
  <2>9. cur'.len = cur.len /\ cur'.first = cur.first /\ cur'.last = cur.last
    BY <1>0, <2>1 DEF CurType
  <2>10. CurrentPlaced(rec, cur', seg_offset)
    BY <1>7, <2>9 DEF CurrentPlaced
  <2>11. /\ GroupsPlaced(rec', groups', Start, seg_offset') /\ Padded(seg_offset') = seg_offset'
         /\ CurrentPlaced(rec', cur', seg_offset')
    BY <1>1, <1>7, <2>2, <2>8, <2>10
  <2>12. \A i \in DOMAIN groups' : groups'[i].dev = "ok" =>
           /\ i \in DOMAIN groups /\ groups[i].dev = "ok"
           /\ groups'[i].first = groups[i].first /\ groups'[i].token = groups[i].token
           /\ groups'[i].off = groups[i].off /\ groups'[i].len = groups[i].len
    BY <2>4, <2>5
  <2> QED  BY <1>3, <1>4, <1>5, <1>6, <1>8, <2>3, <2>11, <2>12, LogStep
<1> QED  BY <1>1, <1>9, <1>10, <1>11 DEF MaybeSubmit

-----------------------------------------------------------------------------
(* The device and the crash.                                                *)

\* The device ends a write: in full, or after some of its blocks.
LEMMA DeviceInv ==
  ASSUME RInv, NEW i \in Inflight, DeviceDone(i) \/ DeviceFails(i)
  PROVE  RInv'
<1>0. /\ IInv /\ RTypeOK /\ Placed /\ Kept /\ rec \in Seq(RecType) /\ Len(rec) = last_lsn
      /\ groups \in Seq(GroupType) /\ Len(groups) \in Nat /\ DOMAIN groups = 1 .. Len(groups)
      /\ head \in 0 .. Len(groups)
  BY LenProperties DEF RInv, RTypeOK, IInv, TypeOK
<1>1. i \in DOMAIN groups /\ {i} \subseteq DOMAIN groups
  BY <1>0 DEF Inflight
<1>2. PICK how, blocks :
        /\ how \in {"ok", "fail"} /\ Complete(i, how) /\ disk' = WithBlocks({i}, blocks)
        /\ how = "ok" => blocks = BlocksOf(groups[i])
  <2>1. CASE DeviceDone(i)
    <3>1. Complete(i, "ok") /\ disk' = WithBlocks({i}, BlocksOf(groups[i]))
      BY <2>1 DEF DeviceDone
    <3> QED  BY <3>1
  <2>2. CASE DeviceFails(i)
    <3>1. Complete(i, "fail") /\ \E blocks : disk' = WithBlocks({i}, blocks)
      BY <2>2 DEF DeviceFails
    <3> QED  BY <3>1
  <2> QED  BY <2>1, <2>2
<1>3. /\ phase = "open" /\ UNCHANGED <<rec, events, crashes, phase, midblock, acked>>
  BY DEF DeviceDone, DeviceFails, readVars, histVars
<1>4. /\ groups' = [groups EXCEPT ![i].dev = how]
      /\ UNCHANGED <<last_lsn, seg_offset, durable_lsn, cur, base>>
  BY <1>2 DEF Complete, walVars
<1>5. IInv'
  BY <1>0, <1>2, CompleteInv
<1>6. /\ disk' \in [Cells -> CellType]
  BY <1>0, <1>1, <1>2, WritesOnlyGroups
<1>7. /\ \A j \in DOMAIN groups :
           groups[j].dev = "ok" /\ j \notin {i} => GroupStored(disk', rec, groups[j])
      /\ Path(disk', rec, base)
      /\ ~midblock => Gets(disk', EndOf(rec, base), Start)
  BY <1>0, <1>1, <1>2, WriteKeeps
<1>8. how = "ok" => GroupStored(disk', rec, groups[i])
  BY <1>0, <1>1, <1>2, WriteStores
<1>9. DOMAIN groups' = DOMAIN groups /\ (groups' = <<>> <=> groups = <<>>)
  <2>1. DOMAIN groups' = DOMAIN groups
    BY <1>4
  <2>2. groups' \in Seq(GroupType)
    BY <1>5 DEF IInv, TypeOK
  <2> QED  BY <1>0, <2>1, <2>2, LenProperties, EmptySeq
<1>10. ASSUME NEW j \in DOMAIN groups
       PROVE  /\ groups'[j].first = groups[j].first /\ groups'[j].token = groups[j].token
              /\ groups'[j].off = groups[j].off /\ groups'[j].len = groups[j].len
              /\ groups'[j].dev = IF j = i THEN how ELSE groups[j].dev
  <2>1. groups[j] \in GroupType /\ groups[i] \in GroupType
    BY <1>0, <1>1, GroupElement
  <2> QED  BY <1>1, <1>4, <2>1 DEF GroupType
<1>11. Start' = Start
  BY <1>3, <1>4 DEF Start
<1>12. GroupsPlaced(rec, groups', Start, seg_offset)
  <2>1. \A j \in DOMAIN groups :
          groups[j].first \in 1 .. Len(rec) /\ groups[j].token \in 1 .. Len(rec)
    BY <1>0, GroupRecords
  <2>2. groups # <<>> => 1 \in DOMAIN groups
    BY <1>0
  <2>3. GroupsPlaced(rec, groups, Start, seg_offset) /\ Len(rec) \in Nat
    BY <1>0 DEF Placed
  <2> QED  BY <1>9, <1>10, <2>1, <2>2, <2>3, PlacedSame
<1>13. Placed'
  BY <1>0, <1>3, <1>4, <1>11, <1>12 DEF Placed
<1>14. GroupsStored(disk', rec, groups')
  <2> SUFFICES ASSUME NEW j \in DOMAIN groups, groups'[j].dev = "ok"
               PROVE  GroupStored(disk', rec, groups'[j])
    BY <1>9 DEF GroupsStored
  <2>1. GroupStored(disk', rec, groups[j])
    BY <1>7, <1>8, <1>10
  <2> QED  BY <1>10, <2>1 DEF GroupStored
<1>15. Kept'
  BY <1>3, <1>4, <1>7, <1>11, <1>14 DEF Kept
<1>16. RTypeOK'
  BY <1>0, <1>3, <1>4, <1>6 DEF RTypeOK
<1>17. Acknowledged'
  <2>1. AckedSurvives' <=> AckedSurvives
    BY <1>3 DEF AckedSurvives, Holds
  <2> QED  BY <1>3, <1>4, <2>1 DEF RInv, Acknowledged
<1>18. Reading' /\ Follows'
  BY <1>3 DEF Reading, Follows
<1> QED  BY <1>5, <1>13, <1>15, <1>16, <1>17, <1>18 DEF RInv

\* A crash: some blocks of the writes in flight are on disk, and the reader starts.
LEMMA CrashInv ==
  ASSUME RInv, Crash
  PROVE  RInv'
<1>0. /\ IInv /\ RTypeOK /\ Placed /\ Kept
      /\ groups \in Seq(GroupType) /\ Len(groups) \in Nat /\ DOMAIN groups = 1 .. Len(groups)
      /\ head \in 0 .. Len(groups)
  BY LenProperties DEF RInv, RTypeOK, IInv, TypeOK
<1>1. PICK gs, blocks :
        gs = {i \in Inflight : groups[i].dev = "flight"} /\ disk' = WithBlocks(gs, blocks)
  BY DEF Crash
<1>2. gs \subseteq DOMAIN groups /\ \A i \in gs : groups[i].dev = "flight"
  BY <1>0, <1>1 DEF Inflight
<1>3. /\ phase = "open" /\ crashes' = crashes + 1 /\ phase' = "read" /\ offset' = 0
      /\ resume' = 0 /\ log' = <<>> /\ UNCHANGED <<vars, rec, events, midblock, acked>>
  BY DEF Crash, histVars
<1>4. UNCHANGED <<last_lsn, seg_offset, durable_lsn, cur, base, groups>>
  BY <1>3 DEF vars, walVars, grpVars
<1>5. IInv'
  BY <1>0, <1>3, NextInv
<1>6. disk' \in [Cells -> CellType]
  BY <1>0, <1>1, <1>2, WritesOnlyGroups
<1>7. /\ \A j \in DOMAIN groups :
           groups[j].dev = "ok" /\ j \notin gs => GroupStored(disk', rec, groups[j])
      /\ Path(disk', rec, base)
      /\ ~midblock => Gets(disk', EndOf(rec, base), Start)
  BY <1>0, <1>1, <1>2, WriteKeeps
<1>8. Start' = Start
  BY <1>3, <1>4 DEF Start
<1>9. Placed'
  BY <1>0, <1>3, <1>4, <1>8 DEF Placed
<1>10. GroupsStored(disk', rec, groups)
  BY <1>2, <1>7 DEF GroupsStored
<1>11. Kept'
  BY <1>3, <1>4, <1>7, <1>8, <1>10 DEF Kept
<1>12. RTypeOK'
  BY <1>0, <1>3, <1>4, <1>6 DEF RTypeOK
<1>13. Acknowledged'
  <2>1. AckedSurvives' <=> AckedSurvives
    BY <1>3 DEF AckedSurvives, Holds
  <2>2. crashes \in Nat /\ crashes' # 0 /\ (crashes' = 1 => crashes = 0)
        /\ (crashes' <= 1 => crashes <= 1)
    BY <1>0, <1>3 DEF RTypeOK
  <2> QED  BY <1>3, <1>4, <2>1, <2>2 DEF RInv, Acknowledged
<1>14. Reading'
  <2>1. log' \in Seq(RecType) /\ Len(log') = 0 /\ DOMAIN log' = 1 .. 0
    BY <1>3
  <2>2. EndOf(log', 0) = 0
    BY DEF EndOf
  <2>3. Padded(0) = 0
    <3>1. 0 % BlockBytes = 0
      BY SizesAssumption
    <3> QED  BY <3>1, AlignedPadded
  <2>4. Sorted(log') /\ Path(disk', log', Len(log'))
    BY <2>1 DEF Sorted, Path
  <2>5. Gets(disk', EndOf(log', Len(log')), offset')
    BY <1>3, <2>1, <2>2 DEF Gets
  <2> QED  BY <1>3, <2>1, <2>2, <2>3, <2>4, <2>5 DEF Reading
<1>15. Follows'
  BY <1>3 DEF Follows
<1> QED  BY <1>5, <1>9, <1>11, <1>12, <1>13, <1>14, <1>15 DEF RInv

-----------------------------------------------------------------------------
(* Reading.                                                                 *)

\* Every durable record is on disk and in the way of the reader, if that leads over
\* the block where the replayed records end.
LEMMA DurablePath ==
  ASSUME IInv, RTypeOK, Placed, Kept, ~midblock, NEW n \in base + 1 .. durable_lsn
  PROVE  OnDisk(disk, rec, n) /\ Gets(disk, EndOf(rec, n - 1), rec[n].at)
<1>0. /\ groups \in Seq(GroupType) /\ Len(groups) \in Nat /\ DOMAIN groups = 1 .. Len(groups)
      /\ head \in 0 .. Len(groups) /\ base \in Nat /\ durable_lsn \in Nat
      /\ rec \in Seq(RecType)
  BY LenProperties DEF RTypeOK, IInv, TypeOK
<1>1. PICK i \in 1 .. head : groups[i].first <= n /\ n <= groups[i].token
  BY DurableGroup
<1>2. PICK g : g = groups[i]
  OBVIOUS
<1>3. i \in DOMAIN groups /\ i \in Nat /\ n \in Nat
  BY <1>0, <1>1
<1>4. g.first \in Nat /\ g.token \in Nat /\ n \in g.first .. g.token
  <2>1. g.first \in Nat /\ g.token \in Nat
    BY <1>0, <1>2, <1>3, GroupElement
  <2> QED  BY <1>1, <1>2, <1>3, <2>1
<1>5. OnDisk(disk, rec, n)
  <2>1. g.dev = "ok"
    BY <1>1, <1>2 DEF IInv, Completed
  <2>2. GroupStored(disk, rec, g)
    BY <1>2, <1>3, <2>1 DEF Kept, GroupsStored
  <2> QED  BY <1>4, <2>2 DEF GroupStored
<1>6. GroupPlaced(rec, g)
  BY <1>2, <1>3 DEF Placed, GroupsPlaced
<1>7. g.first = (IF i = 1 THEN base ELSE groups[i - 1].token) + 1
  BY <1>2, <1>3 DEF IInv, GroupsFollow
<1>8. CASE n # g.first
  <2>1. n \in g.first + 1 .. g.token
    BY <1>4, <1>8
  <2>2. rec[n].at = EndOf(rec, n - 1)
    BY <1>6, <2>1 DEF GroupPlaced, Consecutive
  <2> QED  BY <1>5, <2>2 DEF Gets
<1>9. CASE n = g.first /\ i = 1
  <2>1. n - 1 = base
    BY <1>0, <1>3, <1>7, <1>9
  <2>2. rec[n].at = g.off
    BY <1>6, <1>9 DEF GroupPlaced
  <2>3. groups # <<>>
    BY <1>0, <1>3
  <2>4. g.off = Start
    BY <1>2, <1>9, <2>3 DEF Placed, GroupsPlaced
  <2>5. Gets(disk, EndOf(rec, base), Start)
    BY DEF Kept
  <2> QED  BY <1>5, <2>1, <2>2, <2>4, <2>5
<1>10. CASE n = g.first /\ i # 1
  <2>1. PICK j \in 1 .. head : j = i - 1 /\ j \in DOMAIN groups /\ j \in 1 .. Len(groups) - 1
                               /\ j + 1 = i
    BY <1>0, <1>1, <1>10
  <2>2. PICK h : h = groups[j]
    OBVIOUS
  <2>3. h.dev = "ok"
    BY <2>1, <2>2 DEF IInv, Completed
  <2>4. GroupStored(disk, rec, h) /\ GroupPlaced(rec, h)
    BY <2>1, <2>2, <2>3 DEF Kept, GroupsStored, Placed, GroupsPlaced
  <2>5. h.token \in 1 .. Len(rec) /\ h.off \in Nat /\ h.len \in Nat
        /\ h.off + h.len <= SegmentCells /\ EndOf(rec, h.token) \in Nat
        /\ EndOf(rec, h.token) <= h.off + h.len
    BY <2>1, <2>2, GroupRecords
  <2>6. n - 1 = h.token
    BY <1>7, <1>10, <2>1, <2>2, <2>5
  <2>7. rec[n].at = h.off + h.len
    <3>1. rec[n].at = g.off
      BY <1>6, <1>10 DEF GroupPlaced
    <3>2. g.off = h.off + h.len
      BY <1>2, <2>1, <2>2 DEF IInv, FileIsTiled
    <3> QED  BY <3>1, <3>2
  <2>8. PICK o \in Nat : o = EndOf(rec, h.token)
    BY <2>5
  <2>9. Padded(o) = h.off + h.len
    BY <2>4, <2>8 DEF GroupPlaced
  <2>10. CASE o = Padded(o)
    BY <1>5, <2>6, <2>7, <2>8, <2>9, <2>10 DEF Gets
  <2>11. CASE o # Padded(o)
    <3>1. o % BlockBytes # 0
      BY <2>11, AlignedPadded
    <3>2. o \in EndOf(rec, h.token) .. h.off + h.len - 1 /\ o < SegmentCells
      BY <2>5, <2>8, <2>9, <2>11, SegmentAssumption
    <3>3. disk[o] = Zero
      BY <2>4, <3>2 DEF GroupStored
    <3>4. Skips(disk, o)
      BY <3>1, <3>3 DEF Skips
    <3> QED  BY <1>5, <2>6, <2>7, <2>8, <2>9, <3>2, <3>4 DEF Gets
  <2> QED  BY <2>10, <2>11
<1> QED  BY <1>8, <1>9, <1>10

\* The records a recovery has to find again.
Wanted(n) == n <= base \/ (~midblock /\ n <= durable_lsn)

\* A valid record is not padding.
LEMMA RecordNotSkipped ==
  ASSUME NEW o, disk[o] # Zero, disk[o].part = 0
  PROVE  ~Skips(disk, o)
  BY DEF Skips

\* On its way to a wanted record the reader either has padding before it or stands
\* at the record and accepts it.
LEMMA OnTheWay ==
  ASSUME RInv, phase = "read", NEW n, n = Len(log) + 1, Wanted(n)
  PROVE  /\ rec[n] \in RecType
         /\ offset # rec[n].at => offset < SegmentCells /\ Skips(disk, offset)
         /\ offset = rec[n].at => Accepts /\ disk[offset] = Part(rec, n, 0)
<1>0. /\ IInv /\ RTypeOK /\ Placed /\ Kept /\ rec \in Seq(RecType) /\ Len(rec) = last_lsn
      /\ base \in Nat /\ durable_lsn \in Nat /\ last_lsn \in Nat
      /\ base <= last_lsn /\ durable_lsn <= last_lsn
  BY TipBound, DurablePrefix DEF RInv, RTypeOK, IInv, TypeOK
<1>1. /\ log \in Seq(RecType) /\ Len(log) \in Nat /\ DOMAIN log = 1 .. Len(log) /\ offset \in Nat
      /\ Gets(disk, EndOf(log, Len(log)), offset)
  BY LenProperties DEF RInv, Reading
<1>2. PICK m \in Nat : m = Len(log) /\ n = m + 1 /\ n - 1 = m
  <2>1. Len(log) \in Nat /\ n = Len(log) + 1 /\ n - 1 = Len(log)
    BY <1>1
  <2> QED  BY <2>1
<1>3. n \in 1 .. Len(rec)
  BY <1>0, <1>2 DEF Wanted
<1>4. OnDisk(disk, rec, n) /\ Gets(disk, EndOf(rec, m), rec[n].at)
  <2>1. CASE n <= base
    <3>1. n \in 1 .. base
      BY <1>0, <1>2, <2>1
    <3> QED  BY <1>0, <1>2, <3>1 DEF Kept, Path
  <2>2. CASE ~ (n <= base)
    <3>1. ~midblock /\ n \in base + 1 .. durable_lsn
      BY <1>0, <1>2, <2>2 DEF Wanted
    <3> QED  BY <1>0, <1>2, <3>1, DurablePath
  <2> QED  BY <2>1, <2>2
<1>5. EndOf(log, m) = EndOf(rec, m)
  <2>1. CASE m = 0
    BY <2>1 DEF EndOf
  <2>2. CASE m # 0
    <3>1. m \in DOMAIN log /\ (m <= base \/ (~midblock /\ m <= durable_lsn))
      BY <1>0, <1>1, <1>2, <2>2 DEF Wanted
    <3>2. log[m] = rec[m]
      BY <3>1 DEF RInv, Follows
    <3> QED  BY <1>2, <3>2, SameRecord
  <2> QED  BY <2>1, <2>2
<1>6. PICK o \in Nat : o = EndOf(rec, m)
  <2>1. m \in 0 .. Len(rec)
    BY <1>0, <1>2, <1>3
  <2> QED  BY <1>0, <2>1, EndType
<1>7. Gets(disk, o, offset) /\ Gets(disk, o, rec[n].at)
  BY <1>1, <1>2, <1>4, <1>5, <1>6
<1>8. /\ rec[n] \in RecType /\ rec[n].at \in Nat /\ rec[n].len \in Nat \ {0}
      /\ EndOf(rec, n) = rec[n].at + rec[n].len
  BY <1>0, <1>3, RecordPlace
<1>9. \A k \in 0 .. rec[n].len - 1 : disk[rec[n].at + k] = Part(rec, n, k)
  BY <1>4 DEF OnDisk
<1>10. disk[rec[n].at] = Part(rec, n, 0)
  <2>1. 0 \in 0 .. rec[n].len - 1 /\ rec[n].at + 0 = rec[n].at
    BY <1>8
  <2> QED  BY <1>9, <2>1
<1>11. /\ Part(rec, n, 0) # Zero /\ Part(rec, n, 0).part = 0
       /\ Part(rec, n, 0).len = rec[n].len /\ Part(rec, n, 0).lsn = n
  BY <1>8 DEF Part, Zero
<1>12. ~Skips(disk, rec[n].at)
  BY <1>10, <1>11, RecordNotSkipped
<1>13. offset # rec[n].at => offset < SegmentCells /\ Skips(disk, offset)
  BY <1>7, <1>12 DEF Gets
<1>14. ASSUME offset = rec[n].at  PROVE Accepts /\ disk[offset] = Part(rec, n, 0)
  <2>1. rec[n].at + rec[n].len <= SegmentCells
    BY <1>4, <1>8 DEF OnDisk
  <2>2. offset < SegmentCells
    BY <1>8, <1>14, <2>1, SegmentAssumption
  <2>3. \A k : [Part(rec, n, 0) EXCEPT !.part = k] = Part(rec, n, k)
    BY DEF Part
  <2>4. IsRecord(disk, offset)
    BY <1>9, <1>10, <1>11, <1>14, <2>1, <2>3 DEF IsRecord
  <2> QED  BY <1>2, <1>10, <1>11, <1>14, <2>2, <2>4 DEF Accepts
<1> QED  BY <1>8, <1>13, <1>14

\* What the steps of the reader leave alone.
LEMMA ReaderKeeps ==
  ASSUME RInv, UNCHANGED <<vars, disk, rec, events, crashes, phase, midblock, acked>>
  PROVE  IInv' /\ RTypeOK' /\ Placed' /\ Kept' /\ Acknowledged'
<1>1. UNCHANGED <<last_lsn, seg_offset, durable_lsn, cur, base, groups>>
  BY DEF vars, walVars, grpVars
<1>2. IInv'
  BY NextInv DEF RInv
<1>3. Start' = Start
  BY <1>1 DEF Start
<1>4. RTypeOK' /\ Placed' /\ Kept'
  BY <1>1, <1>3 DEF RInv, RTypeOK, Placed, Kept
<1>5. AckedSurvives' <=> AckedSurvives
  BY DEF AckedSurvives, Holds
<1>6. Acknowledged'
  BY <1>1, <1>5 DEF RInv, Acknowledged
<1> QED  BY <1>2, <1>4, <1>6

\* The reader goes over padding, once: it then stands at a block boundary.
LEMMA ReadSkipInv ==
  ASSUME RInv, ReadSkip
  PROVE  RInv'
<1>1. /\ phase = "read" /\ offset < SegmentCells /\ Skips(disk, offset)
      /\ offset' = Padded(offset)
      /\ UNCHANGED <<vars, disk, rec, events, crashes, phase, resume, log, midblock, acked>>
  BY DEF ReadSkip, histVars
<1>2. /\ log \in Seq(RecType) /\ offset \in Nat /\ Sorted(log) /\ Path(disk, log, Len(log))
      /\ Gets(disk, EndOf(log, Len(log)), offset) /\ resume = Padded(EndOf(log, Len(log)))
  BY <1>1 DEF RInv, Reading
<1>3. PICK o \in Nat : o = EndOf(log, Len(log))
  <2>1. Len(log) \in 0 .. Len(log)
    BY <1>2, LenProperties
  <2> QED  BY <1>2, <2>1, EndType
<1>4. offset = o
  <2>1. Padded(o) % BlockBytes = 0
    BY <1>3, PaddedAligned
  <2>2. offset % BlockBytes # 0
    BY <1>1 DEF Skips
  <2> QED  BY <1>2, <1>3, <2>1, <2>2 DEF Gets
<1>5. Gets(disk, EndOf(log, Len(log)), offset')
  BY <1>1, <1>3, <1>4 DEF Gets
<1>6. offset' \in Nat
  BY <1>1, <1>2, PaddedIs
<1>7. Reading'
  BY <1>1, <1>2, <1>5, <1>6 DEF Reading
<1>8. Follows'
  <2>1. base' = base /\ durable_lsn' = durable_lsn
    BY <1>1 DEF vars, grpVars
  <2> QED  BY <1>1, <2>1 DEF RInv, Follows
<1> QED  BY <1>1, <1>7, <1>8, ReaderKeeps DEF RInv

\* The reader hands out a record: the one the log had there, if it was wanted.
LEMMA ReadRecordInv ==
  ASSUME RInv, ReadRecord
  PROVE  RInv'
<1>1. /\ phase = "read" /\ Accepts
      /\ log' = Append(log, [ev |-> disk[offset].ev, len |-> disk[offset].len, at |-> offset])
      /\ offset' = offset + disk[offset].len
      /\ resume' = Padded(offset + disk[offset].len)
      /\ UNCHANGED <<vars, disk, rec, events, crashes, phase, midblock, acked>>
  BY DEF ReadRecord, ResumeAfter, histVars
<1>2. /\ log \in Seq(RecType) /\ offset \in Nat /\ Sorted(log) /\ Path(disk, log, Len(log))
      /\ Gets(disk, EndOf(log, Len(log)), offset)
      /\ Len(log) \in Nat /\ DOMAIN log = 1 .. Len(log)
  BY <1>1, LenProperties DEF RInv, Reading
<1>3. PICK h : h = disk[offset]
  OBVIOUS
<1>4. /\ offset < SegmentCells /\ h # Zero /\ h.part = 0 /\ h.lsn = Len(log) + 1
      /\ offset + h.len <= SegmentCells
      /\ \A k \in 0 .. h.len - 1 : disk[offset + k] = [h EXCEPT !.part = k]
  BY <1>1, <1>3 DEF Accepts, IsRecord
<1>5. h \in [lsn : Nat, ev : Nat, len : Nat \ {0}, part : Nat]
  <2>1. offset \in Cells
    BY <1>2, <1>4, SegmentAssumption DEF Cells
  <2>2. h \in CellType
    BY <1>3, <2>1 DEF RInv, RTypeOK
  <2> QED  BY <1>4, <2>2 DEF CellType
<1>6. PICK x : x = [ev |-> h.ev, len |-> h.len, at |-> offset]
  OBVIOUS
<1>7. x \in RecType /\ x.ev = h.ev /\ x.len = h.len /\ x.at = offset
  BY <1>2, <1>5, <1>6 DEF RecType
<1>8. PICK m \in Nat : m = Len(log)
  BY <1>2
<1>9. /\ log' \in Seq(RecType) /\ Len(log') = m + 1 /\ DOMAIN log' = 1 .. m + 1
      /\ \A n \in 1 .. m : log'[n] = log[n]
      /\ log'[m + 1] = x
  BY <1>1, <1>2, <1>3, <1>6, <1>7, <1>8
<1>10. \A n \in 0 .. m : EndOf(log', n) = EndOf(log, n)
  BY <1>9 DEF EndOf
<1>11. EndOf(log, m) \in Nat /\ EndOf(log, m) <= offset
  <2>1. m \in 0 .. Len(log)
    BY <1>8
  <2>2. EndOf(log, m) \in Nat
    BY <1>2, <2>1, EndType
  <2>3. EndOf(log, m) <= Padded(EndOf(log, m))
    BY <2>2, PaddedIs
  <2> QED  BY <1>2, <1>8, <2>2, <2>3 DEF Gets
<1>12. EndOf(log', m + 1) = offset + h.len
  BY <1>7, <1>9 DEF EndOf
<1>13. Sorted(log')
  <2> SUFFICES ASSUME NEW n \in 1 .. m + 1, NEW k \in 1 .. m + 1, n < k
               PROVE  EndOf(log', n) <= log'[k].at
    BY <1>9 DEF Sorted
  <2>1. n \in 1 .. m /\ n \in 0 .. m
    OBVIOUS
  <2>2. CASE k \in 1 .. m
    BY <1>2, <1>8, <1>9, <1>10, <2>1, <2>2 DEF Sorted
  <2>3. CASE k = m + 1
    <3>1. n \in 0 .. Len(log) /\ m \in 0 .. Len(log) /\ n <= m
      BY <1>8, <2>1
    <3>2. EndOf(log, n) <= EndOf(log, m) /\ EndOf(log, n) \in Nat
      BY <1>2, <3>1, SortedEnds, EndType
    <3>3. EndOf(log', n) = EndOf(log, n) /\ log'[k].at = offset
      BY <1>7, <1>9, <1>10, <2>1, <2>3
    <3> QED  BY <1>2, <1>11, <3>2, <3>3
  <2> QED  BY <2>2, <2>3
<1>14. OnDisk(disk, log', m + 1)
  <2>1. \A k : Part(log', m + 1, k) = [h EXCEPT !.part = k]
    <3>1. h = [lsn |-> h.lsn, ev |-> h.ev, len |-> h.len, part |-> h.part]
      BY <1>5
    <3>2. \A k : [h EXCEPT !.part = k] = [lsn |-> h.lsn, ev |-> h.ev, len |-> h.len, part |-> k]
      BY <3>1
    <3> QED  BY <1>4, <1>7, <1>8, <1>9, <3>2 DEF Part
  <2>2. log'[m + 1].len = h.len /\ log'[m + 1].at = offset
    BY <1>7, <1>9
  <2>3. \A k \in 0 .. log'[m + 1].len - 1 : disk[log'[m + 1].at + k] = Part(log', m + 1, k)
    <3>1. \A k \in 0 .. h.len - 1 : disk[offset + k] = [h EXCEPT !.part = k]
      BY <1>4
    <3>2. \A k \in 0 .. h.len - 1 : disk[offset + k] = Part(log', m + 1, k)
      BY <2>1, <3>1, Zenon
    <3> QED  BY <2>2, <3>2, Zenon
  <2> QED  BY <1>4, <1>12, <2>3 DEF OnDisk
<1>15. Path(disk, log', m + 1)
  <2> SUFFICES ASSUME NEW n \in 1 .. m + 1
               PROVE  OnDisk(disk, log', n) /\ Gets(disk, EndOf(log', n - 1), log'[n].at)
    BY DEF Path
  <2>1. CASE n \in 1 .. m
    <3>1. OnDisk(disk, log, n) /\ Gets(disk, EndOf(log, n - 1), log[n].at)
      BY <1>2, <1>8, <2>1 DEF Path
    <3>2. n \in Nat /\ n # 0 /\ n - 1 \in 0 .. m /\ log'[n] = log[n]
      BY <1>9, <2>1
    <3>3. OnDisk(disk, log', n)
      BY <3>1, <3>2, SameRecord
    <3> QED  BY <1>10, <3>1, <3>2, <3>3
  <2>2. CASE n = m + 1
    <3>1. n - 1 = m /\ m \in 0 .. m
      BY <2>2
    <3>2. EndOf(log', m) = EndOf(log, Len(log)) /\ log'[n].at = offset
      BY <1>7, <1>8, <1>9, <1>10, <2>2, <3>1
    <3> QED  BY <1>2, <1>14, <2>2, <3>1, <3>2
  <2> QED  BY <2>1, <2>2
<1>16. Reading'
  <2>1. offset' = EndOf(log', Len(log')) /\ resume' = Padded(EndOf(log', Len(log')))
    BY <1>1, <1>3, <1>9, <1>12
  <2>2. offset' \in Nat
    BY <1>1, <1>2, <1>3, <1>5
  <2>3. Gets(disk, EndOf(log', Len(log')), offset')
    BY <2>1 DEF Gets
  <2> QED  BY <1>1, <1>9, <1>13, <1>15, <2>1, <2>2, <2>3 DEF Reading
<1>17. Follows'
  <2>0. base' = base /\ durable_lsn' = durable_lsn
    BY <1>1 DEF vars, grpVars
  <2> SUFFICES ASSUME NEW n \in 1 .. m + 1, n <= base \/ (~midblock /\ n <= durable_lsn)
               PROVE  log'[n] = rec[n]
    BY <1>1, <1>9, <2>0 DEF Follows
  <2>1. CASE n \in 1 .. m
    <3>1. log[n] = rec[n]
      BY <1>1, <1>2, <1>8, <2>1 DEF RInv, Follows
    <3> QED  BY <1>9, <2>1, <3>1
  <2>2. CASE n = m + 1
    <3>1. n = Len(log) + 1 /\ Wanted(n)
      BY <1>8, <2>2 DEF Wanted
    <3>2. ~Skips(disk, offset)
      BY <1>3, <1>4, RecordNotSkipped
    <3>3. offset = rec[n].at /\ disk[offset] = Part(rec, n, 0) /\ rec[n] \in RecType
      BY <1>1, <3>1, <3>2, OnTheWay
    <3>4. h.ev = rec[n].ev /\ h.len = rec[n].len
      BY <1>3, <3>3 DEF Part
    <3>5. rec[n] = [ev |-> rec[n].ev, len |-> rec[n].len, at |-> rec[n].at]
      BY <3>3 DEF RecType
    <3> QED  BY <1>6, <1>9, <2>2, <3>3, <3>4, <3>5
  <2> QED  BY <2>1, <2>2
<1> QED  BY <1>1, <1>16, <1>17, ReaderKeeps DEF RInv

\* The reader stops only behind all the records it has to find again, and has handed
\* them out as they were.
LEMMA StopsBehind ==
  ASSUME RInv, Reopen
  PROVE  /\ log \in Seq(RecType) /\ Len(log) \in Nat /\ DOMAIN log = 1 .. Len(log)
         /\ base <= Len(log) /\ (~midblock => durable_lsn <= Len(log))
         /\ \A n \in 1 .. Len(log) : Wanted(n) => log[n] = rec[n]
<1>1. phase = "read" /\ (offset < SegmentCells => ~Skips(disk, offset)) /\ ~Accepts
  BY DEF Reopen
<1>2. log \in Seq(RecType) /\ Len(log) \in Nat /\ DOMAIN log = 1 .. Len(log)
  BY <1>1, LenProperties DEF RInv, Reading
<1>3. ~Wanted(Len(log) + 1)
  <2> SUFFICES ASSUME Wanted(Len(log) + 1)  PROVE FALSE
    OBVIOUS
  <2>1. PICK n : n = Len(log) + 1
    OBVIOUS
  <2>2. /\ offset # rec[n].at => offset < SegmentCells /\ Skips(disk, offset)
        /\ offset = rec[n].at => Accepts
    BY <1>1, <2>1, OnTheWay
  <2> QED  BY <1>1, <2>2
<1>4. base \in Nat /\ durable_lsn \in Nat
  BY DEF RInv, IInv, TypeOK
<1>5. base <= Len(log) /\ (~midblock => durable_lsn <= Len(log))
  BY <1>2, <1>3, <1>4 DEF Wanted
<1>6. \A n \in 1 .. Len(log) : Wanted(n) => log[n] = rec[n]
  BY <1>1, <1>2 DEF RInv, Follows, Wanted
<1> QED  BY <1>2, <1>5, <1>6

\* The invariant of an opened log, after a step that opens it.
LEMMA OpenedNext == Opened' => IInv'
  BY OpenedInv, PTL

\* The log is opened behind the records replayed, and loses none that was durable.
LEMMA ReopenInv ==
  ASSUME RInv, Reopen
  PROVE  RInv'
<1>1. /\ phase = "read" /\ phase' = "open" /\ rec' = log
      /\ midblock' = (midblock \/ offset % BlockBytes # 0)
      /\ last_lsn' = Len(log) /\ base' = Len(log) /\ seg_offset' = resume
      /\ cur' = NoGroup(0) /\ groups' = <<>> /\ durable_lsn' = 0
      /\ UNCHANGED <<disk, events, crashes, acked>>
  BY DEF Reopen
<1>2. /\ log \in Seq(RecType) /\ Len(log) \in Nat /\ DOMAIN log = 1 .. Len(log)
      /\ base <= Len(log) /\ (~midblock => durable_lsn <= Len(log))
      /\ \A n \in 1 .. Len(log) : Wanted(n) => log[n] = rec[n]
  BY StopsBehind
<1>3. /\ offset \in Nat /\ Sorted(log) /\ Path(disk, log, Len(log))
      /\ Gets(disk, EndOf(log, Len(log)), offset) /\ resume = Padded(EndOf(log, Len(log)))
  BY <1>1 DEF RInv, Reading
<1>4. PICK o \in Nat : o = EndOf(log, Len(log))
  <2>1. Len(log) \in 0 .. Len(log)
    BY <1>2
  <2> QED  BY <1>2, <2>1, EndType
<1>5. Padded(o) \in Nat /\ Padded(Padded(o)) = Padded(o) /\ resume = Padded(o)
  BY <1>3, <1>4, PaddedIs, PaddedAligned
<1>6. Start' = Padded(o)
  BY <1>1, <1>4 DEF Start
<1>7. midblock \in BOOLEAN /\ midblock' \in BOOLEAN /\ (~midblock' => ~midblock)
      /\ (~midblock' => offset % BlockBytes = 0)
  BY <1>1 DEF RInv, RTypeOK
<1>8. RTypeOK'
  BY <1>1, <1>2, <1>7 DEF RInv, RTypeOK
<1>9. IInv'
  <2>1. /\ head' = 0 /\ call' = "none" /\ written' = {} /\ wal_halted' = FALSE
        /\ grp_halted' = FALSE /\ buf_free' = [b \in Buffers |-> TRUE]
        /\ buffers' = [b \in Buffers |-> Nothing]
    BY DEF Reopen
  <2>2. Opened'
    BY <1>1, <1>2, <1>5, <2>1 DEF Opened
  <2> QED  BY <2>2, OpenedNext
<1>10. Placed'
  <2>1. GroupsPlaced(rec', groups', Start', seg_offset')
    <3>1. Padded(o) <= Padded(o)
      BY <1>5
    <3>2. DOMAIN groups' = {}
      BY <1>1
    <3> QED  BY <1>1, <1>5, <1>6, <3>1, <3>2 DEF GroupsPlaced
  <2>2. CurrentPlaced(rec', cur', seg_offset')
    BY <1>1 DEF CurrentPlaced, NoGroup
  <2> QED  BY <1>1, <1>3, <1>5, <2>1, <2>2 DEF Placed
<1>11. Kept'
  <2>1. GroupsStored(disk', rec', groups')
    <3>1. DOMAIN groups' = {}
      BY <1>1
    <3> QED  BY <3>1 DEF GroupsStored
  <2>2. Path(disk', rec', base')
    BY <1>1, <1>3
  <2>3. ASSUME ~midblock'  PROVE Gets(disk, o, Padded(o))
    <3>1. offset % BlockBytes = 0
      BY <1>7, <2>3
    <3>2. CASE offset = o
      <4>1. Padded(o) = o
        BY <1>4, <3>1, <3>2, AlignedPadded
      <4> QED  BY <4>1 DEF Gets
    <3>3. CASE offset # o
      BY <1>3, <1>4, <3>3 DEF Gets
    <3> QED  BY <3>2, <3>3
  <2> QED  BY <1>1, <1>4, <1>6, <2>1, <2>2, <2>3 DEF Kept
<1>12. Acknowledged'
  <2>1. crashes \in Nat /\ crashes # 0 /\ base \in Nat /\ durable_lsn \in Nat
    BY <1>1 DEF RInv, RTypeOK, Acknowledged, IInv, TypeOK
  <2>2. crashes <= 1 \/ ~midblock' => ~midblock
    BY <1>1, <1>7, <2>1 DEF RInv, Acknowledged
  <2>3. ASSUME ~midblock, NEW r \in acked
        PROVE  r.lsn \in 1 .. Len(log) /\ log[r.lsn].ev = r.ev
    <3>1. r.lsn \in DOMAIN rec /\ rec[r.lsn].ev = r.ev
      BY <2>3 DEF RInv, Acknowledged, AckedSurvives, Holds
    <3>2. r.lsn \in Nat /\ 1 <= r.lsn
      BY <3>1, LenProperties DEF RInv, RTypeOK
    <3>3. r.lsn <= base \/ r.lsn <= durable_lsn
      BY <2>3 DEF RInv, Acknowledged
    <3>4. r.lsn \in 1 .. Len(log)
      BY <1>2, <2>1, <2>3, <3>2, <3>3
    <3>5. log[r.lsn] = rec[r.lsn]
      BY <1>2, <2>3, <3>3, <3>4 DEF Wanted
    <3> QED  BY <3>1, <3>4, <3>5
  <2>4. ~midblock => AckedSurvives'
    BY <1>1, <1>2, <2>3 DEF AckedSurvives, Holds
  <2>5. ~midblock' => \A r \in acked' : r.lsn <= base'
    BY <1>1, <1>7, <2>3
  <2> QED  BY <1>1, <1>7, <2>1, <2>2, <2>4, <2>5 DEF Acknowledged
<1>13. Reading' /\ Follows'
  BY <1>1 DEF Reading, Follows
<1> QED  BY <1>8, <1>9, <1>10, <1>11, <1>12, <1>13 DEF RInv

-----------------------------------------------------------------------------
\* A new segment: nothing is in it and nothing was promised.
LEMMA RInitInv == RInit => RInv
<1> SUFFICES ASSUME RInit  PROVE RInv
  OBVIOUS
<1>1. /\ Init /\ base = 0 /\ seg_offset = 0 /\ disk = [c \in Cells |-> Zero] /\ rec = <<>>
      /\ events = 0 /\ crashes = 0 /\ phase = "open" /\ midblock = FALSE /\ acked = {}
  BY DEF RInit
<1>2. IInv
  BY <1>1, InitInv
<1>3. /\ last_lsn = base /\ groups = <<>> /\ cur = NoGroup(0)
  BY <1>1 DEF Init
<1>4. RTypeOK
  <2>1. disk \in [Cells -> CellType]
    BY <1>1 DEF CellType
  <2>2. rec \in Seq(RecType) /\ Len(rec) = last_lsn
    BY <1>1, <1>3
  <2> QED  BY <1>1, <2>1, <2>2 DEF RTypeOK
<1>5. Padded(0) = 0 /\ EndOf(rec, base) = 0 /\ Start = 0
  <2>1. 0 % BlockBytes = 0
    BY SizesAssumption
  <2>2. Padded(0) = 0
    BY <2>1, AlignedPadded
  <2> QED  BY <1>1, <2>2 DEF EndOf, Start
<1>6. DOMAIN rec = {} /\ DOMAIN groups = {}
  BY <1>1, <1>3
<1>7. Placed
  <2>1. GroupsPlaced(rec, groups, Start, seg_offset)
    BY <1>1, <1>3, <1>5, <1>6 DEF GroupsPlaced
  <2>2. CurrentPlaced(rec, cur, seg_offset)
    BY <1>3 DEF CurrentPlaced, NoGroup
  <2> QED  BY <1>1, <1>5, <1>6, <2>1, <2>2 DEF Placed, Sorted
<1>8. Kept
  BY <1>1, <1>5, <1>6 DEF Kept, GroupsStored, Path, Gets
<1>9. Acknowledged /\ Reading /\ Follows
  BY <1>1 DEF Acknowledged, AckedSurvives, Reading, Follows
<1> QED  BY <1>2, <1>4, <1>7, <1>8, <1>9 DEF RInv

\* Every step keeps the invariant: of the log, of the device, a crash, of the reader.
LEMMA RNextInv == RInv /\ [RNext]_allVars => RInv'
<1> SUFFICES ASSUME RInv, [RNext]_allVars  PROVE RInv'
  OBVIOUS
<1>1. ASSUME NEW len \in RecLens, AppendEvent(len)  PROVE RInv'
  BY <1>1, AppendEventInv
<1>2. CASE SubmitOrReap
  BY <1>2, SubmitOrReapInv
<1>3. ASSUME NEW i \in Inflight, DeviceDone(i) \/ DeviceFails(i)  PROVE RInv'
  BY <1>3, DeviceInv
<1>4. CASE Crash
  BY <1>4, CrashInv
<1>5. CASE ReadSkip
  BY <1>5, ReadSkipInv
<1>6. CASE ReadRecord
  BY <1>6, ReadRecordInv
<1>7. CASE Reopen
  BY <1>7, ReopenInv
<1>8. CASE UNCHANGED allVars
  <2>1. UNCHANGED <<vars, disk, rec, events, crashes, phase, midblock, acked, offset, resume, log>>
    BY <1>8 DEF allVars, readVars, histVars
  <2>2. base' = base /\ durable_lsn' = durable_lsn
    BY <2>1 DEF vars, grpVars
  <2>3. Reading' /\ Follows'
    BY <2>1, <2>2 DEF RInv, Reading, Follows
  <2> QED  BY <2>1, <2>3, ReaderKeeps DEF RInv
<1> QED  BY <1>1, <1>2, <1>3, <1>4, <1>5, <1>6, <1>7, <1>8 DEF RNext

\* The inductive invariant holds in every life of the log and during every recovery.
THEOREM RecoveryInvariant == RSpec => []RInv
  BY RInitInv, RNextInv, PTL DEF RSpec

\* A crash at any moment, with any of the blocks in flight on disk, and the recovery
\* after it lose no record that was durable: the first crash of a segment never does.
THEOREM RecoveryFirst == RSpec => []FirstRecoveryKeepsAcked
<1>1. RInv => FirstRecoveryKeepsAcked
  BY DEF RInv, Acknowledged, FirstRecoveryKeepsAcked
<1> QED  BY <1>1, RecoveryInvariant, PTL

\* Nor do any number of crashes, as long as no recovery stopped inside a block.
THEOREM RecoveryCleanStops == RSpec => []CleanStopsKeepAcked
<1>1. RInv => CleanStopsKeepAcked
  BY DEF RInv, Acknowledged, CleanStopsKeepAcked
<1> QED  BY <1>1, RecoveryInvariant, PTL

\* What one recovery replayed stays: every later one replays it again, first, in the
\* same order and from the same place, whatever was appended, torn or lost since.
THEOREM RecoveryReplays == RSpec => ReplayedStays
<1>1. ASSUME RInv, [RNext]_allVars
      PROVE  [base <= base' /\ \A n \in 1 .. base : rec'[n] = rec[n]]_allVars
  <2>0. /\ base \in Nat /\ last_lsn \in Nat /\ base <= last_lsn /\ Len(rec) = last_lsn
        /\ rec \in Seq(RecType)
    BY <1>1, TipBound DEF RInv, RTypeOK
  <2>1. ASSUME base' = base, rec' = rec
        PROVE  base <= base' /\ \A n \in 1 .. base : rec'[n] = rec[n]
    BY <2>0, <2>1
  <2>2. ASSUME NEW len \in RecLens, AppendEvent(len)
        PROVE  base <= base' /\ \A n \in 1 .. base : rec'[n] = rec[n]
    <3>1. base' = base
      BY <2>2 DEF AppendEvent, WalAppend
    <3>2. rec' = rec \/ \E x : rec' = Append(rec, x)
      BY <2>2 DEF AppendEvent
    <3>3. \A n \in 1 .. base : n \in 1 .. Len(rec)
      BY <2>0
    <3>4. \A n \in 1 .. Len(rec) : rec'[n] = rec[n]
      BY <2>0, <3>2
    <3> QED  BY <2>0, <3>1, <3>3, <3>4
  <2>3. CASE SubmitOrReap
    BY <2>1, <2>3 DEF SubmitOrReap, MaybeSubmit, Reap
  <2>4. ASSUME NEW i \in Inflight, DeviceDone(i) \/ DeviceFails(i)
        PROVE  base <= base' /\ \A n \in 1 .. base : rec'[n] = rec[n]
    BY <2>1, <2>4 DEF DeviceDone, DeviceFails, Complete
  <2>5. CASE Crash \/ ReadSkip \/ ReadRecord
    <3>1. UNCHANGED <<vars, rec>>
      BY <2>5 DEF Crash, ReadSkip, ReadRecord
    <3> QED  BY <2>1, <3>1 DEF vars
  <2>6. CASE Reopen
    <3>1. base' = Len(log) /\ rec' = log
      BY <2>6 DEF Reopen
    <3>2. /\ base <= Len(log) /\ Len(log) \in Nat
          /\ \A n \in 1 .. Len(log) : Wanted(n) => log[n] = rec[n]
      BY <1>1, <2>6, StopsBehind
    <3>3. \A n \in 1 .. base : n \in 1 .. Len(log) /\ Wanted(n)
      BY <2>0, <3>2 DEF Wanted
    <3> QED  BY <3>1, <3>2, <3>3
  <2> QED  BY <1>1, <2>2, <2>3, <2>4, <2>5, <2>6 DEF RNext
<1> QED  BY <1>1, RecoveryInvariant, PTL DEF RSpec, ReplayedStays
=============================================================================
