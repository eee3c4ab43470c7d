---------------------------- MODULE LogRecovery ----------------------------
(***************************************************************************)
(* A partition's log across crashes: the WAL (module Wal) writes groups to *)
(* the segment, a crash leaves any of the blocks in flight behind, the     *)
(* segment reader (wal/segment_reader.cpp) reads what is there record by   *)
(* record, and the log is reopened where it stopped (wal/recovery.cpp,     *)
(* WalT::open with a tail).                                                *)
(*                                                                         *)
(* The segment is a row of cells, BlockBytes to a block; a block is written*)
(* whole or not at all.  A cell is zero or one part of a record, and a     *)
(* record passes the CRC when all its parts are there in order.  An event  *)
(* is a number; the same LSN may be given to different events in different *)
(* lives of the log.  Recovery writes nothing, so a crash in the middle of *)
(* it is no case of its own.  There is one segment and no state image.     *)
(***************************************************************************)
EXTENDS Wal

CONSTANTS
  SegmentCells,  \* size of the segment, beyond its header; no group is written
                 \* past it (bound of the model: submit does not look at it)
  MaxEvents,     \* bound of the model: events ever appended
  MaxCrashes     \* bound of the model: crashes

ASSUME SegmentAssumption ==
  SegmentCells \in Nat /\ MaxEvents \in Nat /\ MaxCrashes \in Nat

VARIABLES
  disk,       \* the cells of the segment
  rec,        \* event, size and place of the record of each LSN of this life
  events,     \* how many events were appended in all lives
  crashes,    \* how many crashes there were
  phase,      \* "open": the log is in use; "read": it is being recovered
  offset,     \* SegmentReader::offset_
  resume,     \* SegmentReader::resume_offset_
  log,        \* the records the reader has handed out
  midblock,   \* history: a recovery stopped at a torn record inside a block
  acked,      \* history: records that were durable in some life
  dropped     \* history: events a recovery left out

readVars == <<phase, offset, resume, log>>
histVars == <<midblock, acked, dropped>>
allVars == <<vars, disk, rec, events, crashes, readVars, histVars>>

Zero == [lsn |-> 0, ev |-> 0, len |-> 0, part |-> 0]
Cells == 0 .. SegmentCells - 1

\* A new segment, all zeros.
RInit ==
  /\ Init
  /\ base = 0 /\ seg_offset = 0
  /\ disk = [c \in Cells |-> Zero]
  /\ rec = <<>>
  /\ events = 0
  /\ crashes = 0
  /\ phase = "open"
  /\ offset = 0
  /\ resume = 0
  /\ log = <<>>
  /\ midblock = FALSE
  /\ acked = {}
  /\ dropped = {}

-----------------------------------------------------------------------------
(* Writing.                                                                 *)

\* The cell of a record: which part of which record it holds.
Part(r, lsn, k) == [lsn |-> lsn, ev |-> r[lsn].ev, len |-> r[lsn].len, part |-> k]

\* The cells of the segment a record takes.
Span(r, lsn) == r[lsn].at .. r[lsn].at + r[lsn].len - 1

\* What the group puts in each of its cells; the rest of its last block is zero.
Image(g, c) ==
  IF \E lsn \in g.first .. g.token : c \in Span(rec, lsn)
  THEN LET lsn == CHOOSE lsn \in g.first .. g.token : c \in Span(rec, lsn)
       IN  Part(rec, lsn, c - rec[lsn].at)
  ELSE Zero

BlockOf(c) == c \div BlockBytes
CellsOf(g) == g.off .. g.off + g.len - 1
BlocksOf(g) == {BlockOf(c) : c \in CellsOf(g)}

\* The segment once the device has stored these blocks of these groups.
WithBlocks(gs, blocks) ==
  [c \in Cells |->
     IF BlockOf(c) \in blocks /\ \E i \in gs : c \in CellsOf(groups[i])
     THEN Image(groups[CHOOSE i \in gs : c \in CellsOf(groups[i])], c)
     ELSE disk[c]]

\* The records that became durable in this step.
NewlyAcked == {[lsn |-> n, ev |-> rec[n].ev] : n \in base + 1 .. durable_lsn'}

InSegment == seg_offset' <= SegmentCells

\* The record goes behind the bytes of its group, which will be written at
\* seg_offset_.
AppendEvent(len) ==
  /\ phase = "open"
  /\ events < MaxEvents
  /\ WalAppend(len)
  /\ InSegment
  /\ IF last_lsn' > last_lsn
     THEN /\ events' = events + 1
          /\ rec' = Append(rec, [ev |-> events + 1, len |-> len,
                                 at |-> seg_offset' + (cur'.len - len)])
     ELSE UNCHANGED <<events, rec>>
  /\ UNCHANGED <<disk, crashes, readVars, histVars>>

SubmitOrReap ==
  /\ phase = "open"
  /\ MaybeSubmit(TRUE) \/ Reap
  /\ InSegment
  /\ acked' = acked \cup NewlyAcked
  /\ UNCHANGED <<disk, rec, events, crashes, readVars, midblock, dropped>>

DeviceDone(i) ==
  /\ phase = "open"
  /\ Complete(i, "ok")
  /\ disk' = WithBlocks({i}, BlocksOf(groups[i]))
  /\ UNCHANGED <<rec, events, crashes, readVars, histVars>>

\* A short write or an error: the first blocks, or none.
DeviceFails(i) ==
  /\ phase = "open"
  /\ Complete(i, "fail")
  /\ \E b \in BlocksOf(groups[i]) :
       disk' = WithBlocks({i}, {a \in BlocksOf(groups[i]) : a < b})
  /\ UNCHANGED <<rec, events, crashes, readVars, histVars>>

\* The process is gone; of the writes in flight any blocks reached the disk.
\* What it held in memory stays in the variables until Reopen, unread.
Crash ==
  /\ phase = "open"
  /\ crashes < MaxCrashes
  /\ crashes' = crashes + 1
  /\ LET flying == {i \in Inflight : groups[i].dev = "flight"} IN
       \E blocks \in SUBSET UNION {BlocksOf(groups[i]) : i \in flying} :
         disk' = WithBlocks(flying, blocks)
  /\ phase' = "read"
  /\ offset' = 0
  /\ resume' = 0
  /\ log' = <<>>
  /\ UNCHANGED <<vars, rec, events, histVars>>

-----------------------------------------------------------------------------
(* SegmentReader::next, one turn of its loop a step.                        *)

\* Magic, length and CRC: all the parts of one record, from its header on.
IsRecord(d, o) ==
  LET h == d[o] IN
    /\ h # Zero /\ h.part = 0
    /\ o + h.len <= SegmentCells
    /\ \A k \in 0 .. h.len - 1 : d[o + k] = [h EXCEPT !.part = k]

\* Mutant: the zeros that pad a group end the log instead of being skipped.
SkipsMut(d, o) == d[o] # Zero /\ d[o].part > 0 /\ o % BlockBytes # 0

\* Padding or garbage inside a block: the reader goes on at the next block.
Skips(d, o) == (d[o] = Zero \/ d[o].part > 0) /\ o % BlockBytes # 0

\* Mutant: appending resumes at the block of the last record, not after it.
ResumeAfterMut(o, len) == Padded(o)

\* resume_offset_: the first block boundary after a valid record.
ResumeAfter(o, len) == Padded(o + len)

\* The record at the reader's place is valid and the next one in LSN order.
Accepts ==
  /\ offset < SegmentCells
  /\ IsRecord(disk, offset)
  /\ disk[offset].lsn = Len(log) + 1

ReadSkip ==
  /\ phase = "read"
  /\ offset < SegmentCells
  /\ Skips(disk, offset)
  /\ offset' = Padded(offset)
  /\ UNCHANGED <<vars, disk, rec, events, crashes, phase, resume, log, histVars>>

ReadRecord ==
  /\ phase = "read"
  /\ Accepts
  /\ log' = Append(log, [ev |-> disk[offset].ev, len |-> disk[offset].len,
                         at |-> offset])
  /\ offset' = offset + disk[offset].len
  /\ resume' = ResumeAfter(offset, disk[offset].len)
  /\ UNCHANGED <<vars, disk, rec, events, crashes, phase, histVars>>

EventsOf(r) == {r[n].ev : n \in DOMAIN r}

\* The reader stops: the segment ends, or what it finds is neither padding nor
\* the next record.  WalT::open goes on from the tail.
Reopen ==
  /\ phase = "read"
  /\ offset < SegmentCells => ~Skips(disk, offset)
  /\ ~Accepts
  /\ phase' = "open"
  /\ rec' = log
  /\ midblock' = (midblock \/ offset % BlockBytes # 0)
  /\ dropped' = dropped \cup (1 .. events \ EventsOf(log))
  /\ last_lsn' = Len(log)
  /\ base' = Len(log)
  /\ seg_offset' = resume
  /\ wal_halted' = FALSE
  /\ grp_halted' = FALSE
  /\ durable_lsn' = 0
  /\ cur' = NoGroup(0)
  /\ buf_free' = [b \in Buffers |-> TRUE]
  /\ buffers' = [b \in Buffers |-> Nothing]
  /\ groups' = <<>>
  /\ head' = 0
  /\ call' = "none"
  /\ written' = {}
  /\ UNCHANGED <<disk, events, crashes, offset, resume, log, acked>>

RNext ==
  \/ \E len \in RecLens : AppendEvent(len)
  \/ SubmitOrReap
  \/ \E i \in Inflight : DeviceDone(i) \/ DeviceFails(i)
  \/ Crash
  \/ ReadSkip
  \/ ReadRecord
  \/ Reopen

RSpec == RInit /\ [][RNext]_allVars

-----------------------------------------------------------------------------
\* Records the log holds in this life, replayed or appended since.
Holds(r) == r.lsn \in DOMAIN rec /\ rec[r.lsn].ev = r.ev

\* The state after a recovery still contains every event that was durable.
AckedSurvives == \A r \in acked : Holds(r)

\* One crash never loses a durable record, wherever it tore the groups in flight.
FirstRecoveryKeepsAcked == crashes <= 1 => AckedSurvives

\* Nor do several, unless an earlier one left a torn record inside a block.
CleanStopsKeepAcked == ~midblock => AckedSurvives

\* What a recovery replayed, every later recovery replays again, first, in the
\* same order and from the same place: nothing appended since overwrites it.
ReplayedStays ==
  [][base <= base' /\ \A n \in 1 .. base : rec'[n] = rec[n]]_allVars

\* A record that a recovery left out never comes back.
DroppedStaysDropped == EventsOf(rec) \cap dropped = {}
=============================================================================
