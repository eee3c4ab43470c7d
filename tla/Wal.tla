-------------------------------- MODULE Wal --------------------------------
(***************************************************************************)
(* The write-ahead log of one partition: WalT (wal/wal.hpp), the group     *)
(* commit engine GroupCommit (wal/group_commit.cpp) and the I/O backend it *)
(* writes through (wal/io_backend.hpp).                                    *)
(*                                                                         *)
(* One thread calls the WAL; the device runs beside it and ends each write *)
(* when and how it likes (Complete).  A record is its LSN and its size in  *)
(* bytes; the payload is not represented.  A group of records is built in  *)
(* one of NumBuffers buffers, submitted as one write of whole blocks, and  *)
(* made durable in submission order whatever the order of completions.     *)
(***************************************************************************)
EXTENDS Integers, Sequences

CONSTANTS
  NumBuffers,   \* kMaxBuffers: commit buffers
  MaxInflight,  \* kMaxInflight: capacity of the ring of groups in flight
  GroupBytes,   \* kMaxGroupBytes: capacity of a buffer
  BlockBytes,   \* block size: every write is padded to a multiple of it
  RecLens,      \* sizes of records offered to append
  Tails,        \* where a log may be opened: [lsn, off] of its last record
  MaxLsn        \* bound of the model: no LSN beyond it is handed out

ASSUME SizesAssumption ==
  /\ NumBuffers \in Nat \ {0}
  /\ MaxInflight \in Nat \ {0}
  /\ GroupBytes \in Nat \ {0}
  /\ BlockBytes \in Nat \ {0}
  /\ GroupBytes % BlockBytes = 0
  /\ MaxLsn \in Nat

ASSUME InputsAssumption ==
  /\ RecLens \subseteq Nat \ {0}
  /\ Tails \subseteq [lsn : Nat, off : Nat]

VARIABLES
  last_lsn,     \* WalT::last_lsn_
  seg_offset,   \* WalT::seg_offset_, where the next group goes
  wal_halted,   \* WalT::halted_
  grp_halted,   \* GroupCommit::halted_
  durable_lsn,  \* GroupCommit::durable_lsn_
  cur,          \* the group being built: buffer, bytes, first and last LSN
  buf_free,     \* GroupCommit::buf_free_
  buffers,      \* which LSNs the bytes of each buffer hold
  groups,       \* every group submitted since open, in order
  head,         \* how many of them left the in-flight ring
  call,         \* the call under way that has still to reap, or "none"
  base,         \* history: the LSN the log was opened at
  written       \* history: LSNs the device has stored in full

walVars == <<last_lsn, seg_offset, wal_halted, call>>
grpVars == <<grp_halted, durable_lsn, cur, buf_free, buffers, groups, head>>
vars == <<walVars, grpVars, base, written>>

Buffers == 0 .. NumBuffers - 1

\* cur_buf_idx_ when no buffer is free.
NoBuffer == NumBuffers

\* The LSNs a buffer holds; <<1, 0>> is an empty range.
Range2(first, last) == [first |-> first, last |-> last]
Nothing == Range2(1, 0)
Lsns(r) == r.first .. r.last

NoGroup(b) == [buf |-> b, len |-> 0, first |-> 0, last |-> 0]

Padded(n) == ((n + BlockBytes - 1) \div BlockBytes) * BlockBytes

\* inflight_[head_ .. tail_): in_use slots, in submission order.
Inflight == head + 1 .. Len(groups)

-----------------------------------------------------------------------------
(* WalT::open and GroupCommit::init.  Without a tail the segment is new and *)
(* lsn = 0; with one, appending goes on after the last valid record.        *)
Init ==
  \E t \in Tails :
    /\ last_lsn = t.lsn
    /\ seg_offset = t.off
    /\ base = t.lsn
    /\ wal_halted = FALSE
    /\ grp_halted = FALSE
    /\ durable_lsn = 0
    /\ cur = NoGroup(0)
    /\ buf_free = [b \in Buffers |-> TRUE]
    /\ buffers = [b \in Buffers |-> Nothing]
    /\ groups = <<>>
    /\ head = 0
    /\ call = "none"
    /\ written = {}

-----------------------------------------------------------------------------
(* Pieces of GroupCommit.                                                   *)

\* append: there is a current buffer and the record fits in it.
Fits(c, len) ==
  /\ len <= GroupBytes
  /\ c.buf # NoBuffer
  /\ c.len = 0 \/ c.len + len <= GroupBytes

\* append: the current group with one record more.
Grown(c, len, lsn) ==
  [c EXCEPT !.len = @ + len,
            !.first = IF c.len = 0 THEN lsn ELSE @,
            !.last = lsn]

\* append: the bytes of the record land in the current buffer.
Stored(bs, c) == [bs EXCEPT ![c.buf] = Range2(c.first, c.last)]

\* maybe_submit: the write request, as the in-flight slot remembers it.
Request ==
  [first |-> cur.first, token |-> cur.last, buf |-> cur.buf,
   off |-> seg_offset, len |-> Padded(cur.len),
   dev |-> "flight", seen |-> FALSE]

\* Mutant: the submitted buffer stays in the free list.
FreeAfterSubmitMut == buf_free

FreeAfterSubmit == [buf_free EXCEPT ![cur.buf] = FALSE]

\* Mutant: the sentinel for "no buffer" is off by one.
NextBufferMut(free) ==
  IF \E b \in Buffers : free[b]
  THEN CHOOSE b \in Buffers : free[b] /\ \A a \in Buffers : free[a] => b <= a
  ELSE NumBuffers + 1

\* maybe_submit: the lowest free buffer, or none.
NextBuffer(free) ==
  IF \E b \in Buffers : free[b]
  THEN CHOOSE b \in Buffers : free[b] /\ \A a \in Buffers : free[a] => b <= a
  ELSE NoBuffer

\* Mutant: the file offset does not move past the group.
SubmitGroupMut ==
  /\ Len(groups) - head < MaxInflight
  /\ groups' = Append(groups, Request)
  /\ buf_free' = FreeAfterSubmit
  /\ seg_offset' = seg_offset

\* What maybe_submit does when the backend accepts the write; cur' is left
\* to the caller, which may go on appending.
SubmitGroup ==
  /\ Len(groups) - head < MaxInflight
  /\ groups' = Append(groups, Request)
  /\ buf_free' = FreeAfterSubmit
  /\ seg_offset' = seg_offset + Padded(cur.len)

-----------------------------------------------------------------------------
(* WalT::append.  It fails with no effect when the log is halted or when    *)
(* the record does not fit and the forced submission is refused; those      *)
(* outcomes are stuttering steps.                                           *)

AppendToCurrent(len) ==
  /\ Fits(cur, len)
  /\ cur' = Grown(cur, len, last_lsn + 1)
  /\ buffers' = Stored(buffers, cur')
  /\ last_lsn' = last_lsn + 1
  /\ UNCHANGED <<seg_offset, buf_free, groups>>

\* Mutant: the LSN is spent even when the second attempt fails.
SubmitThenAppendMut(len) ==
  /\ len <= GroupBytes
  /\ ~Fits(cur, len)
  /\ cur.len > 0
  /\ SubmitGroup
  /\ LET fresh == NoGroup(NextBuffer(FreeAfterSubmit)) IN
       IF Fits(fresh, len)
       THEN /\ cur' = Grown(fresh, len, last_lsn + 1)
            /\ buffers' = Stored(buffers, cur')
            /\ last_lsn' = last_lsn + 1
       ELSE /\ cur' = fresh
            /\ last_lsn' = last_lsn + 1
            /\ UNCHANGED buffers

\* WalFull: the current group is submitted to make room, then append is
\* tried once more; with no free buffer it still fails, the group gone.
SubmitThenAppend(len) ==
  /\ len <= GroupBytes
  /\ ~Fits(cur, len)
  /\ cur.len > 0
  /\ SubmitGroup
  /\ LET fresh == NoGroup(NextBuffer(FreeAfterSubmit)) IN
       IF Fits(fresh, len)
       THEN /\ cur' = Grown(fresh, len, last_lsn + 1)
            /\ buffers' = Stored(buffers, cur')
            /\ last_lsn' = last_lsn + 1
       ELSE /\ cur' = fresh
            /\ UNCHANGED <<buffers, last_lsn>>

WalAppend(len) ==
  /\ call = "none"
  /\ ~wal_halted
  /\ last_lsn < MaxLsn
  /\ AppendToCurrent(len) \/ SubmitThenAppend(len)
  /\ UNCHANGED <<wal_halted, grp_halted, durable_lsn, head, call, base, written>>

-----------------------------------------------------------------------------
(* WalT::maybe_submit.  "due" is the outcome of now_ns >= cur_deadline_ns_. *)

SubmitCurrent ==
  /\ SubmitGroup
  /\ cur' = NoGroup(NextBuffer(FreeAfterSubmit))
  /\ UNCHANGED wal_halted

\* The submission fails: the ring of groups is full, or the backend refuses the
\* write (WalFull, or an error of the call).  Any such error stops the log.
SubmitHalts ==
  /\ wal_halted' = TRUE
  /\ UNCHANGED <<seg_offset, cur, buf_free, groups>>

\* Mutant: only a full group is ever submitted; the window does not count.
MaybeSubmitMut(due) ==
  /\ call = "none"
  /\ ~wal_halted
  /\ cur.len >= GroupBytes
  /\ SubmitCurrent \/ SubmitHalts
  /\ UNCHANGED <<last_lsn, grp_halted, durable_lsn, buffers, head, call, base, written>>

MaybeSubmit(due) ==
  /\ call = "none"
  /\ ~wal_halted
  /\ cur.len > 0
  /\ due \/ cur.len >= GroupBytes
  /\ SubmitCurrent \/ SubmitHalts
  /\ UNCHANGED <<last_lsn, grp_halted, durable_lsn, buffers, head, call, base, written>>

-----------------------------------------------------------------------------
(* GroupCommit::reap as WalT::reap calls it.                                *)

\* The slots after the completions the backend hands over are marked.
Marked ==
  [i \in DOMAIN groups |->
     IF i > head THEN [groups[i] EXCEPT !.seen = @ \/ groups[i].dev # "flight"]
                 ELSE groups[i]]

\* Mutant: a completed group retires whether or not it was written in full.
RetiresMut(n) ==
  /\ n \in 0 .. Len(groups) - head
  /\ \A i \in head + 1 .. head + n : Marked[i].seen
  /\ head + n < Len(groups) => ~Marked[head + n + 1].seen

\* The head of the ring moves over n groups: all completed in full, and the
\* next one either still in flight or failed.
Retires(n) ==
  /\ n \in 0 .. Len(groups) - head
  /\ \A i \in head + 1 .. head + n : Marked[i].seen /\ Marked[i].dev = "ok"
  /\ head + n < Len(groups) =>
       ~(Marked[head + n + 1].seen /\ Marked[head + n + 1].dev = "ok")

FailureSeen == \E i \in Inflight : Marked[i].seen /\ Marked[i].dev = "fail"

\* Mutant: a freed buffer is not handed to an append that waits for one.
GroupReapMut ==
  \E n \in 0 .. Len(groups) - head :
    /\ Retires(n)
    /\ groups' = Marked
    /\ head' = head + n
    /\ durable_lsn' = IF n = 0 THEN durable_lsn ELSE groups[head + n].token
    /\ buf_free' = [b \in Buffers |->
                      buf_free[b] \/ \E i \in head + 1 .. head + n : groups[i].buf = b]
    /\ cur' = cur
    /\ grp_halted' = (grp_halted \/ FailureSeen)

GroupReap ==
  \E n \in 0 .. Len(groups) - head :
    /\ Retires(n)
    /\ groups' = Marked
    /\ head' = head + n
    /\ durable_lsn' = IF n = 0 THEN durable_lsn ELSE groups[head + n].token
    /\ buf_free' = [b \in Buffers |->
                      buf_free[b] \/ \E i \in head + 1 .. head + n : groups[i].buf = b]
    /\ cur' = IF cur.buf = NoBuffer /\ n > 0
              THEN [cur EXCEPT !.buf = groups[head + 1].buf] ELSE cur
    /\ grp_halted' = (grp_halted \/ FailureSeen)

Reap ==
  /\ call = "none"
  /\ ~wal_halted
  /\ GroupReap
  /\ wal_halted' = grp_halted'
  /\ UNCHANGED <<last_lsn, seg_offset, buffers, call, base, written>>

-----------------------------------------------------------------------------
(* WalT::force_commit: submit whatever the window says, then reap.          *)

ForceCommit ==
  /\ call = "none"
  /\ ~wal_halted
  /\ \/ /\ cur.len = 0
        /\ call' = "force_commit"
        /\ UNCHANGED <<seg_offset, cur, buf_free, groups, wal_halted>>
     \/ /\ cur.len > 0
        /\ SubmitCurrent
        /\ call' = "force_commit"
     \/ /\ cur.len > 0
        /\ SubmitHalts
        /\ call' = "none"
  /\ UNCHANGED <<last_lsn, grp_halted, durable_lsn, buffers, head, base, written>>

ForceCommitReap ==
  /\ call = "force_commit"
  /\ GroupReap
  /\ wal_halted' = grp_halted'
  /\ call' = "none"
  /\ UNCHANGED <<last_lsn, seg_offset, buffers, base, written>>

(* WalT::await_durable with a deadline: one reap, and the log stops if the  *)
(* target is still beyond durable_lsn.  (Without one it only repeats Reap.) *)
AwaitDurable(target) ==
  /\ call = "none"
  /\ ~wal_halted
  /\ durable_lsn < target
  /\ GroupReap
  /\ wal_halted' = (grp_halted' \/ durable_lsn' < target)
  /\ UNCHANGED <<last_lsn, seg_offset, buffers, call, base, written>>

-----------------------------------------------------------------------------
(* The device ends a write: in full, storing what the buffer holds by then, *)
(* or short or with an error.                                               *)
Complete(i, how) ==
  /\ groups[i].dev = "flight"
  /\ groups' = [groups EXCEPT ![i].dev = how]
  /\ written' = IF how = "ok" THEN written \cup Lsns(buffers[groups[i].buf])
                              ELSE written
  /\ UNCHANGED <<walVars, grp_halted, durable_lsn, cur, buf_free, buffers, head, base>>

Next ==
  \/ \E len \in RecLens : WalAppend(len)
  \/ \E due \in BOOLEAN : MaybeSubmit(due)
  \/ Reap
  \/ ForceCommit
  \/ ForceCommitReap
  \/ \E target \in 1 .. last_lsn : AwaitDurable(target)
  \/ \E i \in Inflight, how \in {"ok", "fail"} : Complete(i, how)

Spec == Init /\ [][Next]_vars

(* The partition loop calls maybe_submit with an advancing clock and reap   *)
(* on every turn, so a window that has opened comes due and every           *)
(* completion is collected; the device ends every write it accepted.        *)
Fairness ==
  /\ WF_vars(MaybeSubmit(TRUE))
  /\ WF_vars(Reap)
  /\ WF_vars(ForceCommitReap)
  /\ WF_vars(\E i \in Inflight, how \in {"ok", "fail"} : Complete(i, how))

FairSpec == Spec /\ Fairness

-----------------------------------------------------------------------------
GroupType ==
  [first : Nat, token : Nat, buf : Buffers, off : Nat, len : Nat,
   dev : {"flight", "ok", "fail"}, seen : BOOLEAN]

\* The type of the state of WalT and GroupCommit.
TypeOK ==
  /\ last_lsn \in Nat
  /\ seg_offset \in Nat
  /\ wal_halted \in BOOLEAN
  /\ grp_halted \in BOOLEAN
  /\ durable_lsn \in Nat
  /\ cur \in [buf : 0 .. NumBuffers, len : Nat, first : Nat, last : Nat]
  /\ buf_free \in [Buffers -> BOOLEAN]
  /\ buffers \in [Buffers -> [first : Nat, last : Nat]]
  /\ groups \in Seq(GroupType)
  /\ head \in 0 .. Len(groups)
  /\ call \in {"none", "force_commit"}
  /\ base \in Nat
  /\ written \in SUBSET Nat

\* The last LSN handed to the device.
Tip == IF groups = <<>> THEN base ELSE groups[Len(groups)].token

\* In submission order the groups follow one another from the LSN the log was
\* opened at.
GroupsFollow ==
  \A i \in DOMAIN groups :
    /\ groups[i].first = (IF i = 1 THEN base ELSE groups[i - 1].token) + 1
    /\ groups[i].first <= groups[i].token

\* The group being built goes on where the last submitted one ends.
CurrentFollows ==
  /\ cur.len > 0 => cur.first = Tip + 1 /\ cur.first <= cur.last /\ cur.last = last_lsn
  /\ cur.len = 0 => last_lsn = Tip

\* I8: the LSNs in the order they reach the file have no gap and no repetition,
\* whether a group left by its window, by force or to make room for an append.
LogIsContiguous == GroupsFollow /\ CurrentFollows

\* The groups lie one after another in the segment: a group never overwrites
\* another one and leaves no hole for the reader to stop at.
FileIsTiled ==
  /\ \A i \in 1 .. Len(groups) - 1 : groups[i + 1].off = groups[i].off + groups[i].len
  /\ groups # <<>> => seg_offset = groups[Len(groups)].off + groups[Len(groups)].len

\* A buffer the device may still read holds exactly the records of its group:
\* append never writes into it and no other group has it.
BufferIsHeld ==
  \A i \in Inflight :
    /\ buffers[groups[i].buf] = Range2(groups[i].first, groups[i].token)
    /\ cur.buf # groups[i].buf
    /\ \A j \in Inflight : groups[j].buf = groups[i].buf => j = i

\* I9: every record up to durable_lsn, of this run of the log, is stored in full
\* on the device, whatever the order and the outcome of the completions.
DurableIsWritten == base + 1 .. durable_lsn \subseteq written

\* The contract core::Journal demands of a log (core/journal.hpp), with what is
\* stored: the records the log was opened with and those the device completed.
JournalContract == INSTANCE Journal WITH
  last <- last_lsn, durable <- durable_lsn, stopped <- wal_halted,
  stable <- 1 .. base \cup written

\* WalT implements the contract of core::Journal.
ImplementsJournal == JournalContract!Spec

\* An appended record does not stay behind: it becomes durable or the log stops.
EveryAppendSettles ==
  \A n \in 1 .. MaxLsn : (base < n /\ n <= last_lsn) ~> (durable_lsn >= n \/ wal_halted)

\* WalFull is transient: an append that finds no buffer gets one, or the log stops.
BackPressureEnds == (cur.buf = NoBuffer) ~> (cur.buf # NoBuffer \/ wal_halted)
=============================================================================
