# A TLA+ model of motor-rv-didatico

`motor-rv-didatico` is a post-trade engine for equities (custody, cash, settlement) written in
C++. Its accounts are split over partitions. Each partition is one thread that takes event frames
from an inbox, writes them to its own write-ahead log, applies them to its ledgers and lets the
resulting outputs out only when the log says they are durable. This directory holds TLA+ modules
for that path, from the TCP port to the ledgers, the log, the state images and recovery, with the
simulator that feeds it and the metrics server beside it. TLC configurations check them on small
instances, and TLAPS checks the proofs for every value of the constants.

Run TLC with `tlc -config X.cfg M` and the prover with `tlapm M.tla`. Names in the modules are the
names of the source where TLA+ allows it; I1 to I13 are the invariants of `docs/invariantes.md`.

## 1. Inventory

| Component (source below `src/`) | State | Operations | Correct when |
|---|---|---|---|
| Group commit (`wal/group_commit.*`) | 8 buffers, the group being built, a ring of 32 groups in flight, `durable_lsn_`, `halted_` | `append`, `maybe_submit`, `reap` | `durable_lsn` covers only stored records (I9), whatever order completions arrive in; a buffer in flight is not touched |
| Write-ahead log (`wal/wal.hpp`) | `last_lsn_`, `seg_offset_`, `halted_` | `open`, `append`, `maybe_submit`, `reap`, `force_commit`, `await_durable`, `snapshot` | LSNs are contiguous (I8), groups tile the file, it keeps the contract of `core::Journal` |
| I/O backends (`wal/io_backend.hpp`, uring, pwrite, fault) | SQ and CQ rings | `submit`, `poll` | each accepted write completes once |
| Segment reader, recovery (`wal/segment_reader.*`, `wal/recovery.*`) | cursor, expected LSN, resume point | `next`, `recover` | what was durable is replayed, what was dropped is not |
| Segments and format (`wal/segment.*`, `wal/wal_format.hpp`, `wal/block_align.*`, `wal/epoch.*`) | files | create, open, header checks | old bytes are not taken for new ones |
| Outbox (`core/outbox.*`) | ring of entries, circular payload buffer, `frozen_` | `stage`, `has_room`, `ready`, `commit`, `freeze` | nothing leaves early (I10), payloads arrive as staged, nothing after a fail-stop |
| Partition loop (`core/partition.hpp`) | `parado_`, metrics | `poll`, `force_commit` | no frame lost or logged twice; back-pressure ends |
| Apply and ledgers (`core/apply.cpp`, `core/ledger.*`, `core/trade_state.hpp`, `core/partition_state.*`) | positions by bucket, cash, trades, idempotency keys | one handler per event | conservation (I1, I3), pending = sum of pending trades (I2), each event effective once |
| State image (`core/state_image.*`) | a file | `save`, `load` | image plus log replay = state |
| Containers (`base/pair_index.hpp`, `base/dense_index.hpp`, `base/arena.hpp`) | hash tables, two generations of keys | insert, find, rotate | a key is remembered for its window |
| Arithmetic (`base/rounding.hpp`, `base/fixed.hpp`, `base/int128.hpp`) | none | rounding, scaling | nothing is created or lost |
| SPSC ring (`base/spsc_ring.hpp`) | two cursors, two cached copies | `claim`/`publish`, `peek`/`pop` | no slot read before written or overwritten before read |
| Ingress (`ingress/ingress_pipeline.*`, `ingress/tcp_server.*`, `ingress/partitioner.hpp`) | per client buffer, stalled flag | `feed`, `finish`, `poll_once` | frames in order, broadcasts to all partitions or to none |
| Simulator (`ingress/simulator.*`) | nets by account and date, legs to settle, settled positions | `gera`: nine phases a day | its nets and settlements are those the partition arrives at |
| Edge (`edge/*`, `base/metrics.hpp`) | snapshots, readiness, socket, stop pipe | copy, render, answer, stop | what is shown holds and does not go back; `stop` returns and closes nothing in use |
| Applications (`app/*`) | threads, command line | ingest and drain loops | all accepted input is drained |
| Codec and support (`codec`, `format`, `base/crc32c.cpp`, ...) | none | encode, decode, checksum | - |

How they interact. The ingress thread reads connections and the generated stream, cuts frames and
puts them in the inbox of a partition, or of all (SPSC rings). The
partition thread runs `Partition::poll` for ever: take a frame, `append` it to the log, `apply` it,
which may `stage` an output with the LSN of the event, and pop it; then `maybe_submit`, `reap`, and
publish what `durable_lsn` allows. The log hands whole groups to the backend; the device is the
second concurrent actor and ends writes in any order, in full, short or with an error. After a
crash the newest image that loads is taken, the segment is scanned, its later records are applied
and the log is reopened after the last valid one. The engine copies counters of the partitions into
a collector, which the thread of the metrics server reads without a lock.

What is hard: completions out of order; buffers shared with the device; three bounded resources
(inbox, buffers of the log, outbox) that back-pressure each other; failures that must stop the
partition at the right place; a crash that tears a group in the middle of a block, or an image in
the middle of a section; LSNs given out again after a recovery; accounting that must hold through
any order of repeated, late and refused events; lists linked through the rows of a table that is
compacted; broadcasts over inboxes that fill one by one. `PROJECT.json` lists each of these hazards
at its line, with the properties that would see it go wrong or a note on what is missing.

## 2. Modules

    Journal            what the core demands of a log (concept core::Journal)
       ^  implemented by                ^  used by
    Wal  <- MCWal, WalProofs         Partition  <- PartitionProofs
       ^                                |  extends
    LogRecovery                      Outbox
       <- MCLogRecovery, RecoveryProofs

    Rounding, Columns                Ring
       ^  extends                       ^  extends
    Ledger  <- MCLedger, LedgerProofs   Ingress <- MCIngress, IngressProofs
       ^  extends
    Session <- MCSession             Columns <- Tables <- Image <- MCImage, ImageProofs
                                     Edge <- EdgeProofs

    ColumnTheorems        compaction, linked lists and sums over finite sets, for the proof modules

**Journal** is the abstract specification: `append` gives the next LSN, the device makes records
stable in any order, `reap` may move `durable` only over a stable prefix, and an error stops the
log for good.

**Wal** is `WalT` over `GroupCommit` over a backend. A record is its LSN and its size. `cur` is the
group being built (`cur_buf_idx_`, `cur_used_`, first and last LSN), `groups` is every group
submitted since `open`, and `head` counts those that left the ring, so `head + 1 .. Len(groups)` is
the code's `inflight_[head_, tail_)`. `buffers` says which LSNs the bytes of a buffer hold; the
device stores what the buffer holds when it ends the write, so a buffer handed out too early shows
up as a wrong record on disk. Actions: `WalAppend` (with the submission that a full group forces),
`MaybeSubmit`, `Reap`, `ForceCommit` and `ForceCommitReap` (the device may act between its two
halves), `AwaitDurable`, and `Complete` for the device. An `append` that fails without effect is a
stuttering step.

**Outbox** has the ring of entries and the circular payload buffer byte by byte: each byte holds
the number of the output that wrote it last, so an overwritten payload is visible. `NoPlace`,
`Place` and `HasRoom` are the branches of `stage` and `has_room`.

**Partition** is the loop over any log that keeps `Journal`. One `poll` is a run of steps (`pc`)
between which the ingress thread and the device act. What `apply` does with a frame is a choice:
accepted or rejected without an output (`DrainQuiet`), accepted with one (`DrainOutput`), fatal
(`DrainFatal`). A refused `append` is `DrainEnd`.

**LogRecovery** puts a segment under `Wal`. The segment is a row of cells, `BlockBytes` to a block,
and a block is written whole or not at all. A cell is zero or part k of a record; the CRC accepts a
record when all its parts are there in order. `rec` has the event, the size and the place of each
record of this life of the log. `Crash` lets any set of the blocks in flight reach the disk. Then the
reader goes through the segment: `ReadSkip` and `ReadRecord` are the turns of the loop in
`SegmentReader::next`, which skip padding up to the next block or check a record and its LSN and move
the resume point; where neither is possible the reader stops, and `Reopen` opens the log at the
resume point. The LSN, epoch and segment are those of the earlier life, as in the code. Recovery
writes nothing, so a crash during it needs no action of its own. `InSegment` is a bound of the model:
no group is written past `SegmentCells`.

**Rounding** has the four rounding modes of `mul_div` and the scalings built on them, over unbounded
integers; `Quot` and `Rest` are the division of C++.

**Ledger** is `PartitionState` and the ten handlers of `apply.cpp`, one action each. `custody` and
`cash` are the columns of `CustodyLedger` and `CashLedger` by position and account, `window` the
three settlement dates, `trades` the trades by id, `applied` the two idempotency sets by generation,
`cap` the capacities. `rows` says which trade is in which row of the trade table; `first` and `next`
are the columns `account_first_trade` and `next_of_account`, links by row number with `Nil` for
`kNil`. `Unlink` walks a list as `unlink_trade` does and does nothing when it comes to the end,
`Relist` pushes the row on the list of the target in either case, and `Compacted` moves the rows up
and links them again, last to first. The loops of `BatchNetted` and `TradeSettled` take the trades
of the account that the walk comes by (`DueOn`). An action has one disjunct
for each way out of its handler: a fatal one (`halted` says why), a rejection, which may have
interned rows on the way, and the acceptance, which ends with the check of I3. An event that a
handler refuses before it touches anything is a stuttering step. `recent`, `booked` and `boughtIn`
are history. The handlers take owner, side and amounts of an event on trust. In `Spec` allocations
and settlements speak of trades as they are, while executions, corporate actions, incomes and days
come in any order, repeated, late or malformed, and a settlement of one share may come for a trader
who has no such trade; in `ForeignSpec` an allocation may also name a
source account that does not own the trade, which the handler does not notice.

**Columns** has what loops over columns do: `Kept` is the compaction, `Walked` the rows that a walk
along links comes by, also along links that lead in a circle, and `NextOf` the links that the
rebuilding loop makes.

**Session** is `gera` of the simulator against `Ledger`: each phase of a day is an action that
updates the simulator's own maps (`net`, `pernas`, `posicao`) and applies the event it emits. The
source generates the whole session first; as it never reads the partition, generating and applying
event by event is the same.

**Ring** is `SpscRing` as a record of cursors, cached copies and slots, each call an operator.
**Ingress** puts it under `IngressPipeline` and `TcpIngressServer`: the serving thread steps through
`poll_once` (`pc`, `at`), through `feed` frame by frame, and through a broadcast inbox by inbox;
clients send, close and break; each partition peeks and pops at its own pace and may stop. A frame
is a header and a payload, and a chunk may end between them. A frame has the number it has in its
stream; `kept` holds the numbers of the generated frames that found room in the local buffer, as
`motor_main` loses the others.

**Tables** is open addressing with linear probing (`DenseIndex`, `PairIndex`) and the set of two
generations. **Image** uses them in a partition whose events book a trade, apply a corporate action
or open a day. `Saved` and `Loaded` are `save_state_image` and `load_state_image`, the latter
section by section with what a failed attempt leaves. `Crash` loses what was not durable and tears
any image that nothing waited for. `recover` is then a run of steps (`phase`): `LoadImage` for each
image it tries, newest first and each on the state the one before left, `EndImages` when none was
good, `ReadRecord` for each record, which is skipped up to the image's LSN and applied after it, and
`Recovered` at the end of the log or at a fatal event. The next crash may come between any two.
`PlainStep` is the reference: the same events over sets and sequences, without tables or images, and
`PlainAfter` what a log stands for.

**Edge** is the engine's thread copying counters field by field and the worker of `MetricsServer`
rendering them field by field, with `start`, `stop`, the stop pipe and the accept loop. Clients may
connect without end; `Backlog` bounds only how many wait at a time (32 in the code). The fields of a
snapshot are grouped by what moves them. Counts of refusals (`wal_full`, `outbox_full`) and the
counters of `update_ingress` are left out.

The `MC` modules only give constants their values. Definitions whose
name ends in `Mut` are deliberate faults, one for each property, and no specification uses them:
substituted for the definition that follows them they make the property fail. Two of those of
`Session` are faults that the comments of the simulator say it once had.

## 3. Runs

| Run | Module, cfg | What it asks | Result |
|---|---|---|---|
| `wal` | MCWal, MCWal.cfg | type, `LogIsContiguous` (I8), `FileIsTiled`, `BufferIsHeld`, `DurableIsWritten` (I9), `ImplementsJournal`, `EveryAppendSettles`, `BackPressureEnds` | holds |
| `partition` | Partition, MCPartition.cfg | type, `NoEarlyOutput` (I10), `PayloadIntact`, `FramesLoggedOnce`, `NothingAfterStop`, `InboxDrains`, `OutboxDrains` | holds |
| `recovery` | MCLogRecovery, MCLogRecovery.cfg | `FirstRecoveryKeepsAcked`, `CleanStopsKeepAcked`, `ReplayedStays` | holds |
| `ledger` | MCLedger, MCLedger.cfg | type, `NegativeBucketStops` (what is kept of I3), `PendingCashIsTheTrades` (I2), `ListsMatchOwners`, `AcceptedOncePerWindow` (I6), `BookedOnce`, `NothingAppearsOrVanishes` (I1) | holds |
| `session` | MCSession, MCSession.cfg | `NetsAgree`, `OnlyMeantExceptions`, `DueTodayIsSettled`, `LegsAgreeUnlessSplit` | holds |
| `ingress` | MCIngress, MCIngress.cfg | `RingsSafe`, `DeliveredOnceInOrder`, `BroadcastsAgree`, `EverythingArrives` | holds |
| `image` | MCImage, MCImage.cfg | `StateIsTheLogUnlessTainted` (I11, I12), `IndexMatchesRows`, `AckedIsInTheState` | holds |
| `edge` | Edge, MCEdge.cfg | `HealthAnswersHold`, `CountersNeverGoBack`, `DescriptorsOutliveWorker`, `StopReturnsOnceQuiet` | holds |
| `torn_tail` | MCLogRecovery, MCTornTail.cfg | `AckedSurvives`: what was durable survives any number of crashes | violated |
| `ghost_group` | MCLogRecovery, MCGhostGroup.cfg | `DroppedStaysDropped`: what a recovery left out never comes back | violated |
| `partial_image` | MCImage, MCPartialImage.cfg | `StateIsTheLog`: the state after a recovery is a function of the log | violated |
| `short_split` | MCLedger, MCShortSplit.cfg | `NoNegativeBucket`: I3 as the documents state it | violated |

Three more configurations show violations too. They are kept for the reader and are not runs of
`PROJECT.json`: two show what the code does with inputs that its own handlers and simulator do not produce today
(outputs as large as their reservation, allocations in the name of another account), the third a
fault of the simulator, not of the engine.

| Configuration | What it asks | Result |
|---|---|---|
| Partition, MCOutbox.cfg | `PayloadIntact` with outputs as large as the reservation | violated |
| MCLedger, MCForeignAllocation.cfg | `ListsMatchOwners` when allocations may name another source account | violated |
| MCSession, MCSplitInFlight.cfg | `LegsAgree`: simulator and partition agree on every quantity to be settled | violated |

Bounds, and why they are enough for the cases that matter:

- `wal`: two buffers and at most three groups in flight, so every buffer can be in flight and
  `append` meets the "no buffer" sentinel, as in the code, where 8 buffers are fewer than 32 slots.
  Records of 1 and 3 bytes in groups of 4 with blocks of 2 give full groups, partly full ones,
  padding, and an `append` that must submit first. Five LSNs give four groups and each buffer is
  used more than once. The log starts new or reopened after two records.
- `partition`: an inbox of one slot, two events in a turn, an outbox of eight slots and four bytes
  with a reservation of four slots and two bytes. Five frames fill the payload buffer, wrap it over
  pending outputs and hit each back-pressure (of the outbox, that of its bytes; `MCOutbox.cfg`
  meets that of its slots). Outputs are smaller than the reservation, as in the code, where an output has 32
  bytes and an event reserves 256.
  `MCOutbox.cfg`: outputs of up to the whole reservation, which is what `partition.hpp:60`
  declares that an event may produce.
- `recovery`, `torn_tail`: groups of up to four cells in blocks of two, so that a record may start
  inside the block in which the previous one ends, or span two blocks; four events, two crashes, and a
  segment that the groups can fill.
  `ghost_group` has groups of one block, so that a group can be replaced by one of the same size.

- `ledger`: two accounts (one of which executes and the other takes allocations), one instrument,
  two trades, three days and two actions; a share has two raw units, so that a grouping two to one
  leaves half shares, and the split one to two of the simulator is there as well. Two trades on one
  list have every case of `unlink_trade` (first row, a later one, the only one), and a compaction that
  moves a row. Three capacities divide the work, since all of it at once is too large: with room for two
  trades there are short sales and one split; with one trade, every kind of corporate action and a
  table of positions that fills; with a table of accounts that fills, purchases, incomes,
  reconciliation and the end of the day. Dates are in the window or one past it, and the window moves twice, so that a
  trade can fail, fall due, be bought in and be delivered again after it was closed.
  `short_split` and `MCForeignAllocation.cfg` have the same instance.
- `session`, `MCSplitInFlight.cfg`: four days, so that trades of the first two settle, fail and are split
  (two for one) within the run; one investor with two trades a day, or two with one, of whom the
  simulator splits only the first.
- `ingress`: rings of one slot, two partitions, two connections and the local stream; three
  scripts, in which broadcasts of two streams meet, a stream has every kind of bad frame, and the
  local buffer overflows. With one slot every cached cursor is stale at some time.
- `image`: two trades and two keys that all hash to the last slot of a table of four, so that probes
  wrap; three events, two images and two crashes, the second of which may interrupt the recovery from
  the first. `partial_image` needs two events and one crash.
- `edge`: two partitions, one event, one connection waiting while another is served, and any number
  of them in time; each may see a copy half done.

Deadlock is not checked: a log or a partition that stopped on an error is meant to do nothing more,
and the bounds on LSNs, frames, events and days end every other behaviour.

### What the violations show

1. `torn_tail`. The log resumes at the block after the last valid record and clears nothing. A torn
   record that begins in the block of the last valid one stays before the resume point. The next
   recovery stops there and does not see what was made durable after the first.
   `CleanStopsKeepAcked` shows that this is the only way: as long as no scan stopped inside a
   block, any number of crashes keeps every durable record.
2. `ghost_group`. A complete group behind a failed one is left out by recovery but stays on disk,
   with an epoch and LSNs that the next life uses again. When the new group in the gap has the same
   size and last LSN, the old group is a valid continuation and its events are replayed.
3. `partial_image`. `load_state_image` sets counts and copies columns before it has verified all
   sections, and `recover` goes on when it fails. With no other image the log is replayed from the
   start over what the attempt left. `StateIsTheLogUnlessTainted` shows that this is the only way:
   an older image that loads wipes the residue, and an image that fails in its header leaves none.
4. `short_split`. `scale_qty_trunc` rounds toward zero and gives the fraction back; of the negative
   free quantity of a short position that is a negative fraction, which joins the leftovers. I3
   allows no negative leftovers in any case, and the check at the end of the handler stops the
   partition at an ordinary event of the exchange (in a build with assertions, the process).
   `NegativeBucketStops` shows that this is the only way to a negative column, and that the partition
   never goes on with one. `docs/revisao-2026-09-03.md` reports it as well.
5. `MCOutbox.cfg`. `stage` takes `buf_head_ >= vivo` for "not wrapped". After a wrap that ends
   exactly at the oldest pending payload the buffer is full and the two are equal; `has_room` then
   says yes and the next `stage` writes over pending payloads. No event of today's `apply` produces
   more than 32 of its 256 reserved bytes, so an exact fit does not arise; the reservation alone,
   which the comment relies on, does not exclude it.
6. `MCForeignAllocation.cfg`. `apply_trade_allocated` does not compare `from_account` with the owner of
   the trade and drops the answer of `unlink_trade`. If that account has enough pending quantity of its
   own the event is accepted: the row is not on its list, is pushed on the list of the target, and the
   links of the owner lead into that list, are cut, or lead in a circle. What the owner has due is then
   passed over by `BatchNetted` and `TradeSettled`, whose check of the owner guards against trades of
   others only. The comment at `core/apply.cpp:81-82` calls a failed search "informação, não erro
   silencioso"; the only caller, at line 389, drops it.
7. `MCSplitInFlight.cfg`. The simulator sends a split of two for one and leaves its own legs as they were,
   while the partition doubles what is pending. Half of it is settled, for all of the money, and the
   rest stays pending until its date passes and falls overdue, although `ingress/simulator.hpp:23-26`
   counts on the two computations reaching the same numbers. `LegsAgreeUnlessSplit` shows that only
   accounts that were split are concerned and that the partition always has enough to settle.

### Fairness

Liveness is checked under assumptions that the busy-poll loop justifies. In `wal`: the loop calls
`maybe_submit` with an advancing clock and `reap` on every turn (weak fairness), and the device
ends every write it accepted. Nothing is assumed of the outcome, which may be a failure each time.
In `partition`: each step of the loop is taken (weak fairness); `poll` is called again and again even
if `force_commit` is called in between, `append` does not fail for ever on a log that has not
stopped, and `reap` does move over what is stored (strong fairness). The last two are what
`BackPressureEnds` and `EveryAppendSettles` show of `Wal`. In `ingress`: the serving thread and the
thread of each partition keep running (weak fairness); nothing is assumed of the clients, and the
claim is about a connection that was closed in order, because only that makes `poll` report it for
certain: a client that stays connected and silent may keep frames waiting. In `edge`: both threads
run; nobody has to connect. `StopReturnsOnceQuiet` says that `stop` returns or clients connect again
and again for ever, because the accept loop looks neither at `running_` nor at the stop pipe while
somebody is waiting: under a steady stream of clients `stop` need not return.

## 4. Proofs

The theorems hold for every value of the constants: any number and size of buffers, blocks, slots,
records, partitions, connections, accounts and trades, and behaviours of any length. They assume
what the modules assume of their constants, named and evaluated by TLC on every run: sizes are
positive, a buffer is a whole number of blocks (`SizesAssumption`), records are not empty
(`InputsAssumption`), the outbox has room for something (`OutboxAssumption`), outputs fit in the
reservation (`LoopAssumption`), a ring has a slot (`RingAssumption`), streams are sequences
of frames and the generated one has none that `feed` refuses (`IngressAssumption`), amounts are integers, dates and capacities natural numbers
(`LedgerAssumption`, `ScaleAssumption`), a key hashes to a slot (`TableAssumption`) and a table has the
slots `init` gives it for its capacity (`ImageAssumption`), and there is a partition to watch (`EdgeAssumption`). One
theorem has a condition of its own, `PartitionPayloads` below.

*WalProofs.* The inductive invariant is `IInv`: the type, `GroupsFollow`, `CurrentFollows`,
`FileIsTiled`, `BufferIsHeld`, and four parts that the properties do not state but need:
`Accounted` (the current buffer is marked free, those of groups in flight are not, and the current
one holds the records of the group being built), `Ordered` (the groups are in LSN order, up to the
tip), `Covered` (every LSN up to the tip is in some group) and `Completed` (a write that ended well
has stored the records of its group, every group that left the ring ended well, and `durable_lsn`
is the token of the last of them). I9 is not inductive alone: that a completion stores the right records rests on
`BufferIsHeld`, which rests on the accounting of free buffers, and that the stored records are a
prefix rests on `Ordered` and `Covered`, which follow from `GroupsFollow`. Theorems: `WalTypeOK`, `WalContiguous` (I8), `WalTiled`,
`WalBuffersHeld`, `WalDurable` (I9), and `WalImplementsJournal`: every step of `Wal` is a step of
`Journal` or a stutter, with `stable` mapped to the records the log was opened with and those
written since. The refinement also needs that the device writes no LSN beyond `last_lsn`
(`Bounded`).

*RecoveryProofs.* The question is whether a reader that knows only the cells on disk goes exactly
through the records that were durable. `Path` says what that takes: each record is on disk in one
piece, and from the end of one the reader gets to the next, at once or by skipping the rest of a
block. The inductive invariant `RInv` is `IInv` of the log with `Placed` (records lie in LSN order,
those of a group one behind the other from its first cell, and the groups of this life past the block
in which the last replayed record ends), `Kept` (stored groups are on disk with their padding, the
replayed records are a `Path`, and unless a scan stopped inside a block the reader gets from the last of
them to where this life began writing), `Acknowledged` (every record that was ever durable was
replayed or is durable in this life, unless a scan stopped inside a block), `Reading` (what the reader
has handed out is a `Path` and it stands at its end, or past the padding behind it) and `Follows` (as
far as that is safe, it handed out the records of the life that crashed). The step that takes the
argument is `Reopen`: a reader that stops has all of the durable prefix behind it, because at an
earlier place one of `ReadSkip` and `ReadRecord` would still be possible. `Crash` keeps the invariant
because a torn block belongs to a group in flight, and by `FileIsTiled` no stored group and no
replayed record shares a block with it. Theorems: `RecoveryInvariant`, `RecoveryFirst`,
`RecoveryCleanStops` and the action property `RecoveryReplays`. They assume `SizesAssumption`,
`InputsAssumption` and `SegmentAssumption` only. The first scan that stops inside a block is allowed
for in `RecoveryFirst`: its own result is still right, it is the next one that can lose records
(`torn_tail`).

*PartitionProofs.* The inductive invariant `PInv` is the type, `Gate` (what left is covered by
`durable`, and `1 .. durable` is stable), `Frozen` (a stopped partition has a frozen outbox) and
`FramesLoggedOnce`. Theorems: `PartitionTypeOK` (which includes that a payload is placed inside the
buffer), `PartitionNoEarlyOutput` (I10), `PartitionFramesOnce`, `PartitionStops`. As the loop is
specified over `Journal` and `Wal` implements `Journal`, I10 carries over to the real log.

`PartitionPayloads` proves `PayloadIntact` under the condition that no output is as large as the
reservation. It needs `Laid`, which says how the pending payloads lie in the circular buffer: in
order up to the head, and, after a wrap, those not yet wrapped strictly above the head. "Strictly"
is what lets `stage` tell a wrapped buffer from one that is not, and it is what the condition buys:
`MCOutbox.cfg` loses a payload without it. In the code an output has 32 bytes and an
event reserves 256.

*LedgerProofs.* `LInv` has a part for each group of variables. `WindowInv`: the window is closed or
three days in a row. `TablesInv`, `QueueInv`: rows within capacity. `BooksInv`: the columns of every
position, where a column may be negative only as I3 allows, leftovers of a short position apart.
`TradesInv`: a trade in the table has the
date it was booked for; a trade that was booked is in the table or its date is past (which is why a
repeated execution is refused even after `close_and_compact_trades` forgot it); a trade that was bought
in had failed. `ListsInv`: the rows hold each trade once, and the lists are `Threaded` through
them: a link joins rows of one owner, no two links lead to the same row and none to a head, and every
set of rows that has the head of an account and is closed under the links has all rows of the account.
`KeysInv`: a key accepted in the
retention window is in the generation in use, or in the other one and accepted before the last
rotation (which is why the rotation that empties the older one forgets nothing too early). The last
part is I2 itself. There is a lemma for each handler of `apply.cpp` and each part it can disturb.
Theorems: `LedgerType`, `LedgerBuckets` (`NegativeBucketStops`), `LedgerPendingCash` (I2), `LedgerLists`,
`LedgerBookedOnce`, `LedgerIdempotency` (I6), and the action property `LedgerNothingVanishes` (I1).

`LedgerBuckets` takes one more invariant, `LeftoversInv`: a partition that I3 has not stopped has no
negative leftovers. It is kept because a handler leaves leftovers alone or ends with the check of every
row it wrote.

`LedgerLists` is about walks, and a walk comes by the least set of rows that has the head and is closed
under the links. By `Threaded` that is the set of the owner's rows; as no row is led to twice and no
head at all, the walk ends. The lemmas of `ColumnTheorems` say how lists change: a row pushed on a list
(`ListPush`), the first row or a later one taken off it (`ListDropFirst`, `ListDropLater`, where
`RowBefore` says that the walk of `unlink_trade` does come by the row and that exactly one row leads to
it), and the links that the rebuilding loop makes of any column of owners (`ListsRethreaded`).
It holds for `Spec`, in which allocations name the owner, and is false for `ForeignSpec`.

I2 is about sums, and `ColumnTheorems` provides them: `SumFunctionOnSet` of the community modules is a
recursive function on the subsets of a set, and its unfolding, its independence from the order of
the elements and the rules for adding, removing and splitting are proved by taking the smallest
subset for which they would fail.

The module begins with the arithmetic below `apply`: the branches of `mul_div` against the exact
quotient, measured by the error `d * r - n`. Half to even is a nearest integer and even on a tie, half
up is a nearest integer and away from zero on a tie, truncation falls short by less than one unit on
either side of zero, rounding down is the floor; `scale_qty_trunc` splits a scaled holding exactly.

*ImageProofs.* The argument has three layers. Tables: `TableOK` says that no key is in two slots and
that the probe for a stored key meets it before any free slot. The step is `InsertOK`: a key put where
its own probe ends breaks no other probe, and the probe ends at a free slot because the load factor
leaves one. Nothing is ever taken out of a table, so this is all that linear probing needs. Loops: what
`close_and_compact_trades`, `for_each` and the rebuilds do with a column or a slot array of any length
(`Kept`, `Filled`, recursive functions) is proved by taking the least length for which it would fail,
with the existence of the function proved the same way. So a compaction keeps the order and the
distinctness of rows, a rebuilt index finds each of them at its row, and a generation of keys saved in
slot order and inserted again, in an order in which its probes may end in other slots, has the same
keys and refuses none. States: `ApplyOK` says that an event makes of a good state what `PlainStep`
makes of its content or is fatal and leaves it, `SavedOK` and `LoadedOK` that an image has the content
of the state it was saved from and loads to a good state with that content, whatever was there before.
The inductive invariant `IInv` says, until a recovery goes on from a residue: each image holds what the
log up to its LSN stands for and all of that is durable, so no crash takes it from the log; while
images are tried the state is the empty one unless some image got past its header; while records are
read the state holds the image or the records up to the last one read, whichever is more; otherwise it
holds the whole log. Theorems: `ImageInvariant`, `StateFollowsLog` (I11, I12), `IndexFollowsRows`,
`AckedInState`. They hold for every function from keys to slots, also one that sends all keys to the
same slot.

*IngressProofs.* For one ring: two cursors less than a ring apart are in different slots; each call
keeps the cursors and their stale copies in order; publishing appends to the contents and popping
takes off the oldest. `RInv` lifts that to all inboxes and adds that a slot that was claimed and not
yet published is free by the producer's own copy of `tail`, which gives `IngressRingsSafe`. For
`IngressBroadcastsAgree` the invariant `InStep` says that one list of broadcasts underlies what was
sent to every partition: each has all of it in order, but for the broadcast being published, which
the remaining targets still wait for. It is kept because `route_and_dispatch` claims everywhere
before it publishes anywhere and because the frame in hand does not change until the last target has it.
`IngressDelivered` says of every stream and partition that what was published so far is exactly what
was consumed and meant for it, in increasing order, plus the frame half way through a broadcast.
Its invariant `DInv` adds to the rings: consumed, read and sent never overtake each other and the
numbers in the local buffer increase (`Stages`, `LocalStages`), so that the frame in hand is later
than all before it; a frame with slots claimed is whole and its remaining targets are among its own
(`InHand`); a connection is in the backlog or in `clients_` once, and the one being fed is the one
being served (`Serving`); and a stream whose header was malformed belongs to a connection that is
closed or about to be (`Spoiled`), without which what follows a discarded buffer could be read as
frames at the wrong place.

*EdgeProofs.* `EInv`: values only move downstream, from partition to snapshot to collector to page,
and the later place never holds more than the earlier one (`Downstream`); the worker runs only
between `start` and the end of `stop` (`Lives`); while `/healthz` goes through the partitions, each
failure known when the request came is still ahead or was found (`Ahead`). Theorems:
`EdgeHealthAnswers`, `EdgeDescriptors`, and the action property `EdgeCounters`.

*Only model-checked.*

- Everything under fairness (`EveryAppendSettles`, `BackPressureEnds`, `InboxDrains`,
  `OutboxDrains`, `EverythingArrives`, `StopReturnsOnceQuiet`): out of the prover's reach.
- `Session`: `NetsAgree`, `OnlyMeantExceptions`, `DueTodayIsSettled` and `LegsAgreeUnlessSplit` do not hold for all values of
  the constants. They speak of the simulator with a partition sized for it: a table that fills, a
  position that covers the lot meant to be refused, or a calendar whose D+2 is not two entries ahead
  breaks them. The instance has tables with room, such a lot and such a calendar.

## 5. Not modelled, and the plan

Not modelled for good: codec and checksums (a CRC is "all of the record is there"), file creation
and alignment probes, CSV files and the command line (pure I/O), the text of the metrics pages, the
audit (only tests call it), the arena (memory), `shutdown` and `close` (the end of a life of the
log), and the benchmarks.

Simplified:

- There is one segment, as the code never rotates to a second one; a record never exceeds a buffer
  in the instances; the deadline of the commit window is a free choice instead of a clock.
- Integers are unbounded: the range checks of `apply.cpp`, the aborts of `base/fixed.hpp` and the
  results that `mul_div` narrows without a check have no counterpart.
- The ledger is that of one partition. An allocation that `IngressPipeline` routes to another
  partition than the one holding the trade is not modelled (a hazard in `PROJECT.json`).
- Instruments are interned without a limit; the column `blocked`, which no event moves, is left out.
- The SQ ring of io_uring is liburing's: a write is accepted or refused.
- In `Image` a snapshot is taken after a forced commit and of a partition that has not stopped, as the
  callers do (`tests/chaos/test_recovery_chaos.cpp`); `WalT::snapshot` checks neither.
- Each attempt to load an image finds the memory it needs. In the code every attempt that gets past
  the header runs `init` on the same arena, so that one on an older image may run out of it.

What is left: proofs of the properties of `Session` under assumptions that tie the capacities, the lots
and the calendar to the number of trades of a session.
