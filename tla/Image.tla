------------------------------- MODULE Image -------------------------------
(***************************************************************************)
(* State images and recovery from them: save_state_image and               *)
(* load_state_image (core/state_image.cpp), WalT::snapshot, and recover    *)
(* (wal/recovery.cpp), with the tables of module Tables rebuilt on the way. *)
(*                                                                         *)
(* The state is a column of trades with its index, a column of amounts by  *)
(* corporate action, and the idempotency set.  An event books a trade,     *)
(* applies an action, or opens a day, which closes trades and rotates the  *)
(* set; the handlers themselves are module Ledger.  How a crash tears the  *)
(* log itself is module LogRecovery: here the log loses some suffix that   *)
(* was not durable.  A file not yet written back loses any of its parts.   *)
(* Recovery takes a step for each image it tries and each record it reads, *)
(* and the next crash may interrupt it.                                    *)
(***************************************************************************)
EXTENDS Tables

CONSTANTS
  Trades, Keys,   \* ids of trades and of corporate actions
  MaxRows,        \* capacity of the trade table
  Window,         \* idempotency_window_days
  MaxEvents, MaxImages, MaxCrashes   \* bounds of the model

NoTrade == 0   \* the content of a column init has zeroed

ASSUME ImageAssumption ==
  /\ {MaxRows, Window, MaxEvents, MaxImages, MaxCrashes} \subseteq Nat
  /\ SlotsFor(MaxRows) <= TableSlots
  /\ Trades \cup Keys \cup {NoTrade} \subseteq DOMAIN Hash

VARIABLES
  s,        \* the partition's state
  log,      \* the events written to the log
  durable,  \* how many of them are durable
  images,   \* the image files
  phase,    \* "run", or where recover is: "load" (the images), "replay" (the log)
  untried,  \* the images load has not reached
  from,     \* report.image_lsn
  next,     \* the record the reader returns next
  crashes,  \* how many crashes there were
  tainted   \* history: some recovery went on after an image failed half way

recovery == <<phase, untried, from, next>>
vars == <<s, log, durable, images, recovery, crashes, tainted>>

\* The parts of an image in the order load reads them.  An image is intact up to
\* some part; the next one is the first that fails its CRC.
Parts == <<"header", "amounts", "rows", "keys">>

EmptyState ==
  [rows |-> <<>>, index |-> EmptyTable, amounts |-> [k \in Keys |-> 0],
   keys |-> EmptySet, day |-> 0, lsn |-> 0, halted |-> "no"]

-----------------------------------------------------------------------------
(* apply, as far as the tables are concerned. *)

\* Mutant: the index keeps the rows that trades had before the others were closed.
CompactedMut(st, closed) ==
  [st EXCEPT !.rows = Kept(@, {i \in DOMAIN @ : @[i] \notin closed})]

\* close_and_compact_trades: the rows close up and the index is built again; without
\* a trade to close nothing is touched.
Compacted(st, closed) ==
  LET open == {i \in DOMAIN st.rows : st.rows[i] \notin closed}
      kept == Kept(st.rows, open)
  IN  IF open = DOMAIN st.rows THEN st ELSE [st EXCEPT !.rows = kept, !.index = Indexed(kept)]

Booked(st, t) ==
  CASE Len(st.rows) >= MaxRows -> [st EXCEPT !.halted = "fatal"]
    [] Len(st.rows) < MaxRows /\ Has(st.index, t) -> st
    [] OTHER -> [st EXCEPT !.rows = Append(@, t),
                           !.index = InsertOrGet(@, t, Len(st.rows) + 1)]

Acted(st, k) ==
  CASE SetHas(st.keys, k) -> st
    [] ~SetHas(st.keys, k) /\ Refuses(st.keys.gen[st.keys.cur], k) -> [st EXCEPT !.halted = "fatal"]
    [] OTHER -> [st EXCEPT !.keys = SetInsert(@, k), !.amounts[k] = @ + 1]

Opened(st, closed) ==
  [Compacted(st, closed) EXCEPT !.keys = Rotated(@, st.day + 1, Window), !.day = @ + 1]

\* applied_lsn moves to the event in every case; a fatal event changes nothing else.
Apply(st, ev, lsn) ==
  LET done == CASE ev.type = "trade" -> Booked(st, ev.id)
                [] ev.type = "action" -> Acted(st, ev.id)
                [] OTHER -> Opened(st, ev.closed)
  IN  IF done.halted = "no" THEN [done EXCEPT !.lsn = lsn] ELSE [st EXCEPT !.halted = "fatal", !.lsn = lsn]

-----------------------------------------------------------------------------
(* save_state_image and load_state_image *)

\* Sum of the columns; the header carries it and load compares.
Checksum(amounts) == MapThenSumSet(LAMBDA k : amounts[k], Keys)

Saved(st) ==
  [lsn |-> st.lsn, count |-> Len(st.rows), day |-> st.day, cur |-> st.keys.cur,
   rot |-> st.keys.rot, sum |-> Checksum(st.amounts),
   rows |-> st.rows, amounts |-> st.amounts, keys |-> Records(st.keys)]

\* The state after an attempt to load, whether it succeeds or not: the sections
\* are read in order and the first that fails its CRC ends the attempt where it is.
\* Past the header init leaves columns of zeros, with the counts of the header; the
\* generation in use comes before the keys, and the scalars and the index last.
Loaded(st, img) ==
  LET h == img.content
      whole == img.good >= Len(Parts)
  IN  IF img.good = 0 THEN st
      ELSE [rows |-> IF img.good >= 3 THEN h.rows ELSE [i \in 1 .. h.count |-> NoTrade],
            index |-> IF whole THEN Indexed(h.rows) ELSE EmptyTable,
            amounts |-> IF img.good >= 2 THEN h.amounts ELSE [k \in Keys |-> 0],
            keys |-> IF whole THEN Restored(h.cur, h.rot, h.keys)
                     ELSE [gen |-> EmptySet.gen,
                           cur |-> IF img.good >= 3 THEN h.cur ELSE st.keys.cur,
                           rot |-> IF img.good >= 3 THEN h.rot ELSE st.keys.rot],
            day |-> IF whole THEN h.day ELSE st.day,
            lsn |-> IF whole THEN h.lsn ELSE st.lsn,
            halted |-> st.halted]

Intact(img) == img.good = Len(Parts) /\ Checksum(img.content.amounts) = img.content.sum

-----------------------------------------------------------------------------
(* What a crash leaves. *)

\* A section without elements has no bytes to fail on.
NoBytes(img, n) ==
  \/ Parts[n] = "rows" /\ img.content.rows = <<>>
  \/ Parts[n] = "keys" /\ \A g \in 1 .. 2 : img.content.keys[g] = <<>>

\* What a crash may leave of a file nothing waited for: any of its parts may be gone.
Left(img) ==
  {[img EXCEPT !.good = n] : n \in {n \in 0 .. img.good : n = img.good \/ ~NoBytes(img, n + 1)}}

\* Every way the files may be found after a crash.
AfterCrash(is) ==
  {f \in [is -> UNION {Left(i) : i \in is}] : \A i \in is : f[i] \in Left(i)}

-----------------------------------------------------------------------------
Init ==
  /\ s = EmptyState
  /\ log = <<>> /\ durable = 0
  /\ images = {} /\ crashes = 0
  /\ phase = "run" /\ untried = {} /\ from = 0 /\ next = 1
  /\ tainted = FALSE

\* A trade, an action, or a day that closes the oldest trade; any of them may have
\* been delivered before.
Events ==
  [type : {"trade"}, id : Trades] \cup [type : {"action"}, id : Keys] \cup
  {[type |-> "day", closed |-> IF s.rows = <<>> THEN {} ELSE {s.rows[1]}]}

\* The event is written to the log, then applied.
Process(ev) ==
  /\ phase = "run" /\ s.halted = "no" /\ Len(log) < MaxEvents
  /\ log' = Append(log, ev)
  /\ s' = Apply(s, ev, Len(log) + 1)
  /\ UNCHANGED <<durable, images, recovery, crashes, tainted>>

Commit ==
  /\ phase = "run" /\ durable < Len(log)
  /\ durable' = Len(log)
  /\ UNCHANGED <<s, log, images, recovery, crashes, tainted>>

\* The callers force the commit first and have a partition at work; snapshot itself
\* looks at neither.  The file is truncated and written in place.
Snapshot ==
  /\ phase = "run" /\ s.halted = "no" /\ durable = Len(log)
  /\ Cardinality({i \in images : i.content.lsn # s.lsn}) < MaxImages
  /\ images' = {i \in images : i.content.lsn # s.lsn}
                 \cup {[content |-> Saved(s), good |-> Len(Parts)]}
  /\ UNCHANGED <<s, log, durable, recovery, crashes, tainted>>

Crash ==
  /\ crashes < MaxCrashes
  /\ crashes' = crashes + 1
  /\ \E n \in durable .. Len(log), f \in AfterCrash(images) :
       /\ log' = SubSeq(log, 1, n)
       /\ durable' = n
       /\ images' = {f[i] : i \in images}
  /\ s' = EmptyState
  /\ phase' = "load" /\ untried' = images' /\ from' = 0 /\ next' = 1
  /\ UNCHANGED tainted

\* recover tries the images, newest first, until one is good.  Each attempt works on
\* the state the one before it left.
LoadImage ==
  /\ phase = "load"
  /\ \E i \in untried :
       /\ \A j \in untried : j.content.lsn <= i.content.lsn
       /\ s' = Loaded(s, i)
       /\ untried' = untried \ {i}
       /\ IF Intact(i) THEN phase' = "replay" /\ from' = s'.lsn ELSE UNCHANGED <<phase, from>>
  /\ UNCHANGED <<log, durable, images, next, crashes, tainted>>

\* No image was good: the log is replayed on what the attempts left.
EndImages ==
  /\ phase = "load" /\ untried = {}
  /\ phase' = "replay" /\ from' = s.lsn
  /\ tainted' = (tainted \/ \E i \in images : i.good >= 1)
  /\ UNCHANGED <<s, log, durable, images, untried, next, crashes>>

\* Mutant: the first record after the image is taken for part of it.
InImageMut(lsn) == lsn <= from + 1

\* Records up to the image's LSN are part of it.
InImage(lsn) == lsn <= from

\* The next record is skipped or applied.
ReadRecord ==
  /\ phase = "replay" /\ s.halted = "no" /\ next <= Len(log)
  /\ s' = IF InImage(next) THEN s ELSE Apply(s, log[next], next)
  /\ next' = next + 1
  /\ UNCHANGED <<log, durable, images, phase, untried, from, crashes, tainted>>

\* Replay stops at the first fatal event or at the end of the log.
Recovered ==
  /\ phase = "replay" /\ (s.halted = "fatal" \/ next > Len(log))
  /\ phase' = "run" /\ untried' = {} /\ from' = 0 /\ next' = 1
  /\ UNCHANGED <<s, log, durable, images, crashes, tainted>>

Next ==
  \/ \E ev \in Events : Process(ev)
  \/ Commit
  \/ Snapshot
  \/ Crash
  \/ LoadImage
  \/ EndImages
  \/ ReadRecord
  \/ Recovered

Spec == Init /\ [][Next]_vars

-----------------------------------------------------------------------------
(* The state the log stands for, without tables: sets and sequences. *)

Plain(st) ==
  [rows |-> st.rows, amounts |-> st.amounts, day |-> st.day,
   gen |-> [g \in 1 .. 2 |-> {k \in Keys : Has(st.keys.gen[g], k)}],
   cur |-> st.keys.cur, rot |-> st.keys.rot]

PlainInit == [rows |-> <<>>, amounts |-> [k \in Keys |-> 0], day |-> 0,
              gen |-> [g \in 1 .. 2 |-> {}], cur |-> 1, rot |-> 0]

PlainStep(r, ev) ==
  LET turn == r.rot # 0 /\ r.day + 1 - r.rot >= Window
      book == [r EXCEPT !.rows = IF \E i \in DOMAIN @ : @[i] = ev.id THEN @ ELSE Append(@, ev.id)]
      act == IF ev.id \in r.gen[1] \cup r.gen[2] THEN r
             ELSE [r EXCEPT !.gen[r.cur] = @ \cup {ev.id}, !.amounts[ev.id] = @ + 1]
      open == [r EXCEPT !.rows = Kept(@, {i \in DOMAIN @ : @[i] \notin ev.closed}),
                        !.day = @ + 1,
                        !.gen = IF turn THEN [@ EXCEPT ![3 - r.cur] = {}] ELSE @,
                        !.cur = IF turn THEN 3 - @ ELSE @,
                        !.rot = IF turn \/ r.rot = 0 THEN r.day + 1 ELSE @]
  IN  CASE ev.type = "trade" -> book [] ev.type = "action" -> act [] OTHER -> open

\* What the first n events make of an empty state, for every n.
PlainAfter(events) ==
  LET upto[n \in 0 .. Len(events)] ==
        IF n = 0 THEN PlainInit ELSE PlainStep(upto[n - 1], events[n])
  IN  upto

\* The events a state holds: all up to its LSN, but for a fatal one.
Held(st) == IF st.halted = "no" THEN st.lsn ELSE st.lsn - 1

\* I11 and I12: the state is a function of the log alone.  Whatever images there
\* were, however crashes tore them, whichever recovery started from and wherever the
\* next crash interrupted it, the state is what the events up to its LSN make of an
\* empty one.
StateIsTheLog == phase # "load" => Plain(s) = PlainAfter(log)[Held(s)]

\* The same, as long as no recovery went on from an image that failed half way with
\* no older one to fall back on.
StateIsTheLogUnlessTainted == ~tainted => StateIsTheLog

\* The index finds every row of the column and nothing else, after closings,
\* rotations and rebuilds (rebuild_indexes, close_and_compact_trades).
IndexMatchesRows ==
  ~tainted /\ phase # "load" => \A t \in Trades :
    Find(s.index, t) = (IF \E i \in DOMAIN s.rows : s.rows[i] = t
                        THEN CHOOSE i \in DOMAIN s.rows : s.rows[i] = t ELSE kEmpty)

\* No durable event is missing from the state a recovery ends with, even if the image
\* in use at the time of the crash is lost.
AckedIsInTheState == ~tainted /\ phase = "run" /\ s.halted = "no" => s.lsn >= durable
=============================================================================
