----------------------------- MODULE Partition -----------------------------
(***************************************************************************)
(* The loop of a partition (core/partition.hpp) over its inbox, its log    *)
(* and its outbox.  The log is any that keeps the contract of              *)
(* core::Journal (module Journal), as the C++ template is over the concept.*)
(*                                                                         *)
(* One call of poll is a run of steps in a fixed order: drain and apply,   *)
(* maybe_submit, reap, publish.  The ingress thread and the device act in  *)
(* between.  Frames are numbered in order of arrival; what apply does with *)
(* a frame is a choice among its three classes of result.                  *)
(***************************************************************************)
EXTENDS Outbox

CONSTANTS
  InboxCap,        \* slots of the SPSC ring
  Batch,           \* kBatch: events applied in one turn
  ReserveEntries,  \* kMaxOutputsPerEvent
  ReserveBytes,    \* kMaxOutputBytesPerEvent
  OutLens,         \* sizes of the outputs an accepted event may stage
  Starts,          \* last LSN of the log when the partition starts
  MaxFrames        \* bound of the model: frames that ever arrive

ASSUME LoopAssumption ==
  /\ InboxCap \in Nat \ {0}
  /\ Batch \in Nat \ {0}
  /\ ReserveEntries \in Nat \ {0}
  /\ ReserveBytes \in Nat \ {0}
  /\ OutLens \subseteq 1 .. ReserveBytes
  /\ Starts \subseteq Nat
  /\ MaxFrames \in Nat

VARIABLES
  last, durable, stopped, stable,  \* the log, as in module Journal
  arrived,    \* frames the ingress has published
  popped,     \* frames the loop has popped
  pc,         \* the step of poll that comes next, or "idle" between calls
  aplicados,  \* events applied in this turn
  parado,     \* parado_: a fatal result stopped the partition
  frame_of    \* history: which frame each LSN of this run holds

journalVars == <<last, durable, stopped, stable>>
inboxVars == <<arrived, popped>>
loopVars == <<pc, aplicados, parado, frame_of>>
vars == <<journalVars, inboxVars, loopVars, outboxVars>>

J == INSTANCE Journal

Init ==
  /\ last \in Starts
  /\ durable = 0
  /\ stopped = FALSE
  /\ stable = 1 .. last
  /\ arrived = 0
  /\ popped = 0
  /\ pc = "idle"
  /\ aplicados = 0
  /\ parado = FALSE
  /\ frame_of = <<>>
  /\ OutboxInit

-----------------------------------------------------------------------------
\* The ingress thread claims and publishes a slot of the inbox.
Arrive ==
  /\ arrived < MaxFrames
  /\ arrived - popped < InboxCap
  /\ arrived' = arrived + 1
  /\ UNCHANGED <<journalVars, popped, loopVars, outboxVars>>

\* The device stores one more record, in any order.
Store(n) ==
  /\ n \in 1 .. last
  /\ n \notin stable
  /\ stable' = stable \cup {n}
  /\ UNCHANGED <<last, durable, stopped, inboxVars, loopVars, outboxVars>>

-----------------------------------------------------------------------------
\* Mutant: the count of the turn is not reset.
PollMut ==
  /\ pc = "idle"
  /\ pc' = IF parado THEN "submit" ELSE "drain"
  /\ UNCHANGED <<journalVars, inboxVars, aplicados, parado, frame_of, outboxVars>>

\* poll is called; a stopped partition drains nothing.
Poll ==
  /\ pc = "idle"
  /\ aplicados' = 0
  /\ pc' = IF parado THEN "submit" ELSE "drain"
  /\ UNCHANGED <<journalVars, inboxVars, parado, frame_of, outboxVars>>

\* Partition::force_commit: the same submit, reap and publish, with no drain.
ForceCommit ==
  /\ pc = "idle"
  /\ pc' = "submit"
  /\ UNCHANGED <<journalVars, inboxVars, aplicados, parado, frame_of, outboxVars>>

\* Mutant: the inbox is not checked for a frame.
CanDrainMut ==
  /\ pc = "drain"
  /\ aplicados < Batch
  /\ HasRoom(ReserveEntries, ReserveBytes)

CanDrain ==
  /\ pc = "drain"
  /\ aplicados < Batch
  /\ popped < arrived
  /\ HasRoom(ReserveEntries, ReserveBytes)

\* append gives the frame at the head of the inbox the next LSN.
Logged ==
  /\ J!Append
  /\ frame_of' = Append(frame_of, popped + 1)

\* The event is accepted, with one output or none, or rejected: popped anyway.
Consume ==
  /\ popped' = popped + 1
  /\ aplicados' = aplicados + 1
  /\ UNCHANGED <<arrived, pc, parado>>

DrainQuiet ==
  /\ CanDrain
  /\ Logged
  /\ Consume
  /\ UNCHANGED outboxVars

DrainOutput(len) ==
  /\ CanDrain
  /\ Logged
  /\ Stage(last', len)
  /\ Consume

\* The result is fatal, a stage with no room included: parar_ stops the loop and
\* freezes the outbox.  The frame stays in the inbox.
DrainFatal ==
  /\ CanDrain
  /\ Logged
  /\ parado' = TRUE
  /\ Freeze
  /\ pc' = "submit"
  /\ UNCHANGED <<inboxVars, aplicados>>

\* Mutant: the frame is popped before append is known to have succeeded.
DrainEndMut ==
  /\ pc = "drain"
  /\ pc' = "submit"
  /\ popped' = IF popped < arrived THEN popped + 1 ELSE popped
  /\ UNCHANGED <<journalVars, arrived, aplicados, parado, frame_of, outboxVars>>

\* The drain ends: the turn is full, the inbox empty, the outbox without room,
\* or append failed, which a log may do at any time, with no effect.
DrainEnd ==
  /\ pc = "drain"
  /\ pc' = "submit"
  /\ UNCHANGED <<journalVars, inboxVars, aplicados, parado, frame_of, outboxVars>>

\* maybe_submit: nothing the contract shows, or an error that stops the log.
Submit ==
  /\ pc = "submit"
  /\ pc' = "reap"
  /\ J!Halt \/ UNCHANGED journalVars
  /\ UNCHANGED <<inboxVars, aplicados, parado, frame_of, outboxVars>>

Reap ==
  /\ pc = "reap"
  /\ pc' = "publish"
  /\ \/ durable' \in durable .. last /\ J!Reap
     \/ UNCHANGED journalVars
  /\ UNCHANGED <<inboxVars, aplicados, parado, frame_of, outboxVars>>

\* Mutant: what the log has accepted is published, durable or not.
PublishMut ==
  /\ pc = "publish"
  /\ pc' = "idle"
  /\ \E n \in 0 .. Count : Ready(last, n) /\ Commit(n)
  /\ UNCHANGED <<journalVars, inboxVars, aplicados, parado, frame_of>>

Publish ==
  /\ pc = "publish"
  /\ pc' = "idle"
  /\ \E n \in 0 .. Count : Ready(durable, n) /\ Commit(n)
  /\ UNCHANGED <<journalVars, inboxVars, aplicados, parado, frame_of>>

Next ==
  \/ Arrive
  \/ \E n \in 1 .. last : Store(n)
  \/ Poll
  \/ ForceCommit
  \/ DrainQuiet
  \/ \E len \in OutLens : DrainOutput(len)
  \/ DrainFatal
  \/ DrainEnd
  \/ Submit
  \/ Reap
  \/ Publish

Spec == Init /\ [][Next]_vars

(* The loop is a busy poll: each of its steps is taken.  The log is live in *)
(* the sense module Wal shows: append does not fail for ever, the device    *)
(* ends its writes, and reap moves durable_lsn over what is stored.         *)
DrainStep == DrainQuiet \/ (\E len \in OutLens : DrainOutput(len)) \/ DrainFatal

Fairness ==
  /\ WF_vars(DrainEnd)
  /\ WF_vars(Submit)
  /\ WF_vars(Reap)
  /\ WF_vars(Publish)
  /\ SF_vars(Poll)
  /\ SF_vars(DrainStep)
  /\ SF_vars(Reap /\ durable' > durable)
  /\ WF_vars(\E n \in 1 .. last : Store(n))

FairSpec == Spec /\ Fairness

-----------------------------------------------------------------------------
\* The type of the state of the loop, its inbox, its log and its outbox.
TypeOK ==
  /\ OutboxTypeOK
  /\ last \in Nat
  /\ durable \in Nat
  /\ stopped \in BOOLEAN
  /\ stable \in SUBSET Nat
  /\ arrived \in Nat
  /\ popped \in 0 .. arrived
  /\ pc \in {"idle", "drain", "submit", "reap", "publish"}
  /\ aplicados \in 0 .. Batch
  /\ parado \in BOOLEAN
  /\ frame_of \in Seq(Nat)

\* I10: an output that left was made by an event whose record is on stable
\* storage, with every record before it; a crash cannot take it back.
NoEarlyOutput ==
  \A i \in 1 .. released : 1 .. entries[i].lsn \subseteq stable

\* The log holds the frames in order of arrival, each once: back-pressure of the
\* log or of the outbox neither loses a frame nor logs it twice.
FramesLoggedOnce ==
  /\ \A i \in DOMAIN frame_of : frame_of[i] = i
  /\ popped <= Len(frame_of)
  /\ ~parado => popped = Len(frame_of)

\* After a fatal result nothing leaves, not even what was staged and is durable.
NothingAfterStop == [][parado => released' = released]_vars

\* No frame waits for ever: the frames of the model are finitely many, so each is
\* popped, back-pressure or not, unless the partition has stopped.
InboxDrains == []<>(popped = arrived \/ parado \/ stopped)

\* No staged output waits for ever: each leaves once its record is durable.
OutboxDrains == []<>(released = Len(entries) \/ parado \/ stopped)
=============================================================================
