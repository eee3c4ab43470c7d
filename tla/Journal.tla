------------------------------ MODULE Journal ------------------------------
(***************************************************************************)
(* What the core demands of a log, and nothing more: the concept Journal   *)
(* of core/journal.hpp.  WalT implements it (module Wal), and the loop of  *)
(* the partition is specified on top of it (module Partition).             *)
(***************************************************************************)
EXTENDS Integers

VARIABLES
  last,     \* last_lsn(): the greatest LSN append has returned
  durable,  \* durable_lsn(): the gate of the outbox
  stopped,  \* halted()
  stable    \* LSNs whose record is on stable storage; only the device knows

vars == <<last, durable, stopped, stable>>

\* A log is opened empty or after a recovery; what it then holds is stored, but
\* durable_lsn() starts from zero either way.
Init ==
  /\ last \in Nat
  /\ durable = 0
  /\ stopped = FALSE
  /\ stable = 1 .. last

\* append succeeds; a WalFull has no effect on this state.
Append ==
  /\ ~stopped
  /\ last' = last + 1
  /\ UNCHANGED <<durable, stopped, stable>>

\* The device ends writes, in any order; it goes on when the log has stopped.
Store ==
  /\ stable \subseteq stable'
  /\ stable' \subseteq 1 .. last
  /\ UNCHANGED <<last, durable, stopped>>

\* reap: durable_lsn moves forward over a stored prefix of the log; a failed
\* write may stop the log in the same call.
Reap ==
  /\ ~stopped
  /\ durable <= durable' /\ durable' <= last
  /\ 1 .. durable' \subseteq stable
  /\ stopped' \in BOOLEAN
  /\ UNCHANGED <<last, stable>>

\* A submission error stops the log.
Halt ==
  /\ stopped' = TRUE
  /\ UNCHANGED <<last, durable, stable>>

Next == Append \/ Store \/ Reap \/ Halt

Spec == Init /\ [][Next]_vars
=============================================================================
