--------------------------- MODULE MCLogRecovery ---------------------------
(* Small instances of the log across crashes.                               *)
EXTENDS LogRecovery

\* The log starts in a new segment.
MCTails == {[lsn |-> 0, off |-> 0]}
=============================================================================
