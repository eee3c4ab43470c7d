------------------------------- MODULE MCWal -------------------------------
(* Small instances of the write-ahead log.                                  *)
EXTENDS Wal

\* A new segment, and one reopened after two records (the header takes one block).
MCTails == {[lsn |-> 0, off |-> 2], [lsn |-> 2, off |-> 4]}
=============================================================================
