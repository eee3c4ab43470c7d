------------------------------ MODULE Columns ------------------------------
(***************************************************************************)
(* Tables kept as columns: loops that copy the rows they keep, and singly  *)
(* linked lists threaded through the rows by index (TradeTable of          *)
(* core/partition_state.hpp: next_of_account, with account_first_trade as  *)
(* the heads).                                                             *)
(***************************************************************************)
EXTENDS Integers, Sequences, FiniteSets, FiniteSetsExt

\* The elements of seq at the positions in keep, in order: a loop over seq that
\* copies what it keeps.
Kept(seq, keep) ==
  LET upto[n \in 0 .. Len(seq)] ==
        CASE n = 0 -> <<>>
          [] n # 0 /\ n \in keep -> Append(upto[n - 1], seq[n])
          [] OTHER -> upto[n - 1]
  IN  upto[Len(seq)]

\* kNil: the end of a list.  Rows are numbered from one.
Nil == 0

\* S has the row start and what the links nx lead to from its rows, but stop.
Closed(S, start, nx, stop) ==
  /\ start # Nil => start \in S
  /\ \A j \in S \ {stop} : nx[j] # Nil => nx[j] \in S

\* The rows that a walk from start along nx comes by, if it goes no further than
\* stop.  A walk that comes by a row again never ends, and sees no others.
Walked(start, nx, stop) ==
  {i \in DOMAIN nx : \A S \in SUBSET DOMAIN nx : Closed(S, start, nx, stop) => i \in S}

\* The first row after i of those that own gives to a, or none.
NextOf(own, a, i) ==
  LET later == {j \in DOMAIN own : j > i /\ own[j] = a}
  IN  IF later = {} THEN Nil ELSE Min(later)
=============================================================================
