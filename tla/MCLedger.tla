------------------------------ MODULE MCLedger ------------------------------
(* Small instances of the ledger.                                           *)
EXTENDS Ledger, TLC

\* Room for two accounts and one trade too few, and tables that fill up.
MCCapacities == {
  [accounts |-> 3, positions |-> 3, trades |-> 2, keys |-> 1, exceptions |-> 1],
  [accounts |-> 2, positions |-> 3, trades |-> 1, keys |-> 1, exceptions |-> 1],
  [accounts |-> 3, positions |-> 2, trades |-> 1, keys |-> 1, exceptions |-> 1] }

\* A grouping two to one leaves half shares, and the bonus it would give is negative;
\* one to two is what the simulator sends.
MCFactors == {<<1, 2>>, <<2, 1>>}

Symmetry == Permutations(TradeIds)
=============================================================================
