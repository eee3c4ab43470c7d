----------------------------- MODULE MCSession -----------------------------
(* Sessions of four days for one and for two investors.                    *)
EXTENDS Session

MCCapacities ==
  {[accounts |-> 3, positions |-> 3, trades |-> 9, keys |-> 8, exceptions |-> 4]}

MCPlans == {[investors |-> {"d1"}, perDay |-> 2], [investors |-> {"d1", "d2"}, perDay |-> 1]}

\* Two days later in every case.
MCCalendar == <<[data |-> 1, d2 |-> 3], [data |-> 2, d2 |-> 4], [data |-> 3, d2 |-> 5],
                [data |-> 4, d2 |-> 6]>>

MCFactors == {<<2, 1>>}
=============================================================================
