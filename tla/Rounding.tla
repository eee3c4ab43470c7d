------------------------------ MODULE Rounding ------------------------------
(***************************************************************************)
(* The operations on amounts that lose information (base/rounding.hpp).    *)
(* Amounts are raw integers: One raw units make a whole share (Qty::kOne)  *)
(* and Scale takes quantity times price to money (kQtyPriceToMoney).  The  *)
(* source multiplies in 128 bits and narrows the result; the integers here *)
(* are unbounded, so neither the aborts on overflow nor the results that   *)
(* are narrowed without a check have a counterpart.                        *)
(***************************************************************************)
EXTENDS Integers

CONSTANTS One, Scale

ASSUME ScaleAssumption ==
  /\ One \in Nat \ {0}
  /\ Scale \in Nat \ {0}

AbsOf(x) == IF x < 0 THEN -x ELSE x

\* n / d and n % d of C++: the quotient truncates toward zero.
Quot(n, d) == IF n < 0 THEN -((-n) \div d) ELSE n \div d
Rest(n, d) == n - d * Quot(n, d)

\* One unit away from zero on the side of n.
Away(n, q) == IF n < 0 THEN q - 1 ELSE q + 1

TowardZero(a, b, d) == Quot(a * b, d)

TowardNegInf(a, b, d) ==
  LET n == a * b
      q == Quot(n, d)
  IN  IF Rest(n, d) # 0 /\ n < 0 THEN q - 1 ELSE q

\* A tie goes away from zero.
HalfUp(a, b, d) ==
  LET n == a * b
      q == Quot(n, d)
  IN  IF Rest(n, d) # 0 /\ 2 * AbsOf(Rest(n, d)) >= d THEN Away(n, q) ELSE q

\* A tie goes to the even neighbour.
HalfEven(a, b, d) ==
  LET n == a * b
      q == Quot(n, d)
      twice == 2 * AbsOf(Rest(n, d))
  IN  IF twice > d \/ (twice = d /\ q % 2 # 0) THEN Away(n, q) ELSE q

-----------------------------------------------------------------------------
NotionalHalfEven(q, p, factor) == HalfEven(q, p, Scale * factor)

PositionCostHalfEven(q, p) == HalfEven(q, p, Scale)

\* A holding that is not positive has no average price: it is reset to zero.
AveragePriceHalfEven(qOld, pOld, qAdd, cost) ==
  IF qOld + qAdd <= 0 THEN 0
  ELSE HalfEven(PositionCostHalfEven(qOld, pOld) + cost, Scale, qOld + qAdd)

\* scale_qty_trunc returns whole shares and hands the fraction back.
ScaleQtyTrunc(q, num, den) == Quot(TowardZero(q, num, den), One) * One
ScaleQtyFraction(q, num, den) == TowardZero(q, num, den) - ScaleQtyTrunc(q, num, den)

ScaleQtyKeepFraction(q, num, den) == TowardZero(q, num, den)

ScalePriceHalfEven(p, num, den) == HalfEven(p, den, num)
=============================================================================
