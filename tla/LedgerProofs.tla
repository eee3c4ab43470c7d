---------------------------- MODULE LedgerProofs ----------------------------
(***************************************************************************)
(* Proofs about the ledger of a partition, for any documents, instruments, *)
(* trades, corporate actions, capacities and amounts, and for sequences of *)
(* events of any length.                                                   *)
(***************************************************************************)
EXTENDS Ledger, ColumnTheorems, SequenceTheorems

-----------------------------------------------------------------------------
(* What the roundings of base/rounding.hpp compute, for all operands: the   *)
(* branches of mul_div on quotient and remainder against the exact value.   *)
(* A rounding r of n / d is judged by the error d * r - n, so that nothing  *)
(* is divided.                                                              *)

\* The error of r as the value of n / d, in units of 1 / d.
Error(r, n, d) == d * r - n

\* r is a nearest integer to n / d.
Nearest(r, n, d) == 2 * AbsOf(Error(r, n, d)) <= d

-----------------------------------------------------------------------------
\* The division of C++: the remainder has the sign of n and is smaller than d.
LEMMA QuotRest ==
  ASSUME NEW n \in Int, NEW d \in Nat \ {0}
  PROVE  /\ Quot(n, d) \in Int /\ Rest(n, d) \in Int
         /\ n = d * Quot(n, d) + Rest(n, d)
         /\ AbsOf(Rest(n, d)) < d
         /\ n >= 0 => Quot(n, d) >= 0 /\ Rest(n, d) >= 0
         /\ n < 0 => Quot(n, d) <= 0 /\ Rest(n, d) <= 0
<1>1. PICK m \in Nat : m = AbsOf(n)
  BY DEF AbsOf
<1>2. PICK q \in Int, r \in Int : q = m \div d /\ r = m % d
  BY <1>1
<1>3. m = d * q + r /\ 0 <= r /\ r < d /\ q >= 0
  <2>1. m = d * q + r /\ r \in 0 .. d - 1
    BY <1>1, <1>2
  <2>2. q >= 0
    BY <1>1, <1>2
  <2> QED  BY <2>1, <2>2
<1>4. PICK t \in Int : t = d * q
  OBVIOUS
<1>5. CASE n >= 0
  <2>1. m = n
    BY <1>1, <1>5 DEF AbsOf
  <2>2. Quot(n, d) = q
    BY <1>2, <1>5, <2>1 DEF Quot
  <2>3. Rest(n, d) = r /\ d * Quot(n, d) = t
    BY <1>3, <1>4, <2>1, <2>2 DEF Rest
  <2> QED  BY <1>3, <1>4, <1>5, <2>1, <2>2, <2>3 DEF AbsOf
<1>6. CASE n < 0
  <2>1. m = -n
    BY <1>1, <1>6 DEF AbsOf
  <2>2. Quot(n, d) = -q
    BY <1>2, <1>6, <2>1 DEF Quot
  <2>3. d * (-q) = -t
    BY <1>4
  <2>4. Rest(n, d) = -r /\ d * Quot(n, d) = -t
    BY <1>3, <1>4, <2>1, <2>2, <2>3 DEF Rest
  <2> QED  BY <1>3, <1>4, <1>6, <2>1, <2>2, <2>4 DEF AbsOf
<1> QED  BY <1>5, <1>6

\* The errors of the candidates: the quotient, and one unit on either side of it.
LEMMA Errors ==
  ASSUME NEW n \in Int, NEW d \in Nat \ {0}
  PROVE  LET q == Quot(n, d)
             r == Rest(n, d)
         IN  /\ Error(q, n, d) = -r
             /\ Error(q - 1, n, d) = -r - d
             /\ Error(q + 1, n, d) = d - r
<1>1. PICK q \in Int, r \in Int : q = Quot(n, d) /\ r = Rest(n, d)
  BY QuotRest
<1>2. PICK t \in Int : t = d * q
  BY <1>1
<1>3. n = t + r /\ d * (q - 1) = t - d /\ d * (q + 1) = t + d
  <2>1. n = d * q + r
    BY <1>1, QuotRest
  <2>2. d * (q - 1) = d * q - d /\ d * (q + 1) = d * q + d
    BY <1>1
  <2> QED  BY <1>2, <2>1, <2>2
<1> QED  BY <1>1, <1>2, <1>3 DEF Error

-----------------------------------------------------------------------------
\* Truncation, in which quantities are scaled: never past the exact value, on the
\* same side of zero, and less than one unit short of it.
THEOREM TruncationFallsShort ==
  ASSUME NEW a \in Int, NEW b \in Int, NEW d \in Nat \ {0}
  PROVE  LET r == TowardZero(a, b, d)
         IN  /\ r \in Int /\ AbsOf(Error(r, a * b, d)) < d
             /\ a * b >= 0 => r >= 0 /\ Error(r, a * b, d) <= 0
             /\ a * b < 0 => r <= 0 /\ Error(r, a * b, d) >= 0
<1>1. PICK n \in Int : n = a * b
  OBVIOUS
<1>2. PICK q \in Int, r \in Int : q = Quot(n, d) /\ r = Rest(n, d)
  BY QuotRest
<1>3. TowardZero(a, b, d) = q
  BY <1>1, <1>2 DEF TowardZero
<1>4. Error(q, n, d) = -r
  BY <1>2, Errors
<1>5. /\ AbsOf(r) < d
      /\ (n >= 0 => q >= 0 /\ r >= 0) /\ (n < 0 => q <= 0 /\ r <= 0)
  BY <1>2, QuotRest
<1>6. /\ AbsOf(-r) < d
      /\ (n >= 0 => q >= 0 /\ -r <= 0) /\ (n < 0 => q <= 0 /\ -r >= 0)
  BY <1>5 DEF AbsOf
<1> QED  BY <1>1, <1>3, <1>4, <1>6

\* Rounding toward minus infinity is the floor of the exact value, on both sides of zero.
THEOREM TowardNegInfIsFloor ==
  ASSUME NEW a \in Int, NEW b \in Int, NEW d \in Nat \ {0}
  PROVE  LET r == TowardNegInf(a, b, d)
         IN  r \in Int /\ -d < Error(r, a * b, d) /\ Error(r, a * b, d) <= 0
<1>1. PICK n \in Int : n = a * b
  OBVIOUS
<1>2. PICK q \in Int, r \in Int : q = Quot(n, d) /\ r = Rest(n, d)
  BY QuotRest
<1>3. TowardNegInf(a, b, d) = IF r # 0 /\ n < 0 THEN q - 1 ELSE q
  BY <1>1, <1>2 DEF TowardNegInf
<1>4. Error(q, n, d) = -r /\ Error(q - 1, n, d) = -r - d
  BY <1>2, Errors
<1>5. AbsOf(r) < d /\ (n >= 0 => r >= 0) /\ (n < 0 => r <= 0)
  BY <1>2, QuotRest
<1> QED  BY <1>1, <1>3, <1>4, <1>5 DEF AbsOf

\* Half to even gives a nearest integer, and the even one when two are equally near:
\* prices and costs, which are rounded this way, carry no bias.
THEOREM HalfEvenIsNearest ==
  ASSUME NEW a \in Int, NEW b \in Int, NEW d \in Nat \ {0}
  PROVE  LET r == HalfEven(a, b, d)
         IN  /\ r \in Int /\ Nearest(r, a * b, d)
             /\ 2 * AbsOf(Error(r, a * b, d)) = d => r % 2 = 0
<1>1. PICK n \in Int : n = a * b
  OBVIOUS
<1>2. PICK q \in Int, r \in Int : q = Quot(n, d) /\ r = Rest(n, d)
  BY QuotRest
<1>3. HalfEven(a, b, d) =
        IF 2 * AbsOf(r) > d \/ (2 * AbsOf(r) = d /\ q % 2 # 0) THEN Away(n, q) ELSE q
  BY <1>1, <1>2 DEF HalfEven
<1>4. Error(q, n, d) = -r /\ Error(q - 1, n, d) = -r - d /\ Error(q + 1, n, d) = d - r
  BY <1>2, Errors
<1>5. AbsOf(r) < d /\ (n >= 0 => r >= 0) /\ (n < 0 => r <= 0)
  BY <1>2, QuotRest
<1>6. CASE 2 * AbsOf(r) > d
  <2>1. HalfEven(a, b, d) = Away(n, q)
    BY <1>3, <1>6
  <2>2. /\ Away(n, q) \in Int
        /\ 2 * AbsOf(Error(Away(n, q), n, d)) <= d /\ 2 * AbsOf(Error(Away(n, q), n, d)) # d
    BY <1>4, <1>5, <1>6 DEF AbsOf, Away
  <2> QED  BY <1>1, <2>1, <2>2 DEF Nearest
<1>7. CASE 2 * AbsOf(r) = d /\ q % 2 # 0
  <2>1. HalfEven(a, b, d) = Away(n, q)
    BY <1>3, <1>7
  <2>2. Away(n, q) \in Int /\ 2 * AbsOf(Error(Away(n, q), n, d)) <= d
    BY <1>4, <1>5, <1>7 DEF AbsOf, Away
  <2>3. Away(n, q) % 2 = 0
    BY <1>7 DEF Away
  <2> QED  BY <1>1, <2>1, <2>2, <2>3 DEF Nearest
<1>8. CASE 2 * AbsOf(r) <= d /\ ~(2 * AbsOf(r) = d /\ q % 2 # 0)
  <2>1. HalfEven(a, b, d) = q
    BY <1>3, <1>5, <1>8 DEF AbsOf
  <2>2. 2 * AbsOf(Error(q, n, d)) = 2 * AbsOf(r)
    BY <1>4 DEF AbsOf
  <2> QED  BY <1>1, <1>8, <2>1, <2>2 DEF Nearest
<1>9. 2 * AbsOf(r) \in Int
  BY DEF AbsOf
<1> QED  BY <1>6, <1>7, <1>8, <1>9

\* Half up gives a nearest integer, and the one away from zero when two are equally near.
THEOREM HalfUpIsNearest ==
  ASSUME NEW a \in Int, NEW b \in Int, NEW d \in Nat \ {0}
  PROVE  LET r == HalfUp(a, b, d)
         IN  /\ r \in Int /\ Nearest(r, a * b, d)
             /\ 2 * AbsOf(Error(r, a * b, d)) = d =>
                  (a * b >= 0 => Error(r, a * b, d) > 0) /\ (a * b < 0 => Error(r, a * b, d) < 0)
<1>1. PICK n \in Int : n = a * b
  OBVIOUS
<1>2. PICK q \in Int, r \in Int : q = Quot(n, d) /\ r = Rest(n, d)
  BY QuotRest
<1>3. HalfUp(a, b, d) = IF r # 0 /\ 2 * AbsOf(r) >= d THEN Away(n, q) ELSE q
  BY <1>1, <1>2 DEF HalfUp
<1>4. Error(q, n, d) = -r /\ Error(q - 1, n, d) = -r - d /\ Error(q + 1, n, d) = d - r
  BY <1>2, Errors
<1>5. AbsOf(r) < d /\ (n >= 0 => r >= 0) /\ (n < 0 => r <= 0)
  BY <1>2, QuotRest
<1>6. CASE r # 0 /\ 2 * AbsOf(r) >= d
  <2>1. HalfUp(a, b, d) = Away(n, q)
    BY <1>3, <1>6
  <2>2. /\ Away(n, q) \in Int /\ 2 * AbsOf(Error(Away(n, q), n, d)) <= d
        /\ n >= 0 => Error(Away(n, q), n, d) > 0
        /\ n < 0 => Error(Away(n, q), n, d) < 0
    BY <1>4, <1>5, <1>6 DEF AbsOf, Away
  <2> QED  BY <1>1, <2>1, <2>2 DEF Nearest
<1>7. CASE ~(r # 0 /\ 2 * AbsOf(r) >= d)
  <2>1. HalfUp(a, b, d) = q
    BY <1>3, <1>7
  <2>2. 2 * AbsOf(Error(q, n, d)) < d
    BY <1>4, <1>5, <1>7 DEF AbsOf
  <2> QED  BY <1>1, <2>1, <2>2 DEF Nearest, AbsOf, Error
<1> QED  BY <1>6, <1>7

-----------------------------------------------------------------------------
\* Scaling a holding splits it exactly: the whole shares that stay and the fraction
\* that is handed back add up to the scaled quantity, the fraction is less than a
\* share and on the same side of zero (scale_qty_trunc, used by splits and bonuses).
THEOREM ScalingSplitsExactly ==
  ASSUME NEW q \in Int, NEW num \in Int, NEW den \in Nat \ {0}
  PROVE  LET whole == ScaleQtyTrunc(q, num, den)
             fraction == ScaleQtyFraction(q, num, den)
         IN  /\ whole + fraction = ScaleQtyKeepFraction(q, num, den)
             /\ \E k \in Int : whole = k * One
             /\ AbsOf(fraction) < One
             /\ q * num >= 0 => whole >= 0 /\ fraction >= 0
             /\ q * num < 0 => whole <= 0 /\ fraction <= 0
<1> USE ScaleAssumption
<1>1. PICK x \in Int : x = TowardZero(q, num, den)
  BY TruncationFallsShort
<1>2. PICK k \in Int, r \in Int : k = Quot(x, One) /\ r = Rest(x, One)
  BY QuotRest
<1>3. PICK w \in Int : w = k * One /\ w = One * k
  OBVIOUS
<1>4. /\ ScaleQtyTrunc(q, num, den) = w /\ ScaleQtyFraction(q, num, den) = x - w
      /\ ScaleQtyKeepFraction(q, num, den) = x
  BY <1>1, <1>2, <1>3 DEF ScaleQtyTrunc, ScaleQtyFraction, ScaleQtyKeepFraction
<1>5. x - w = r /\ AbsOf(r) < One /\ (x >= 0 => k >= 0 /\ r >= 0) /\ (x < 0 => k <= 0 /\ r <= 0)
  <2>1. x = One * k + r /\ AbsOf(r) < One
    BY <1>2, QuotRest
  <2>2. (x >= 0 => k >= 0 /\ r >= 0) /\ (x < 0 => k <= 0 /\ r <= 0)
    BY <1>2, QuotRest
  <2>3. x - w = r
    BY <1>3, <2>1
  <2> QED  BY <2>1, <2>2, <2>3
<1>6. (k >= 0 => w >= 0) /\ (k <= 0 => w <= 0)
  BY <1>3
<1>7. (q * num >= 0 => x >= 0) /\ (q * num < 0 => x <= 0)
  BY <1>1, TruncationFallsShort
<1>8. x = 0 => r = 0 /\ w = 0
  <2>1. ASSUME x = 0  PROVE k = 0
    BY <1>2, <2>1 DEF Quot
  <2> QED  BY <1>3, <1>5, <2>1
<1>9. (q * num >= 0 => w >= 0 /\ x - w >= 0) /\ (q * num < 0 => w <= 0 /\ x - w <= 0)
  BY <1>5, <1>6, <1>7, <1>8
<1> QED  BY <1>3, <1>4, <1>5, <1>9

-----------------------------------------------------------------------------
(* Amounts. *)

\* Rounding half to even gives an integer.
LEMMA HalfEvenInt ==
  ASSUME NEW a \in Int, NEW b \in Int, NEW d \in Nat \ {0}
  PROVE  HalfEven(a, b, d) \in Int
  BY HalfEvenIsNearest

\* The average price is an integer, whatever the holding.
LEMMA AveragePriceInt ==
  ASSUME NEW qOld \in Int, NEW pOld \in Int, NEW qAdd \in Int, NEW cost \in Int
  PROVE  AveragePriceHalfEven(qOld, pOld, qAdd, cost) \in Int
<1> USE ScaleAssumption
<1>1. PositionCostHalfEven(qOld, pOld) \in Int
  BY HalfEvenInt DEF PositionCostHalfEven
<1>2. CASE qOld + qAdd <= 0
  BY <1>2 DEF AveragePriceHalfEven
<1>3. CASE ~(qOld + qAdd <= 0)
  <2>1. qOld + qAdd \in Nat \ {0} /\ PositionCostHalfEven(qOld, pOld) + cost \in Int
    BY <1>1, <1>3
  <2> QED  BY <1>3, <2>1, HalfEvenInt DEF AveragePriceHalfEven
<1> QED  BY <1>2, <1>3

\* Scaling a quantity gives integers, and of a quantity that is not negative neither
\* the whole shares nor the fraction are.
LEMMA ScaleQty ==
  ASSUME NEW q \in Int, NEW num \in Nat, NEW den \in Nat \ {0}
  PROVE  /\ ScaleQtyTrunc(q, num, den) \in Int /\ ScaleQtyFraction(q, num, den) \in Int
         /\ ScaleQtyKeepFraction(q, num, den) \in Int /\ TowardZero(q, num, den) \in Int
         /\ q >= 0 => /\ ScaleQtyTrunc(q, num, den) >= 0 /\ ScaleQtyFraction(q, num, den) >= 0
                      /\ ScaleQtyKeepFraction(q, num, den) >= 0 /\ TowardZero(q, num, den) >= 0
<1> USE ScaleAssumption
<1> DEFINE x == TowardZero(q, num, den)
<1>1. q * num \in Int /\ (q >= 0 => q * num >= 0)
  OBVIOUS
<1>2. x \in Int /\ (q >= 0 => x >= 0)
  BY <1>1, QuotRest DEF TowardZero
<1>3. /\ ScaleQtyTrunc(q, num, den) = Quot(x, One) * One
      /\ ScaleQtyFraction(q, num, den) = x - Quot(x, One) * One
      /\ ScaleQtyKeepFraction(q, num, den) = x
  BY DEF ScaleQtyTrunc, ScaleQtyFraction, ScaleQtyKeepFraction
<1> HIDE DEF x
<1>4. Quot(x, One) \in Int /\ (x >= 0 => Quot(x, One) >= 0 /\ Rest(x, One) >= 0)
  BY <1>2, QuotRest
<1>5. Quot(x, One) * One \in Int /\ (x >= 0 => Quot(x, One) * One >= 0 /\ x - Quot(x, One) * One >= 0)
  BY <1>2, <1>4 DEF Rest
<1> QED  BY <1>2, <1>3, <1>5 DEF x

-----------------------------------------------------------------------------
(* Rows of custody. *)

\* A row of the right type in which no column is negative, short sales apart.
Sound(row) ==
  /\ row \in CustodyRow
  /\ row.available < 0 => row.short
  /\ row.leftovers < 0 => row.short
  /\ row.overdue_buy >= 0 /\ row.overdue_sell >= 0
  /\ \A k \in Slots : row.pending_buy[k] >= 0 /\ row.pending_sell[k] >= 0

\* The columns of a row have integers.
LEMMA RowColumns ==
  ASSUME NEW row \in CustodyRow
  PROVE  /\ row.available \in Int /\ row.leftovers \in Int /\ row.avg_price \in Int
         /\ row.overdue_buy \in Int /\ row.overdue_sell \in Int /\ row.short \in BOOLEAN
         /\ row.pending_buy \in [Slots -> Int] /\ row.pending_sell \in [Slots -> Int]
         /\ CustodyToday(row) \in Int /\ CustodyProjected(row) \in Int
  BY DEF CustodyRow, CustodyToday, CustodyProjected, Sum3, Slots

\* The holding of a row without short sales is not negative.
LEMMA HoldingNotNegative ==
  ASSUME NEW row, Sound(row), ~row.short
  PROVE  CustodyToday(row) >= 0
  BY RowColumns DEF Sound, CustodyToday, Sum3, Slots

\* A row by its columns.
Row(av, buy, sell, obuy, osell, left, price, short) ==
  [available |-> av, pending_buy |-> buy, pending_sell |-> sell, overdue_buy |-> obuy,
   overdue_sell |-> osell, leftovers |-> left, avg_price |-> price, short |-> short]

\* When a row is sound, by its columns.
LEMMA RowSound ==
  ASSUME NEW av \in Int, NEW buy \in [Slots -> Int], NEW sell \in [Slots -> Int], NEW obuy \in Int,
         NEW osell \in Int, NEW left \in Int, NEW price \in Int, NEW short \in BOOLEAN,
         av < 0 => short, left < 0 => short, obuy >= 0, osell >= 0,
         \A k \in Slots : buy[k] >= 0 /\ sell[k] >= 0
  PROVE  Sound(Row(av, buy, sell, obuy, osell, left, price, short))
  BY DEF Sound, Row, CustodyRow

\* Executing a trade keeps the row sound, if a sale is covered or short.
LEMMA ExecutedSound ==
  ASSUME NEW row, Sound(row), NEW e, NEW k \in Slots, e.side \in Sides, e.short \in BOOLEAN,
         e.qty \in Int, e.qty > 0,
         e.side = "Sell" /\ ~e.short => row.available >= e.qty
  PROVE  Sound(Executed(row, e, k))
<1>1. CASE e.side = "Buy"
  BY <1>1 DEF Sound, Executed, CustodyRow, Slots
<1>2. CASE e.side # "Buy"
  <2> DEFINE sell == [row.pending_sell EXCEPT ![k] = @ + e.qty]
             short == row.short \/ e.short
  <2>1. Executed(row, e, k) =
          Row(row.available - e.qty, row.pending_buy, sell, row.overdue_buy,
              row.overdue_sell, row.leftovers, row.avg_price, short)
    BY <1>2 DEF Executed, Sound, CustodyRow, Row
  <2>2. sell \in [Slots -> Int] /\ \A j \in Slots : sell[j] >= 0
    BY DEF Sound, CustodyRow
  <2>3. short \in BOOLEAN /\ (row.short => short) /\ (e.short => short)
    BY RowColumns DEF Sound
  <2> HIDE DEF sell, short
  <2> QED  BY <1>2, <2>1, <2>2, <2>3, RowColumns, RowSound DEF Sound, Sides
<1> QED  BY <1>1, <1>2

\* Settling no more than is pending keeps the row sound.
LEMMA SettledSound ==
  ASSUME NEW row, Sound(row), NEW e, NEW k \in Slots, e.side \in Sides, e.qty \in Int, e.cost \in Int,
         e.qty >= 0,
         e.side = "Buy" => e.qty <= row.pending_buy[k],
         e.side = "Sell" => e.qty <= row.pending_sell[k]
  PROVE  Sound(SettledCustody(row, e, k)) /\ Sound(FailedCustody(row, e, k))
<1>0. row \in CustodyRow
  BY DEF Sound
<1>1. CASE e.side = "Buy"
  <2> DEFINE buy == [row.pending_buy EXCEPT ![k] = @ - e.qty]
             price == AveragePriceHalfEven(CustodyToday(row), row.avg_price, e.qty, e.cost)
  <2>1. /\ SettledCustody(row, e, k) =
             Row(row.available + e.qty, buy, row.pending_sell, row.overdue_buy,
                 row.overdue_sell, row.leftovers, price, row.short)
        /\ FailedCustody(row, e, k) =
             Row(row.available, buy, row.pending_sell, row.overdue_buy + e.qty,
                 row.overdue_sell, row.leftovers, row.avg_price, row.short)
    BY <1>0, <1>1 DEF SettledCustody, FailedCustody, CustodyRow, Row
  <2>2. buy \in [Slots -> Int] /\ \A j \in Slots : buy[j] >= 0
    BY <1>0, <1>1 DEF Sound, CustodyRow
  <2>3. price \in Int
    BY <1>0, RowColumns, AveragePriceInt
  <2> HIDE DEF buy, price
  <2>4. /\ row.available + e.qty \in Int /\ row.overdue_buy + e.qty \in Int /\ row.overdue_buy + e.qty >= 0
        /\ row.available + e.qty < 0 => row.short
    BY <1>0, RowColumns DEF Sound
  <2>5. Sound(SettledCustody(row, e, k))
    BY <1>0, <2>1, <2>2, <2>3, <2>4, RowColumns, RowSound DEF Sound
  <2>6. Sound(FailedCustody(row, e, k))
    BY <1>0, <2>1, <2>2, <2>4, RowColumns, RowSound DEF Sound
  <2> QED  BY <2>5, <2>6
<1>2. CASE e.side # "Buy"
  <2> DEFINE sell == [row.pending_sell EXCEPT ![k] = @ - e.qty]
  <2>1. /\ SettledCustody(row, e, k) =
             Row(row.available, row.pending_buy, sell, row.overdue_buy,
                 row.overdue_sell, row.leftovers, row.avg_price, row.short)
        /\ FailedCustody(row, e, k) =
             Row(row.available, row.pending_buy, sell, row.overdue_buy,
                 row.overdue_sell + e.qty, row.leftovers, row.avg_price, row.short)
    BY <1>0, <1>2 DEF SettledCustody, FailedCustody, CustodyRow, Row
  <2>2. sell \in [Slots -> Int] /\ \A j \in Slots : sell[j] >= 0
    BY <1>0, <1>2 DEF Sound, CustodyRow, Sides
  <2> HIDE DEF sell
  <2>3. row.overdue_sell + e.qty \in Int /\ row.overdue_sell + e.qty >= 0
    BY <1>0, RowColumns DEF Sound
  <2>4. Sound(SettledCustody(row, e, k))
    BY <1>0, <2>1, <2>2, RowColumns, RowSound DEF Sound
  <2>5. Sound(FailedCustody(row, e, k))
    BY <1>0, <2>1, <2>2, <2>3, RowColumns, RowSound DEF Sound
  <2> QED  BY <2>4, <2>5
<1> QED  BY <1>1, <1>2

\* Buying in no more than is overdue keeps the row sound.
LEMMA BoughtInSound ==
  ASSUME NEW row, Sound(row), NEW e, e.side \in Sides, e.qty \in Int, e.qty >= 0,
         e.side = "Buy" => e.qty <= row.overdue_buy,
         e.side = "Sell" => e.qty <= row.overdue_sell
  PROVE  Sound(BoughtInCustody(row, e))
<1>0. row \in CustodyRow
  BY DEF Sound
<1>1. CASE e.side = "Buy"
  <2>1. BoughtInCustody(row, e) =
          Row(row.available + e.qty, row.pending_buy, row.pending_sell, row.overdue_buy - e.qty,
              row.overdue_sell, row.leftovers, row.avg_price, row.short)
    BY <1>0, <1>1 DEF BoughtInCustody, CustodyRow, Row
  <2> QED  BY <1>0, <1>1, <2>1, RowColumns, RowSound DEF Sound
<1>2. CASE e.side # "Buy"
  <2>1. BoughtInCustody(row, e) =
          Row(row.available, row.pending_buy, row.pending_sell, row.overdue_buy,
              row.overdue_sell - e.qty, row.leftovers, row.avg_price, row.short)
    BY <1>0, <1>2 DEF BoughtInCustody, CustodyRow, Row
  <2> QED  BY <1>0, <1>2, <2>1, RowColumns, RowSound DEF Sound, Sides
<1> QED  BY <1>1, <1>2

\* A split keeps the row sound: a holding that is not negative gives whole shares and
\* a fraction that are not.
LEMMA SplitSound ==
  ASSUME NEW row, Sound(row), NEW n \in Nat \ {0}, NEW d \in Nat \ {0}
  PROVE  Sound(Split(row, n, d))
<1>0. row \in CustodyRow
  BY DEF Sound
<1> DEFINE buy == [k \in Slots |-> ScaleQtyKeepFraction(row.pending_buy[k], n, d)]
           sell == [k \in Slots |-> ScaleQtyKeepFraction(row.pending_sell[k], n, d)]
           left == TowardZero(row.leftovers, n, d) + ScaleQtyFraction(row.available, n, d)
           price == ScalePriceHalfEven(row.avg_price, n, d)
           av == ScaleQtyTrunc(row.available, n, d)
           obuy == ScaleQtyKeepFraction(row.overdue_buy, n, d)
           osell == ScaleQtyKeepFraction(row.overdue_sell, n, d)
<1>1. Split(row, n, d) = Row(av, buy, sell, obuy, osell, left, price, row.short)
  <2>1. Split(row, n, d) =
          [row EXCEPT !.available = av, !.leftovers = left, !.overdue_buy = obuy, !.overdue_sell = osell,
                      !.pending_buy = buy, !.pending_sell = sell, !.avg_price = price]
    BY <1>0, Zenon DEF Split, CustodyRow
  <2> HIDE DEF buy, sell, left, price, av, obuy, osell
  <2> QED  BY <1>0, <2>1 DEF Row, CustodyRow
<1>2. buy \in [Slots -> Int] /\ \A k \in Slots : buy[k] >= 0
  <2>1. \A k \in Slots : row.pending_buy[k] \in Int /\ row.pending_buy[k] >= 0
    BY <1>0, RowColumns DEF Sound
  <2> QED  BY <2>1, ScaleQty
<1>3. sell \in [Slots -> Int] /\ \A k \in Slots : sell[k] >= 0
  <2>1. \A k \in Slots : row.pending_sell[k] \in Int /\ row.pending_sell[k] >= 0
    BY <1>0, RowColumns DEF Sound
  <2> QED  BY <2>1, ScaleQty
<1>4. price \in Int
  <2>1. row.avg_price \in Int /\ d \in Int
    BY <1>0, RowColumns
  <2> QED  BY <2>1, HalfEvenInt DEF ScalePriceHalfEven
<1>5. av \in Int /\ (av < 0 => row.short) /\ left \in Int /\ (left < 0 => row.short)
  <2>1. /\ row.available \in Int /\ row.leftovers \in Int
        /\ ~row.short => row.available >= 0 /\ row.leftovers >= 0
    BY <1>0, RowColumns DEF Sound
  <2>2. /\ av \in Int /\ ScaleQtyFraction(row.available, n, d) \in Int
        /\ TowardZero(row.leftovers, n, d) \in Int
        /\ ~row.short => /\ av >= 0 /\ ScaleQtyFraction(row.available, n, d) >= 0
                         /\ TowardZero(row.leftovers, n, d) >= 0
    BY <2>1, ScaleQty
  <2> HIDE DEF av
  <2> QED  BY <2>2
<1>6. obuy \in Int /\ obuy >= 0 /\ osell \in Int /\ osell >= 0
  <2>1. /\ row.overdue_buy \in Int /\ row.overdue_sell \in Int
        /\ row.overdue_buy >= 0 /\ row.overdue_sell >= 0
    BY <1>0, RowColumns DEF Sound
  <2> QED  BY <2>1, ScaleQty
<1>7. row.short \in BOOLEAN
  BY <1>0, RowColumns
<1> HIDE DEF buy, sell, left, price, av, obuy, osell
<1>8. Sound(Row(av, buy, sell, obuy, osell, left, price, row.short))
  BY <1>2, <1>3, <1>4, <1>5, <1>6, <1>7, RowSound
<1> QED  BY <1>1, <1>8

\* A corporate action that is accepted keeps the row sound.
LEMMA ActedSound ==
  ASSUME NEW row, Sound(row), NEW e, ~Malformed(e), ~RefusedLate(row, e),
         e.num \in Nat, e.den \in Nat, e.qty_delta \in Int, e.cash_delta \in Int, e.unit_cost \in Int
  PROVE  Sound(Acted(row, e))
<1> USE ScaleAssumption
<1>0. row \in CustodyRow
  BY DEF Sound
<1>1. CASE e.type = "Split"
  <2>1. e.num \in Nat \ {0} /\ e.den \in Nat \ {0}
    BY <1>1 DEF Malformed
  <2> QED  BY <1>1, <2>1, SplitSound DEF Acted
<1>2. CASE e.type = "Bonus"
  <2> DEFINE base == CustodyToday(row)
             extra == BonusShares(row, e)
             price == AveragePriceHalfEven(base, row.avg_price, extra, HalfEven(extra, e.unit_cost, One))
             fraction == ScaleQtyFraction(base, e.num, e.den)
  <2>1. e.num \in Nat \ {0} /\ e.den \in Nat \ {0} /\ ~(extra < 0)
    BY <1>2 DEF Malformed, RefusedLate
  <2>2. base \in Int /\ (~row.short => base >= 0)
    BY <1>0, RowColumns, HoldingNotNegative
  <2>3. Acted(row, e) =
          Row(row.available + extra, row.pending_buy, row.pending_sell, row.overdue_buy,
              row.overdue_sell, row.leftovers + fraction, price, row.short)
    BY <1>0, <1>2 DEF Acted, Bonus, CustodyRow, Row
  <2> HIDE DEF base
  <2>4. fraction \in Int /\ (~row.short => fraction >= 0)
    BY <2>1, <2>2, ScaleQty
  <2>5. extra \in Int
    <3>1. ScaleQtyTrunc(base, e.num, e.den) \in Int
      BY <2>1, <2>2, ScaleQty
    <3>2. extra = ScaleQtyTrunc(base, e.num, e.den) - base
      BY DEF BonusShares, base
    <3> HIDE DEF extra
    <3> QED  BY <2>2, <3>1, <3>2
  <2> HIDE DEF extra, fraction
  <2>6. HalfEven(extra, e.unit_cost, One) \in Int
    BY <2>5, HalfEvenInt
  <2>7. price \in Int
    BY <1>0, <2>2, <2>5, <2>6, RowColumns, AveragePriceInt
  <2> HIDE DEF price
  <2>8. /\ row.available + extra \in Int /\ (row.available + extra < 0 => row.short)
        /\ row.leftovers + fraction \in Int /\ (row.leftovers + fraction < 0 => row.short)
    BY <1>0, <2>1, <2>4, <2>5, RowColumns DEF Sound
  <2> QED  BY <1>0, <2>3, <2>7, <2>8, RowColumns, RowSound DEF Sound
<1>3. CASE e.type = "Subscription"
  <2> DEFINE price == AveragePriceHalfEven(CustodyToday(row), row.avg_price, e.qty_delta, e.cash_delta)
  <2>1. ~(e.qty_delta < 0)
    BY <1>3 DEF Malformed
  <2>2. Acted(row, e) =
          Row(row.available + e.qty_delta, row.pending_buy, row.pending_sell, row.overdue_buy,
              row.overdue_sell, row.leftovers, price, row.short)
    BY <1>0, <1>3 DEF Acted, Subscription, CustodyRow, Row
  <2>3. price \in Int
    BY <1>0, RowColumns, AveragePriceInt
  <2> HIDE DEF price
  <2> QED  BY <1>0, <2>1, <2>2, <2>3, RowColumns, RowSound DEF Sound
<1>4. CASE e.type = "LeftoversAuction"
  <2>1. Acted(row, e) =
          Row(row.available, row.pending_buy, row.pending_sell, row.overdue_buy,
              row.overdue_sell, 0, row.avg_price, row.short)
    BY <1>0, <1>4 DEF Acted, CustodyRow, Row
  <2> QED  BY <1>0, <2>1, RowColumns, RowSound DEF Sound
<1> QED  BY <1>1, <1>2, <1>3, <1>4 DEF Malformed

-----------------------------------------------------------------------------
(* The settlement window. *)

\* slot_of finds a date that is in the window, and only such a date.
LEMMA SlotOfDate ==
  ASSUME NEW w, NEW d
  PROVE  /\ SlotOf(w, d) \in 0 .. 3
         /\ SlotOf(w, d) # 0 => SlotOf(w, d) \in Slots /\ w[SlotOf(w, d)] = d
         /\ SlotOf(w, d) = 0 => \A k \in Slots : w[k] # d
  BY DEF SlotOf, Slots

\* Rolling the window loses nothing: what was pending is in a slot of the new window
\* or has fallen out of it.
LEMMA RollKeepsSum ==
  ASSUME NEW old \in [Slots -> Int], NEW nova
  PROVE  /\ Moved(old, nova) \in [Slots -> Int] /\ Fallen(old, nova) \in Int
         /\ Sum3(Moved(old, nova)) + Fallen(old, nova) = Sum3(old)
         /\ (\A k \in Slots : old[k] >= 0) =>
              Fallen(old, nova) >= 0 /\ \A k \in Slots : Moved(old, nova)[k] >= 0
<1> DEFINE s(k) == SlotOf(nova, window[k])
           part(k, j) == IF s(k) = j THEN old[k] ELSE 0
<1>1. \A k \in Slots : s(k) \in 0 .. 3
  BY SlotOfDate
<1>2. /\ Fallen(old, nova) = part(1, 0) + part(2, 0) + part(3, 0)
      /\ Moved(old, nova) = [j \in Slots |-> part(1, j) + part(2, j) + part(3, j)]
  BY DEF Fallen, Moved, Sum3, Slots
<1>3. \A k \in Slots, j \in 0 .. 3 : part(k, j) \in Int /\ (old[k] >= 0 => part(k, j) >= 0)
  OBVIOUS
<1>4. \A k \in Slots : part(k, 0) + part(k, 1) + part(k, 2) + part(k, 3) = old[k]
  BY <1>1
<1> HIDE DEF part
<1> USE DEF Slots
<1>5. /\ \A j \in 0 .. 3 : part(1, j) \in Int /\ part(2, j) \in Int /\ part(3, j) \in Int
      /\ old[1] \in Int /\ old[2] \in Int /\ old[3] \in Int
  BY <1>3
<1>6. Moved(old, nova) \in [Slots -> Int] /\ Fallen(old, nova) \in Int
  BY <1>2, <1>5
<1>7. /\ part(1, 0) + part(1, 1) + part(1, 2) + part(1, 3) = old[1]
      /\ part(2, 0) + part(2, 1) + part(2, 2) + part(2, 3) = old[2]
      /\ part(3, 0) + part(3, 1) + part(3, 2) + part(3, 3) = old[3]
  BY <1>4
<1>8. Sum3(Moved(old, nova)) + Fallen(old, nova) = Sum3(old)
  BY <1>2, <1>5, <1>7 DEF Sum3
<1>9. ASSUME \A k \in Slots : old[k] >= 0
      PROVE  Fallen(old, nova) >= 0 /\ \A k \in Slots : Moved(old, nova)[k] >= 0
  <2>1. \A j \in 0 .. 3 : part(1, j) >= 0 /\ part(2, j) >= 0 /\ part(3, j) >= 0
    BY <1>3, <1>9
  <2> QED  BY <1>2, <1>5, <2>1
<1> QED  BY <1>6, <1>8, <1>9

\* Rolling the window keeps a row of custody sound.
LEMMA RolledSound ==
  ASSUME NEW row, Sound(row), NEW nova
  PROVE  Sound(RolledCustody(row, nova))
<1>0. row \in CustodyRow
  BY DEF Sound
<1> DEFINE buy == Moved(row.pending_buy, nova)
           sell == Moved(row.pending_sell, nova)
           fbuy == Fallen(row.pending_buy, nova)
           fsell == Fallen(row.pending_sell, nova)
<1>1. RolledCustody(row, nova) =
        Row(row.available, buy, sell, row.overdue_buy + fbuy, row.overdue_sell + fsell,
            row.leftovers, row.avg_price, row.short)
  <2>1. RolledCustody(row, nova) =
          [row EXCEPT !.pending_buy = buy, !.pending_sell = sell,
                      !.overdue_buy = @ + fbuy, !.overdue_sell = @ + fsell]
    BY Zenon DEF RolledCustody
  <2> HIDE DEF buy, sell, fbuy, fsell
  <2> QED  BY <1>0, <2>1 DEF CustodyRow, Row
<1>2. /\ buy \in [Slots -> Int] /\ sell \in [Slots -> Int] /\ fbuy \in Int /\ fsell \in Int
      /\ fbuy >= 0 /\ fsell >= 0 /\ \A k \in Slots : buy[k] >= 0 /\ sell[k] >= 0
  BY <1>0, RowColumns, RollKeepsSum DEF Sound
<1> HIDE DEF buy, sell, fbuy, fsell
<1>3. /\ row.overdue_buy + fbuy \in Int /\ row.overdue_buy + fbuy >= 0
      /\ row.overdue_sell + fsell \in Int /\ row.overdue_sell + fsell >= 0
  BY <1>0, <1>2, RowColumns DEF Sound
<1>4. Sound(Row(row.available, buy, sell, row.overdue_buy + fbuy, row.overdue_sell + fsell,
                row.leftovers, row.avg_price, row.short))
  BY <1>0, <1>2, <1>3, RowColumns, RowSound, ZenonT(60) DEF Sound
<1> QED  BY <1>1, <1>4

-----------------------------------------------------------------------------
(* The states of a trade. *)

\* The table of transitions, without the one that closes a trade: no trade of the
\* table goes back to Executed, and only an executed one becomes Allocated.
LEMMA TradeEdges ==
  ASSUME NEW s, NEW g, NextState(s, g) # "None"
  PROVE  /\ NextState(s, g) \in TradeStates
         /\ <<s, g, NextState(s, g)>> \in kEdges
<1>1. PICK edge \in kEdges : edge[1] = s /\ edge[2] = g
  BY DEF NextState
<1> DEFINE x == CHOOSE edge2 \in kEdges : edge2[1] = s /\ edge2[2] = g
<1>2. x \in kEdges /\ x[1] = s /\ x[2] = g
  BY <1>1
<1>3. NextState(s, g) = x[3]
  BY <1>1 DEF NextState
<1> HIDE DEF x
<1>4. x[3] \in TradeStates
  BY <1>2 DEF TradeStates
<1>5. x = <<x[1], x[2], x[3]>>
  BY <1>2 DEF kEdges
<1> QED  BY <1>2, <1>3, <1>4, <1>5


\* An edge of the table is taken.
LEMMA EdgeTaken ==
  ASSUME NEW s, NEW g, NEW y, <<s, g, y>> \in kEdges
  PROVE  NextState(s, g) = y
<1> DEFINE x == CHOOSE edge \in kEdges : edge[1] = s /\ edge[2] = g
<1>1. \E edge \in kEdges : edge[1] = s /\ edge[2] = g
  OBVIOUS
<1>2. x \in kEdges /\ x[1] = s /\ x[2] = g
  BY <1>1
<1>3. NextState(s, g) = x[3]
  BY <1>1 DEF NextState
<1> HIDE DEF x
<1>4. x[3] = y
  BY <1>2 DEF kEdges
<1> QED  BY <1>3, <1>4

-----------------------------------------------------------------------------
(* The inductive invariant, one part for each group of variables. *)

\* The window is closed, or three days in a row.
Consecutive(w) == w[1] > 0 /\ w[2] = w[1] + 1 /\ w[3] = w[1] + 2

WindowInv ==
  /\ cap \in Capacities
  /\ window \in [Slots -> Nat]
  /\ Consecutive(window) \/ \A k \in Slots : window[k] = 0

\* A table with rows of U, at most n.
Fits(T, U, n) == T \subseteq U /\ IsFiniteSet(T) /\ Cardinality(T) <= n

TablesInv ==
  /\ Fits(accounts, Documents, cap.accounts)
  /\ Fits(positions, Positions, cap.positions)

QueueInv ==
  /\ exceptions \in 0 .. MaxExceptions /\ divergence \in BOOLEAN
  /\ halted \in {"no", "full", "I3", "eod"}

BooksInv ==
  /\ price_factor \in [Instruments -> Nat]
  /\ custody \in [Positions -> CustodyRow]
  /\ \A p \in Positions : Sound(custody[p])
  /\ cash \in [Documents -> CashRow]

\* A trade of the table has the date it was booked for.
AsBooked(t) ==
  trades[t].qty > 0 /\ booked[t].times = 1 /\ trades[t].date = booked[t].date

\* A trade that was booked is in the table or its date is past.
Known(t) ==
  /\ booked[t].times <= 1
  /\ booked[t].times = 1 =>
       booked[t].date <= window[3] /\ (t \in DOMAIN trades \/ booked[t].date < window[1])

\* A trade bought in before its date left the window had failed.
Covered(t) ==
  /\ booked[t].times = 1
  /\ t \in DOMAIN trades /\ InWindow(trades[t].date) =>
       trades[t].state \notin {"Executed", "Allocated"}

TradesInv ==
  /\ Fits(DOMAIN trades, TradeIds, cap.trades)
  /\ trades \in [DOMAIN trades -> TradeRow]
  /\ booked \in [TradeIds -> [date : Nat, times : Nat]]
  /\ \A t \in DOMAIN trades : AsBooked(t)
  /\ \A t \in TradeIds : Known(t)
  /\ boughtIn \subseteq TradeIds
  /\ \A t \in boughtIn : Covered(t)

\* Whose trade each row has.
Owner == [i \in 1 .. Len(rows) |-> trades[rows[i]].account]

\* Every trade has one row, and the links thread the rows of each account.
ListsInv ==
  /\ rows \in Seq(DOMAIN trades) /\ Injective(rows, 1 .. Len(rows))
  /\ \A t \in DOMAIN trades : \E i \in 1 .. Len(rows) : rows[i] = t
  /\ Threaded(Documents, 1 .. Len(rows), first, next, Owner)

\* A key accepted within the retention window is in the generation in use, or in the
\* other one, accepted before the last rotation.
Guarded(ks, day, key) ==
  \/ key \in ks.gen[ks.cur]
  \/ key \in ks.gen[3 - ks.cur] /\ day < ks.rot

KeysInv ==
  /\ applied \in [KeySets -> KeySet]
  /\ recent \in [KeySets -> [Pairs -> [day : Nat, times : Nat]]]
  /\ \A s \in KeySets, key \in Pairs :
       /\ recent[s][key].times <= 1
       /\ recent[s][key].times = 1 =>
            recent[s][key].day <= window[1] /\ Guarded(applied[s], recent[s][key].day, key)

LInv ==
  /\ WindowInv /\ TablesInv /\ QueueInv /\ BooksInv
  /\ TradesInv /\ ListsInv /\ KeysInv /\ PendingCashIsTheTrades

\* The partition starts with empty tables and a closed window.
LEMMA InitLInv ==
  ASSUME Init
  PROVE  LInv
<1> USE LedgerAssumption
<1>1. WindowInv
  BY DEF Init, WindowInv, Slots
<1>2. TablesInv
  <2>1. cap.accounts \in Nat /\ cap.positions \in Nat
    BY DEF Init
  <2> QED  BY <2>1, FS_EmptySet DEF Init, TablesInv, Fits
<1>3. QueueInv
  <2>1. MaxExceptions \in Nat
    OBVIOUS
  <2>2. exceptions \in 0 .. MaxExceptions
    BY <2>1 DEF Init
  <2>3. divergence \in BOOLEAN /\ halted \in {"no", "full", "I3", "eod"}
    BY Zenon DEF Init
  <2> QED  BY <2>2, <2>3 DEF QueueInv
<1>4. BooksInv
  <2>1. Sound(EmptyCustody) /\ EmptyCash \in CashRow
    BY DEF EmptyCustody, EmptyCash, Sound, CustodyRow, CashRow, NoSlots, Slots
  <2> QED  BY <2>1 DEF Init, BooksInv, Sound
<1>5. TradesInv
  <2>1. DOMAIN trades = {} /\ cap.trades \in Nat
    BY DEF Init
  <2>2. Fits(DOMAIN trades, TradeIds, cap.trades)
    BY <2>1, FS_EmptySet DEF Fits
  <2>3. trades \in [DOMAIN trades -> TradeRow]
    BY DEF Init
  <2> QED  BY <2>1, <2>2, <2>3 DEF Init, TradesInv, Known
<1>6. ListsInv
  <2>1. rows = <<>> /\ next = <<>> /\ first = [a \in Documents |-> Nil] /\ DOMAIN trades = {}
    BY DEF Init
  <2>2. Len(rows) = 0 /\ 1 .. Len(rows) = {} /\ DOMAIN next = {}
    BY <2>1
  <2>3. Owner = [i \in {} |-> Owner[i]]
    BY <2>2, Zenon DEF Owner
  <2>4. first \in [Documents -> {} \cup {Nil}] /\ next \in [{} -> {} \cup {Nil}]
    BY <2>1
  <2>5. DOMAIN Owner = {}
    BY <2>2, Zenon DEF Owner
  <2>6. \A a : Owned(Owner, a) = {}
    BY <2>5 DEF Owned
  <2>7. Threaded(Documents, {}, first, next, Owner)
    BY <2>1, <2>3, <2>4, <2>6 DEF Threaded
  <2>8. rows \in Seq(DOMAIN trades)
    BY <2>1
  <2> QED  BY <2>1, <2>2, <2>7, <2>8 DEF ListsInv, Injective
<1>7. KeysInv
  BY DEF Init, KeysInv, EmptyKeys, KeySet, Never
<1>8. PendingCashIsTheTrades
  <2> SUFFICES ASSUME NEW a \in Documents, NEW k \in Slots
               PROVE  cash[a].pending[k] =
                        SumFunctionOnSet(TradeCash,
                          {t \in DOMAIN trades : /\ trades[t].account = a /\ trades[t].date = window[k]
                                                 /\ Pending(t)})
    BY DEF PendingCashIsTheTrades
  <2>1. {t \in DOMAIN trades : /\ trades[t].account = a /\ trades[t].date = window[k]
                               /\ Pending(t)} = {}
    BY DEF Init
  <2>2. cash[a].pending[k] = 0
    BY DEF Init, EmptyCash, NoSlots
  <2> QED  BY <2>1, <2>2, SumEmpty, Zenon
<1> QED  BY <1>1, <1>2, <1>3, <1>4, <1>5, <1>6, <1>7, <1>8 DEF LInv

\* The invariant says that the tables hold what they may hold.
LEMMA LInvType ==
  ASSUME LInv
  PROVE  TypeOK
<1>1. WindowInv /\ TablesInv /\ QueueInv /\ BooksInv /\ TradesInv /\ ListsInv /\ KeysInv
  BY DEF LInv
<1>2. /\ rows \in Seq(DOMAIN trades)
      /\ first \in [Documents -> 0 .. Len(rows)] /\ next \in [DOMAIN rows -> 0 .. Len(rows)]
  <2>1. rows \in Seq(DOMAIN trades) /\ DOMAIN rows = 1 .. Len(rows) /\ Len(rows) \in Nat
    BY <1>1 DEF ListsInv
  <2>2. (1 .. Len(rows)) \cup {Nil} = 0 .. Len(rows)
    BY <2>1 DEF Nil
  <2>3. /\ first \in [Documents -> (1 .. Len(rows)) \cup {Nil}]
        /\ next \in [1 .. Len(rows) -> (1 .. Len(rows)) \cup {Nil}]
    BY <1>1, Zenon DEF ListsInv, Threaded
  <2> QED  BY <2>1, <2>2, <2>3
<1> QED  BY <1>1, <1>2 DEF TypeOK, WindowInv, TablesInv, QueueInv, BooksInv, TradesInv, KeysInv, Fits

-----------------------------------------------------------------------------
(* What a step leaves alone keeps its part of the invariant. *)

\* The window and the capacities.
LEMMA WindowFrame ==
  ASSUME WindowInv, UNCHANGED <<cap, window>>
  PROVE  WindowInv'
  BY DEF WindowInv, Consecutive

\* The ledgers.
LEMMA BooksFrame ==
  ASSUME BooksInv, UNCHANGED <<price_factor, bookVars>>
  PROVE  BooksInv'
  BY DEF BooksInv, Sound, bookVars

\* The table of trades.
LEMMA TradesFrame ==
  ASSUME TradesInv, UNCHANGED <<cap, window, trades, historyVars>>
  PROVE  TradesInv'
  BY DEF TradesInv, historyVars, AsBooked, Known, Covered, InWindow

\* The settlement lists.
LEMMA ListsFrame ==
  ASSUME ListsInv, UNCHANGED tradeVars
  PROVE  ListsInv'
<1>1. UNCHANGED <<trades, rows, first, next>>
  BY DEF tradeVars, listVars
<1>2. Owner' = Owner
  BY <1>1 DEF Owner
<1> QED  BY <1>1, <1>2 DEF ListsInv

\* The lists stay right when no trade changes hands.
LEMMA ListsSame ==
  ASSUME ListsInv, UNCHANGED listVars, DOMAIN trades' = DOMAIN trades,
         \A t \in DOMAIN trades : trades'[t].account = trades[t].account
  PROVE  ListsInv'
<1>1. UNCHANGED <<rows, first, next>>
  BY DEF listVars
<1>2. \A i \in 1 .. Len(rows) : rows[i] \in DOMAIN trades
  BY DEF ListsInv
<1>3. Owner' = Owner
  BY <1>1, <1>2 DEF Owner
<1> QED  BY <1>1, <1>3 DEF ListsInv

\* Every row belongs to an account.
LEMMA OwnersAreDocuments ==
  ASSUME ListsInv, TradesInv
  PROVE  \A i \in 1 .. Len(rows) : rows[i] \in DOMAIN trades /\ Owner[i] \in Documents
<1>1. \A i \in 1 .. Len(rows) : rows[i] \in DOMAIN trades
  BY DEF ListsInv
<1>2. \A t \in DOMAIN trades : trades[t].account \in Documents
  BY DEF TradesInv, TradeRow
<1>3. \A i \in 1 .. Len(rows) : Owner[i] = trades[rows[i]].account
  BY Zenon DEF Owner
<1> QED  BY <1>1, <1>2, <1>3

\* There is something that is no document: the owner of a row on no list.
LEMMA NobodyExists == \E x : x \notin Documents
<1> DEFINE R == {d \in Documents : d \notin d}
<1>1. R \notin Documents
  OBVIOUS
<1> QED  BY <1>1

\* The idempotency sets.
LEMMA KeysFrame ==
  ASSUME KeysInv, UNCHANGED <<window, keyVars>>
  PROVE  KeysInv'
  BY DEF KeysInv, keyVars, Guarded

\* The cash to settle.
LEMMA PendingFrame ==
  ASSUME PendingCashIsTheTrades, UNCHANGED <<window, cash, trades, boughtIn>>
  PROVE  PendingCashIsTheTrades'
  BY ZenonT(60) DEF PendingCashIsTheTrades, TradeCash, Pending

\* A handler that refuses an event changes no more than the tables of rows and the
\* reason to stop.
LEMMA Refused ==
  ASSUME LInv, UNCHANGED <<cap, window, price_factor>>, NoEffect, TablesInv',
         halted' \in {halted, "full"}
  PROVE  LInv'
<1>1. /\ UNCHANGED <<bookVars, tradeVars, keyVars, queueVars, historyVars>>
      /\ UNCHANGED <<exceptions, divergence>> /\ UNCHANGED <<trades, cash, boughtIn>>
  BY DEF NoEffect, bookVars, tradeVars, queueVars, historyVars
<1>2. QueueInv'
  BY <1>1 DEF LInv, QueueInv
<1>3. BooksInv'
  BY <1>1, BooksFrame DEF LInv
<1>4. TradesInv' /\ ListsInv'
  BY <1>1, TradesFrame, ListsFrame DEF LInv
<1>5. KeysInv'
  BY <1>1, KeysFrame DEF LInv
<1>6. PendingCashIsTheTrades'
  BY <1>1, PendingFrame DEF LInv
<1>7. WindowInv'
  BY WindowFrame DEF LInv
<1> QED  BY <1>2, <1>3, <1>4, <1>5, <1>6, <1>7 DEF LInv

\* Nothing changes.
LEMMA Stutter ==
  ASSUME LInv, UNCHANGED vars
  PROVE  LInv'
<1>1. /\ UNCHANGED <<cap, window, price_factor>> /\ NoEffect
      /\ UNCHANGED <<accounts, positions>> /\ halted' = halted
  BY Zenon DEF vars, tableVars, NoEffect
<1>2. TablesInv'
  BY <1>1 DEF LInv, TablesInv, Positions
<1> QED  BY <1>1, <1>2, Refused

-----------------------------------------------------------------------------
(* Rows that are interned. *)

\* A row added to a table that is not full.
LEMMA FitsOne ==
  ASSUME NEW T, NEW U, NEW n \in Nat, Fits(T, U, n), NEW x \in U, Cardinality(T) < n
  PROVE  Fits(T \cup {x}, U, n)
<1>1. IsFiniteSet(T) /\ Cardinality(T) \in Nat
  BY FS_CardinalityType DEF Fits
<1>2. /\ IsFiniteSet(T \cup {x})
      /\ Cardinality(T \cup {x}) \in {Cardinality(T), Cardinality(T) + 1}
  BY <1>1, FS_AddElement
<1> QED  BY <1>1, <1>2 DEF Fits

\* Two rows, if there was room left after the first.
LEMMA FitsTwo ==
  ASSUME NEW T, NEW U, NEW n \in Nat, Fits(T, U, n), NEW x \in U, NEW y \in U,
         Cardinality(T \cup {x}) < n
  PROVE  Fits(T \cup {x}, U, n) /\ Fits(T \cup {x, y}, U, n)
<1>1. IsFiniteSet(T \cup {x})
  BY FS_AddElement DEF Fits
<1>2. Fits(T \cup {x}, U, n)
  BY <1>1, FS_CardinalityType DEF Fits
<1>3. Fits((T \cup {x}) \cup {y}, U, n)
  BY <1>2, FitsOne
<1>4. (T \cup {x}) \cup {y} = T \cup {x, y}
  OBVIOUS
<1> QED  BY <1>2, <1>3, <1>4, Zenon

\* The sizes of the tables.
LEMMA Capacity ==
  ASSUME WindowInv
  PROVE  cap.accounts \in Nat /\ cap.positions \in Nat /\ cap.trades \in Nat
  BY LedgerAssumption DEF WindowInv

\* Interning nothing, or one row where there is room.
LEMMA InternedOne ==
  ASSUME LInv, cap' = cap, NEW as, NEW ps, Interned(as, ps),
         as = {} \/ (RoomForAccount({}) /\ \E x \in Documents : as = {x}),
         ps = {} \/ (RoomForPosition({}) /\ \E x \in Positions : ps = {x})
  PROVE  TablesInv'
<1>1. cap.accounts \in Nat /\ cap.positions \in Nat /\ TablesInv
  BY Capacity DEF LInv
<1>2. accounts' = accounts \cup as /\ positions' = positions \cup ps
  BY DEF Interned
<1>3. accounts \cup {} = accounts /\ positions \cup {} = positions
  OBVIOUS
<1>4. Fits(accounts \cup as, Documents, cap.accounts)
  <2>1. CASE as = {}
    BY <1>1, <1>3, <2>1, Zenon DEF TablesInv
  <2>2. CASE RoomForAccount({}) /\ \E x \in Documents : as = {x}
    <3>1. PICK x \in Documents : as = {x}
      BY <2>2
    <3>2. Cardinality(accounts) < cap.accounts
      BY <1>3, <2>2, Zenon DEF RoomForAccount
    <3>3. Fits(accounts \cup {x}, Documents, cap.accounts)
      BY <1>1, <3>2, FitsOne DEF TablesInv
    <3> QED  BY <3>1, <3>3, Zenon
  <2> QED  BY <2>1, <2>2
<1>5. Fits(positions \cup ps, Positions, cap.positions)
  <2>1. CASE ps = {}
    BY <1>1, <1>3, <2>1, Zenon DEF TablesInv
  <2>2. CASE RoomForPosition({}) /\ \E x \in Positions : ps = {x}
    <3>1. PICK x \in Positions : ps = {x}
      BY <2>2
    <3>2. Cardinality(positions) < cap.positions
      BY <1>3, <2>2, Zenon DEF RoomForPosition
    <3>3. Fits(positions \cup {x}, Positions, cap.positions)
      BY <1>1, <3>2, FitsOne DEF TablesInv
    <3> QED  BY <3>1, <3>3, Zenon
  <2> QED  BY <2>1, <2>2
<1> QED  BY <1>2, <1>4, <1>5, Zenon DEF TablesInv

-----------------------------------------------------------------------------
(* The opening of a day. *)

\* The rows of cash have integers, and rolling the window keeps the money of a row.
LEMMA RolledCashRow ==
  ASSUME NEW row \in CashRow, NEW nova
  PROVE  /\ RolledCash(row, nova) \in CashRow
         /\ RolledCash(row, nova).pending = Moved(row.pending, nova)
         /\ Money(RolledCash(row, nova)) = Money(row)
<1> DEFINE moved == Moved(row.pending, nova)
           fallen == Fallen(row.pending, nova)
<1>1. RolledCash(row, nova) = [row EXCEPT !.pending = moved, !.overdue = @ + fallen]
  BY Zenon DEF RolledCash
<1>2. /\ row.pending \in [Slots -> Int] /\ row.overdue \in Int /\ row.cash \in Int /\ row.income \in Int
      /\ row = [cash |-> row.cash, pending |-> row.pending, overdue |-> row.overdue, income |-> row.income]
  BY DEF CashRow
<1>3. moved \in [Slots -> Int] /\ fallen \in Int /\ Sum3(moved) + fallen = Sum3(row.pending)
  BY <1>2, RollKeepsSum
<1> HIDE DEF moved, fallen
<1>4. /\ RolledCash(row, nova).pending = moved
      /\ RolledCash(row, nova).overdue = row.overdue + fallen
      /\ RolledCash(row, nova).cash = row.cash
      /\ RolledCash(row, nova) \in CashRow
  <2>1. RolledCash(row, nova) =
          [cash |-> row.cash, pending |-> moved, overdue |-> row.overdue + fallen, income |-> row.income]
    BY <1>1, <1>2
  <2>2. row.overdue + fallen \in Int
    BY <1>2, <1>3
  <2> QED  BY <1>2, <1>3, <2>1, <2>2 DEF CashRow
<1>5. Sum3(moved) \in Int /\ Sum3(row.pending) \in Int
  BY <1>2, <1>3 DEF Sum3, Slots
<1>6. Money(RolledCash(row, nova)) = Money(row)
  BY <1>2, <1>3, <1>4, <1>5 DEF Money
<1> QED  BY <1>4, <1>6 DEF moved

\* A new window starts later than the last one: a date of both was in neither's past,
\* and the dates of the new one that are not in the old one are later than all its dates.
LEMMA NewWindow ==
  ASSUME WindowInv, NEW d \in Nat, NEW nova, nova = <<d, d + 1, d + 2>>, d > window[1]
  PROVE  /\ nova \in [Slots -> Nat] /\ Consecutive(nova)
         /\ \A x \in Nat : x <= window[3] =>
              /\ x <= nova[3]
              /\ SlotOf(nova, x) = 0 => x < nova[1]
              /\ SlotOf(nova, x) # 0 => SlotOf(window, x) # 0
  BY DEF WindowInv, Consecutive, SlotOf, Slots

\* The days of the window are found in their slots.
LEMMA SlotOfDay ==
  ASSUME NEW w \in [Slots -> Nat], Consecutive(w), NEW k \in Slots
  PROVE  SlotOf(w, w[k]) = k
  BY DEF Consecutive, SlotOf, Slots

\* What is pending for a day of the new window was pending for that day, or is nothing.
LEMMA MovedIs ==
  ASSUME WindowInv, NEW d \in Nat, NEW nova, nova = <<d, d + 1, d + 2>>, d > window[1],
         NEW old \in [Slots -> Int], NEW j \in Slots
  PROVE  \/ \E k \in Slots : /\ window[k] = nova[j] /\ Moved(old, nova)[j] = old[k]
                             /\ SlotOf(window, window[k]) = k
         \/ nova[j] > window[3] /\ Moved(old, nova)[j] = 0
<1> DEFINE part(k) == IF SlotOf(nova, window[k]) = j THEN old[k] ELSE 0
<1>1. Moved(old, nova)[j] = part(1) + part(2) + part(3)
  BY DEF Moved, Sum3, Slots
<1>2. nova \in [Slots -> Nat] /\ Consecutive(nova)
  BY NewWindow
<1>3. \A k \in Slots : (SlotOf(nova, window[k]) = j) <=> (window[k] = nova[j])
  BY <1>2, SlotOfDate, SlotOfDay
<1>4. CASE \A k \in Slots : window[k] = 0
  BY <1>1, <1>3, <1>4 DEF Slots
<1>5. CASE Consecutive(window)
  <2>1. \A k \in Slots : SlotOf(window, window[k]) = k
    BY <1>5, SlotOfDay DEF WindowInv
  <2>2. CASE \E k \in Slots : window[k] = nova[j]
    <3>1. PICK k \in Slots : window[k] = nova[j]
      BY <2>2
    <3>2. \A i \in Slots : i # k => window[i] # nova[j]
      BY <1>5, <3>1 DEF Consecutive, Slots, WindowInv
    <3>3. part(k) = old[k] /\ \A i \in Slots : i # k => part(i) = 0
      BY <1>3, <3>1, <3>2
    <3> HIDE DEF part
    <3>4. Moved(old, nova)[j] = old[k]
      BY <1>1, <3>3 DEF Slots
    <3> QED  BY <2>1, <3>1, <3>4
  <2>3. CASE \A k \in Slots : window[k] # nova[j]
    <3>1. \A k \in Slots : part(k) = 0
      BY <1>3, <2>3
    <3>2. Moved(old, nova)[j] = 0
      BY <1>1, <3>1 DEF Slots
    <3>3. nova[j] > window[3]
      BY <1>5, <2>3 DEF Consecutive, Slots, WindowInv
    <3> QED  BY <3>2, <3>3
  <2> QED  BY <2>2, <2>3
<1> QED  BY <1>4, <1>5 DEF WindowInv

\* The trades due on a date, as the invariant counts them.
PendingOn(a, d) ==
  {t \in DOMAIN trades : trades[t].account = a /\ trades[t].date = d /\ Pending(t)}

\* They are finitely many, with a cash column of integers.
LEMMA PendingOnSummable ==
  ASSUME TradesInv, NEW a, NEW d
  PROVE  /\ IsFiniteSet(PendingOn(a, d)) /\ PendingOn(a, d) \subseteq DOMAIN trades
         /\ \A t \in DOMAIN trades : TradeCash[t] = trades[t].cash /\ TradeCash[t] \in Int
<1>1. PendingOn(a, d) \subseteq DOMAIN trades
  BY DEF PendingOn
<1>2. IsFiniteSet(PendingOn(a, d))
  BY <1>1, FS_Subset DEF TradesInv, Fits
<1>3. \A t \in DOMAIN trades : TradeCash[t] = trades[t].cash /\ TradeCash[t] \in Int
  BY DEF TradesInv, TradeCash, TradeRow
<1> QED  BY <1>1, <1>2, <1>3

\* The keys of a set when a day is opened: what is still within the retention window
\* stays in a generation (two_generation_set, maybe_rotate).
LEMMA RotateGuards ==
  ASSUME NEW ks \in KeySet, NEW today \in Nat, NEW day \in Nat, day < today,
         ~(today - day > Retention), NEW key, Guarded(ks, day, key)
  PROVE  Guarded(MaybeRotate(ks, today), day, key)
<1>1. ks.cur \in 1 .. 2 /\ 3 - ks.cur \in 1 .. 2 /\ 3 - (3 - ks.cur) = ks.cur /\ 3 - ks.cur # ks.cur
  BY DEF KeySet
<1>2. ks.rot \in Nat /\ Retention \in Nat
  BY LedgerAssumption DEF KeySet
<1>3. CASE ks.rot = 0
  <2>1. key \in ks.gen[ks.cur]
    BY <1>2, <1>3 DEF Guarded
  <2> QED  BY <1>3, <2>1 DEF MaybeRotate, Guarded, KeySet
<1>4. CASE ks.rot # 0 /\ today - ks.rot < Retention
  BY <1>4 DEF MaybeRotate
<1>5. CASE ks.rot # 0 /\ ~(today - ks.rot < Retention)
  <2> DEFINE nova == [gen |-> [ks.gen EXCEPT ![3 - ks.cur] = {}], cur |-> 3 - ks.cur, rot |-> today]
  <2>1. MaybeRotate(ks, today) = nova
    BY <1>5 DEF MaybeRotate
  <2>2. key \in ks.gen[ks.cur]
    BY <1>2, <1>5 DEF Guarded
  <2>3. nova.gen[3 - nova.cur] = ks.gen[ks.cur] /\ nova.rot = today
    BY <1>1 DEF KeySet
  <2> HIDE DEF nova
  <2> QED  BY <2>1, <2>2, <2>3 DEF Guarded
<1> QED  BY <1>3, <1>4, <1>5

\* A set of keys stays one when it is rotated.
LEMMA RotateType ==
  ASSUME NEW ks \in KeySet, NEW today \in Nat
  PROVE  MaybeRotate(ks, today) \in KeySet
<1>1. ks.cur \in 1 .. 2 /\ 3 - ks.cur \in 1 .. 2
  BY DEF KeySet
<1>2. [ks.gen EXCEPT ![3 - ks.cur] = {}] \in [1 .. 2 -> SUBSET Pairs]
  BY <1>1 DEF KeySet
<1> QED  BY <1>1, <1>2 DEF MaybeRotate, KeySet

\* close_and_compact_trades drops trades that are settled and past, and no others; the
\* lists are rebuilt.
LEMMA CompactedTrades ==
  ASSUME TradesInv, ListsInv, NEW nova, CloseAndCompact(nova)
  PROVE  LET kept == {t \in DOMAIN trades :
                        ~ (trades[t].state = "Settled" /\ SlotOf(nova, trades[t].date) = 0)}
         IN  trades' = [t \in kept |-> trades[t]] /\ ListsInv'
<1> DEFINE kept == {t \in DOMAIN trades :
                      ~ (trades[t].state = "Settled" /\ SlotOf(nova, trades[t].date) = 0)}
<1>1. CASE kept = DOMAIN trades
  <2>1. UNCHANGED tradeVars
    BY <1>1 DEF CloseAndCompact
  <2>2. trades' = trades
    BY <2>1 DEF tradeVars
  <2>3. trades = [t \in kept |-> trades[t]]
    BY <1>1 DEF TradesInv
  <2>4. ListsInv'
    BY <2>1, ListsFrame
  <2> QED  BY <2>2, <2>3, <2>4
<1>2. CASE kept # DOMAIN trades
  <2>1. kept \subseteq DOMAIN trades /\ Compacted(kept)
    BY <1>2, Zenon DEF CloseAndCompact
  <2> HIDE DEF kept
  <2> DEFINE keep == {i \in DOMAIN rows : rows[i] \in kept}
             rs == Kept(rows, keep)
             own == [i \in DOMAIN rs |-> trades[rs[i]].account]
  <2>2. /\ trades' = [t \in kept |-> trades[t]] /\ rows' = rs
        /\ first' = [a \in Documents |-> NextOf(own, a, 0)]
        /\ next' = [i \in DOMAIN rs |-> NextOf(own, own[i], i)]
    BY <2>1, Zenon DEF Compacted
  <2>3. /\ rows \in Seq(DOMAIN trades) /\ Injective(rows, 1 .. Len(rows))
        /\ \A t \in DOMAIN trades : \E i \in 1 .. Len(rows) : rows[i] = t
        /\ DOMAIN rows = 1 .. Len(rows) /\ keep \in SUBSET (1 .. Len(rows))
    BY DEF ListsInv
  <2>4. KeptOK(DOMAIN trades, rs, Len(rows), rows, keep)
    <3> HIDE DEF keep
    <3> QED  BY <2>3, KeptHolds
  <2>5. keep \cap (1 .. Len(rows)) = keep /\ Injective(rows, keep)
    BY <2>3 DEF Injective
  <2>6. \A i \in keep : rows[i] \in kept
    OBVIOUS
  <2>7. \A t \in kept : \E i \in keep : rows[i] = t
    BY <2>1, <2>3
  <2> HIDE DEF keep, rs
  <2>8. /\ rs \in Seq(DOMAIN trades) /\ Injective(rs, 1 .. Len(rs))
        /\ \A i \in keep : \E j \in 1 .. Len(rs) : rs[j] = rows[i]
        /\ \A j \in 1 .. Len(rs) : \E i \in keep : rs[j] = rows[i]
    BY <2>4, <2>5 DEF KeptOK
  <2>9. DOMAIN rs = 1 .. Len(rs) /\ Len(rs) \in Nat
    BY <2>8
  <2>10. \A j \in 1 .. Len(rs) : rs[j] \in kept
    BY <2>6, <2>8
  <2>11. rs \in Seq(kept)
    BY <2>8, <2>9, <2>10
  <2>12. \A t \in kept : \E j \in 1 .. Len(rs) : rs[j] = t
    BY <2>7, <2>8
  <2>13. \A t \in kept : trades[t].account \in Documents
    BY <2>1 DEF TradesInv, TradeRow
  <2>14. own \in [1 .. Len(rs) -> Documents]
    BY <2>9, <2>10, <2>13
  <2>15. DOMAIN trades' = kept /\ \A t \in kept : trades'[t] = trades[t]
    BY <2>2
  <2>16. Owner' = own
    BY <2>2, <2>9, <2>10, <2>15 DEF Owner
  <2> HIDE DEF own
  <2>17. Threaded(Documents, 1 .. Len(rs), [a \in Documents |-> NextOf(own, a, 0)],
                  [i \in 1 .. Len(rs) |-> NextOf(own, own[i], i)], own)
    BY <2>9, <2>14, ListsRethreaded
  <2>18. Threaded(Documents, 1 .. Len(rows'), first', next', Owner')
    BY <2>2, <2>9, <2>16, <2>17, Zenon
  <2>19. ListsInv'
    BY <2>2, <2>8, <2>11, <2>12, <2>15, <2>18 DEF ListsInv
  <2> QED  BY <2>2, <2>19 DEF kept
<1> QED  BY <1>1, <1>2

\* Opening a day keeps the invariant.
LEMMA DayOpenedKeeps ==
  ASSUME LInv, NEW e \in DayEvents, ApplyDayOpened(e)
  PROVE  LInv'
<1>0. PICK d \in Days : e = [dates |-> <<d, d + 1, d + 2>>]
  BY DEF DayEvents
<1>1. CASE UNCHANGED vars
  BY <1>1, Stutter
<1>2. CASE e.dates[1] > window[1] /\ ~UNCHANGED vars
  <2> DEFINE nova == e.dates
             kept == {t \in DOMAIN trades :
                        ~ (trades[t].state = "Settled" /\ SlotOf(nova, trades[t].date) = 0)}
  <2>1. /\ window' = nova /\ cap' = cap
        /\ custody' = [p \in Positions |-> RolledCustody(custody[p], nova)]
        /\ cash' = [a \in Documents |-> RolledCash(cash[a], nova)]
        /\ applied' = [s \in KeySets |-> MaybeRotate(applied[s], nova[1])]
        /\ CloseAndCompact(nova)
        /\ recent' = Retained(nova[1])
        /\ accounts' = accounts /\ positions' = positions /\ price_factor' = price_factor
        /\ UNCHANGED <<exceptions, divergence, halted>>
        /\ UNCHANGED <<booked, boughtIn>>
    BY <1>2, Zenon DEF ApplyDayOpened, tableVars, queueVars, historyVars
  <2>2. d \in Nat /\ nova = <<d, d + 1, d + 2>> /\ nova[1] = d /\ d > window[1]
    BY <1>0, <1>2, LedgerAssumption
  <2>3. WindowInv /\ BooksInv /\ TradesInv /\ ListsInv /\ KeysInv /\ PendingCashIsTheTrades /\ TablesInv /\ QueueInv
    BY DEF LInv
  <2>4. trades' = [t \in kept |-> trades[t]] /\ ListsInv'
    BY <2>1, <2>3, CompactedTrades
  <2>5. /\ nova \in [Slots -> Nat] /\ Consecutive(nova)
        /\ \A x \in Nat : x <= window[3] =>
              /\ x <= nova[3]
              /\ SlotOf(nova, x) = 0 => x < nova[1]
              /\ SlotOf(nova, x) # 0 => SlotOf(window, x) # 0
    BY <2>2, <2>3, NewWindow
  <2>6. DOMAIN trades' = kept /\ kept \subseteq DOMAIN trades /\ \A t \in kept : trades'[t] = trades[t]
    BY <2>4
  <2>7. WindowInv'
    BY <2>1, <2>3, <2>5 DEF WindowInv, Consecutive
  <2>8. TablesInv' /\ QueueInv'
    BY <2>1, <2>3 DEF TablesInv, QueueInv, Positions
  <2> HIDE DEF kept, nova
  <2>9. BooksInv'
    <3>1. \A p \in Positions : Sound(custody'[p]) /\ custody'[p] \in CustodyRow
      BY <2>1, <2>3, RolledSound DEF BooksInv, Sound
    <3>2. cash' \in [Documents -> CashRow]
      BY <2>1, <2>3, RolledCashRow DEF BooksInv
    <3>3. custody' \in [Positions -> CustodyRow]
      BY <2>1, <3>1
    <3> QED  BY <2>1, <2>3, <3>1, <3>2, <3>3 DEF BooksInv, Sound
  <2>10. TradesInv'
    <3>1. Fits(kept, TradeIds, cap.trades)
      <4>1. IsFiniteSet(kept) /\ Cardinality(kept) <= Cardinality(DOMAIN trades)
        BY <2>3, <2>6, FS_Subset DEF TradesInv, Fits
      <4>2. Cardinality(kept) \in Nat /\ Cardinality(DOMAIN trades) \in Nat
        BY <2>3, <4>1, FS_CardinalityType DEF TradesInv, Fits
      <4> QED  BY <2>3, <2>6, <4>1, <4>2, Capacity DEF TradesInv, Fits
    <3>2. trades' \in [kept -> TradeRow]
      BY <2>3, <2>4, <2>6 DEF TradesInv
    <3>3. \A t \in DOMAIN trades' : AsBooked(t)'
      BY <2>1, <2>3, <2>6 DEF TradesInv, AsBooked
    <3>4. ASSUME NEW t \in TradeIds  PROVE Known(t)'
      <4>1. Known(t) /\ booked[t].date \in Nat
        BY <2>3 DEF TradesInv
      <4>2. ASSUME booked[t].times = 1, t \notin kept  PROVE booked[t].date < nova[1]
        <5>1. CASE t \in DOMAIN trades
          <6>1. AsBooked(t)
            BY <2>3, <5>1 DEF TradesInv
          <6>2. SlotOf(nova, booked[t].date) = 0
            BY <4>2, <5>1, <6>1 DEF kept, AsBooked
          <6> QED  BY <2>5, <4>1, <4>2, <6>2 DEF Known
        <5>2. CASE t \notin DOMAIN trades
          BY <2>2, <2>3, <4>1, <4>2, <5>2 DEF Known, WindowInv, Slots
        <5> QED  BY <5>1, <5>2
      <4> QED  BY <2>1, <2>5, <2>6, <4>1, <4>2 DEF Known
    <3>5. ASSUME NEW t \in boughtIn  PROVE Covered(t)'
      <4>1. Covered(t) /\ t \in TradeIds
        BY <2>3 DEF TradesInv
      <4>2. ASSUME t \in kept, SlotOf(nova, trades[t].date) # 0
            PROVE  trades[t].state \notin {"Executed", "Allocated"}
        <5>1. t \in DOMAIN trades /\ AsBooked(t) /\ Known(t) /\ booked[t].date \in Nat
          BY <2>3, <2>6, <4>1, <4>2 DEF TradesInv
        <5>2. SlotOf(window, trades[t].date) # 0
          BY <2>5, <4>2, <5>1 DEF AsBooked, Known
        <5> QED  BY <4>1, <5>1, <5>2 DEF Covered, InWindow
      <4>3. t \in kept => trades'[t] = trades[t]
        BY <2>6
      <4> QED  BY <2>1, <2>6, <4>1, <4>2, <4>3 DEF Covered, InWindow
    <3> QED  BY <2>1, <2>3, <2>6, <3>1, <3>2, <3>3, <3>4, <3>5 DEF TradesInv
  <2>11. KeysInv'
    <3>1. applied' \in [KeySets -> KeySet]
      BY <2>1, <2>2, <2>3, RotateType DEF KeysInv
    <3>2. \A s \in KeySets, key \in Pairs :
            recent'[s][key] = IF d - recent[s][key].day > Retention THEN Never ELSE recent[s][key]
      BY <2>1, <2>2 DEF Retained
    <3>3. recent' \in [KeySets -> [Pairs -> [day : Nat, times : Nat]]]
      <4>1. \A s \in KeySets, key \in Pairs :
              (IF d - recent[s][key].day > Retention THEN Never ELSE recent[s][key]) \in [day : Nat, times : Nat]
        BY <2>3 DEF KeysInv, Never
      <4> QED  BY <2>1, <2>2, <4>1 DEF Retained
    <3>4. ASSUME NEW s \in KeySets, NEW key \in Pairs
          PROVE  /\ recent'[s][key].times <= 1
                 /\ recent'[s][key].times = 1 =>
                      /\ recent'[s][key].day <= window'[1]
                      /\ Guarded(applied'[s], recent'[s][key].day, key)
      <4>1. /\ recent[s][key].times <= 1 /\ recent[s][key].day \in Nat /\ applied[s] \in KeySet
            /\ recent[s][key].times = 1 =>
                 /\ recent[s][key].day <= window[1]
                 /\ Guarded(applied[s], recent[s][key].day, key)
        BY <2>3 DEF KeysInv
      <4>2. CASE d - recent[s][key].day > Retention
        BY <3>2, <4>2 DEF Never
      <4>3. CASE ~(d - recent[s][key].day > Retention)
        <5>1. recent'[s][key] = recent[s][key]
          BY <3>2, <4>3
        <5>2. window[1] \in Nat /\ window'[1] = d /\ applied'[s] = MaybeRotate(applied[s], d)
          BY <2>1, <2>2, <2>3 DEF WindowInv, Slots
        <5>3. ASSUME recent[s][key].times = 1
              PROVE  Guarded(MaybeRotate(applied[s], d), recent[s][key].day, key)
          <6>1. recent[s][key].day < d
            BY <2>2, <4>1, <5>2, <5>3
          <6> QED  BY <2>2, <4>1, <4>3, <5>3, <6>1, RotateGuards
        <5> QED  BY <2>2, <4>1, <5>1, <5>2, <5>3
      <4> QED  BY <4>2, <4>3
    <3> QED  BY <3>1, <3>3, <3>4 DEF KeysInv, Guarded
  <2>12. PendingCashIsTheTrades'
    <3> SUFFICES ASSUME NEW a \in Documents, NEW j \in Slots
                 PROVE  cash'[a].pending[j] = SumFunctionOnSet(TradeCash', PendingOn(a, nova[j])')
      BY <2>1, Zenon DEF PendingCashIsTheTrades, PendingOn
    <3>1. cash[a] \in CashRow /\ cash[a].pending \in [Slots -> Int]
      BY <2>3 DEF BooksInv, CashRow
    <3>2. cash'[a].pending = Moved(cash[a].pending, nova)
      BY <2>1, <3>1, RolledCashRow
    <3>3. PendingOn(a, nova[j])' = PendingOn(a, nova[j])
      <4>1. \A t \in DOMAIN trades : Pending(t) => t \in kept
        BY DEF Pending, kept
      <4>2. \A t \in kept : Pending(t)' <=> Pending(t)
        BY <2>1, <2>6 DEF Pending
      <4> QED  BY <2>1, <2>6, <4>1, <4>2 DEF PendingOn
    <3>4. SumFunctionOnSet(TradeCash', PendingOn(a, nova[j])') = SumFunctionOnSet(TradeCash, PendingOn(a, nova[j]))
      <4>1. \A t \in PendingOn(a, nova[j]) : TradeCash'[t] = TradeCash[t]
        <5>1. PendingOn(a, nova[j]) \subseteq kept
          BY <2>6, <3>3 DEF PendingOn
        <5> QED  BY <2>6, <5>1 DEF TradeCash
      <4>2. IsFiniteSet(PendingOn(a, nova[j]))
        BY <2>3, PendingOnSummable
      <4>3. SumFunctionOnSet(TradeCash', PendingOn(a, nova[j])) = SumFunctionOnSet(TradeCash, PendingOn(a, nova[j]))
        BY <4>1, <4>2, SumAgree
      <4> QED  BY <3>3, <4>3, Zenon
    <3>5. CASE \E k \in Slots : /\ window[k] = nova[j] /\ Moved(cash[a].pending, nova)[j] = cash[a].pending[k]
                                /\ SlotOf(window, window[k]) = k
      <4>1. PICK k \in Slots : /\ window[k] = nova[j] /\ Moved(cash[a].pending, nova)[j] = cash[a].pending[k]
                               /\ SlotOf(window, window[k]) = k
        BY <3>5
      <4>2. cash[a].pending[k] = SumFunctionOnSet(TradeCash, PendingOn(a, window[k]))
        BY <2>3, <4>1, Zenon DEF PendingCashIsTheTrades, PendingOn
      <4> QED  BY <3>2, <3>4, <4>1, <4>2, Zenon
    <3>6. CASE nova[j] > window[3] /\ Moved(cash[a].pending, nova)[j] = 0
      <4>1. PendingOn(a, nova[j]) = {}
        <5>1. \A t \in DOMAIN trades : trades[t].date \in Nat /\ trades[t].date <= window[3]
          <6>1. \A t \in DOMAIN trades : AsBooked(t) /\ t \in TradeIds /\ Known(t) /\ booked[t].date \in Nat
            BY <2>3 DEF TradesInv, Fits
          <6> QED  BY <6>1 DEF AsBooked, Known
        <5>2. window[3] \in Nat
          BY <2>3 DEF WindowInv, Slots
        <5> QED  BY <2>5, <3>6, <5>1, <5>2 DEF PendingOn
      <4> QED  BY <3>2, <3>4, <3>6, <4>1, SumEmpty, Zenon
    <3> QED  BY <2>2, <2>3, <3>1, <3>5, <3>6, MovedIs
  <2> QED  BY <2>4, <2>7, <2>8, <2>9, <2>10, <2>11, <2>12 DEF LInv
<1> QED  BY <1>1, <1>2 DEF ApplyDayOpened

-----------------------------------------------------------------------------
(* The execution of a trade. *)

\* What an execution says.
LEMMA ExecutedEvent ==
  ASSUME LInv, NEW t \in TradeIds, NEW e \in ExecutedEvents(t)
  PROVE  /\ e.trade_id = t /\ e.account \in Documents /\ e.instrument \in Instruments
         /\ <<e.account, e.instrument>> \in Positions
         /\ e.side \in Sides /\ e.qty \in Int /\ e.price \in Int /\ e.fees \in Int
         /\ e.date \in Nat /\ e.short \in BOOLEAN
         /\ booked[t].times > 0 => e.date = booked[t].date
<1> DEFINE dates == IF booked[t].times > 0 THEN {booked[t].date} ELSE {window[1] + lag : lag \in Lags}
           sides == IF OneAccount THEN {"Buy"} ELSE Sides
<1>1. e \in [trade_id : {t}, account : Traders, instrument : Instruments,
             side : sides, qty : Lots, price : {UnitPrice}, fees : {Fees},
             date : dates, short : BOOLEAN]
  BY Zenon DEF ExecutedEvents
<1>2. dates \subseteq Nat
  BY LedgerAssumption DEF LInv, TradesInv, WindowInv, Slots
<1>3. sides \subseteq Sides
  BY DEF Sides
<1>4. booked[t].times > 0 => dates = {booked[t].date}
  OBVIOUS
<1> HIDE DEF dates, sides
<1>5. /\ e.trade_id = t /\ e.account \in Traders /\ e.instrument \in Instruments /\ e.side \in sides
      /\ e.qty \in Lots /\ e.price = UnitPrice /\ e.fees = Fees /\ e.date \in dates /\ e.short \in BOOLEAN
  BY <1>1
<1>6. /\ e.account \in Documents /\ <<e.account, e.instrument>> \in Positions
      /\ e.qty \in Int /\ e.price \in Int /\ e.fees \in Int
  <2>1. e.account \in Traders /\ e.qty \in Lots /\ e.price = UnitPrice /\ e.fees = Fees
    BY <1>5
  <2>2. UnitPrice \in Int /\ Fees \in Int /\ Traders \subseteq Documents /\ Lots \subseteq Int
    BY LedgerAssumption
  <2> QED  BY <1>5, <2>1, <2>2 DEF Positions
<1>7. e.side \in Sides /\ e.date \in Nat /\ (booked[t].times > 0 => e.date = booked[t].date)
  <2>1. e.side \in sides /\ e.date \in dates
    BY <1>5
  <2> QED  BY <1>2, <1>3, <1>4, <2>1, Zenon
<1> QED  BY <1>5, <1>6, <1>7, Zenon

\* The money of a trade is an integer.
LEMMA FinancialInt ==
  ASSUME LInv, NEW t \in TradeIds, NEW e \in ExecutedEvents(t), price_factor[e.instrument] # 0
  PROVE  Financial(e) \in Int
<1> DEFINE f == price_factor[e.instrument]
           gross == NotionalHalfEven(e.qty, e.price, f)
<1>1. e.qty \in Int /\ e.price \in Int /\ e.fees \in Int /\ f \in Nat \ {0}
  BY ExecutedEvent DEF LInv, BooksInv
<1> HIDE DEF f
<1>2. Scale * f \in Nat \ {0}
  BY <1>1, ScaleAssumption
<1>3. gross \in Int
  BY <1>1, <1>2, HalfEvenInt DEF NotionalHalfEven
<1>4. Financial(e) = IF e.side = "Buy" THEN -(gross + e.fees) ELSE gross - e.fees
  BY DEF Financial, f
<1> HIDE DEF gross
<1> QED  BY <1>1, <1>3, <1>4

\* A trade that is not in the table and whose date is in the window was never booked:
\* the execution is not a repetition.
LEMMA NeverBooked ==
  ASSUME LInv, NEW t \in TradeIds, NEW e \in ExecutedEvents(t), t \notin DOMAIN trades,
         SlotOf(window, e.date) # 0
  PROVE  booked[t].times = 0 /\ t \notin boughtIn /\ e.date <= window[3]
<1>1. /\ Known(t) /\ booked[t] \in [date : Nat, times : Nat]
      /\ window \in [Slots -> Nat] /\ (Consecutive(window) \/ \A k \in Slots : window[k] = 0)
  BY DEF LInv, TradesInv, WindowInv
<1>2. SlotOf(window, e.date) \in Slots /\ window[SlotOf(window, e.date)] = e.date
  BY SlotOfDate
<1>3. e.date >= window[1] /\ e.date <= window[3]
  BY <1>1, <1>2 DEF Consecutive, Slots
<1>4. booked[t].times = 0
  <2>1. booked[t].times > 0 => e.date = booked[t].date
    BY ExecutedEvent
  <2>2. booked[t].times = 1 => booked[t].date < window[1]
    BY <1>1 DEF Known
  <2>3. booked[t].times \in Nat /\ booked[t].date \in Nat /\ window[1] \in Nat /\ booked[t].times <= 1
    BY <1>1 DEF Known, Slots
  <2> QED  BY <1>3, <2>1, <2>2, <2>3
<1>5. t \notin boughtIn
  BY <1>4 DEF LInv, TradesInv, Covered
<1> QED  BY <1>3, <1>4, <1>5

\* A slot that is not the one a date is found in stands for another date.
LEMMA OtherSlot ==
  ASSUME NEW w, NEW d, NEW k \in Slots, k = SlotOf(w, w[k]), k # SlotOf(w, d)
  PROVE  w[k] # d
  OBVIOUS

\* I3 is checked on what the handler wrote; the partition stops or goes on.
LEMMA CheckI3Type ==
  ASSUME QueueInv, NEW book, NEW ps, CheckI3(book, ps)
  PROVE  halted' \in {"no", "full", "I3", "eod"}
  BY DEF CheckI3, QueueInv

\* Cash to settle that is added to a slot of an account.
Added(c, a, k, m) == [c EXCEPT ![a].pending[k] = @ + m]

\* It changes that slot only.
LEMMA PendingAdded ==
  ASSUME NEW c \in [Documents -> CashRow], NEW a \in Documents, NEW k \in Slots, NEW m \in Int
  PROVE  /\ Added(c, a, k, m) \in [Documents -> CashRow]
         /\ Added(c, a, k, m)[a].pending[k] = c[a].pending[k] + m
         /\ \A j \in Slots : j # k => Added(c, a, k, m)[a].pending[j] = c[a].pending[j]
         /\ \A b \in Documents : b # a => Added(c, a, k, m)[b] = c[b]
<1> DEFINE old == c[a].pending
           pend == [old EXCEPT ![k] = @ + m]
           row == [cash |-> c[a].cash, pending |-> pend, overdue |-> c[a].overdue, income |-> c[a].income]
<1>1. old \in [Slots -> Int] /\ c[a] \in CashRow
  BY DEF CashRow
<1>2. pend \in [Slots -> Int]
  BY <1>1
<1>3. /\ c[a].cash \in Int /\ c[a].overdue \in Int /\ c[a].income \in Int
      /\ c[a] = [cash |-> c[a].cash, pending |-> old, overdue |-> c[a].overdue, income |-> c[a].income]
  BY <1>1 DEF CashRow
<1>4. Added(c, a, k, m) = [c EXCEPT ![a] = [c[a] EXCEPT !.pending = pend]]
  BY Zenon DEF Added
<1>5. pend[k] = old[k] + m /\ \A j \in Slots : j # k => pend[j] = old[j]
  BY <1>1
<1> HIDE DEF pend
<1>6. [c[a] EXCEPT !.pending = pend] = row
  BY <1>3
<1>7. row \in CashRow /\ row.pending = pend
  BY <1>2, <1>3 DEF CashRow
<1> HIDE DEF row
<1>8. Added(c, a, k, m) = [c EXCEPT ![a] = row]
  BY <1>4, <1>6, Zenon
<1> QED  BY <1>5, <1>7, <1>8

\* A new trade takes a row after the others and is pushed on the list of its account.
LEMMA RowPushed ==
  ASSUME ListsInv, TradesInv, NEW t, t \notin DOMAIN trades, NEW a \in Documents,
         rows' = Append(rows, t), first' = [first EXCEPT ![a] = Len(rows) + 1],
         next' = Append(next, first[a]), DOMAIN trades' = DOMAIN trades \cup {t},
         trades'[t].account = a, \A u \in DOMAIN trades : trades'[u].account = trades[u].account
  PROVE  ListsInv'
<1> DEFINE D == 1 .. Len(rows)
           m == Len(rows) + 1
<1>1. /\ rows \in Seq(DOMAIN trades) /\ Injective(rows, D)
      /\ \A u \in DOMAIN trades : \E i \in D : rows[i] = u
      /\ Threaded(Documents, D, first, next, Owner)
  BY DEF ListsInv
<1>2. /\ Len(rows) \in Nat /\ m \notin D /\ m # Nil /\ D \cup {m} = 1 .. m
      /\ \A i \in D : rows[i] \in DOMAIN trades
  BY <1>1 DEF Nil
<1>3. /\ rows' \in Seq(DOMAIN trades') /\ Len(rows') = m /\ rows'[m] = t
      /\ \A i \in D : rows'[i] = rows[i]
  BY <1>1, <1>2
<1>4. Injective(rows', 1 .. m)
  <2>1. \A i \in 1 .. m : i \in D \/ i = m
    BY <1>2
  <2>2. \A i, j \in D : rows'[i] = rows'[j] => i = j
    BY <1>1, <1>3 DEF Injective
  <2>3. \A i \in D : rows'[i] # t
    BY <1>2, <1>3
  <2> HIDE DEF D, m
  <2> QED  BY <1>3, <2>1, <2>2, <2>3 DEF Injective
<1>5. \A u \in DOMAIN trades' : \E i \in 1 .. m : rows'[i] = u
  BY <1>1, <1>2, <1>3
<1>6. first \in [Documents -> D \cup {Nil}] /\ next \in [D -> D \cup {Nil}]
  BY <1>1 DEF Threaded
<1> HIDE DEF m
<1>7. PICK x : x \notin Documents
  BY NobodyExists
<1>8. PICK n, o : /\ n = [i \in D \cup {m} |-> IF i = m THEN Nil ELSE next[i]]
                  /\ o = [i \in D \cup {m} |-> IF i = m THEN x ELSE Owner[i]]
  OBVIOUS
<1>9. /\ n \in [D \cup {m} -> D \cup {m, Nil}] /\ o = [i \in D \cup {m} |-> o[i]]
      /\ o[m] = x /\ \A i \in D : n[i] = next[i] /\ o[i] = Owner[i]
  <2> HIDE DEF D
  <2> QED  BY <1>2, <1>6, <1>8
<1>10. Threaded(Documents, D \cup {m}, [first EXCEPT ![a] = m], [n EXCEPT ![m] = first[a]],
                [o EXCEPT ![m] = a])
  <2> HIDE DEF D
  <2>1. o[m] \notin Documents /\ m \in D \cup {m}
    BY <1>7, <1>9
  <2>2. Threaded(Documents, D \cup {m}, first, n, o)
    <3>1. Threaded(Documents, D, first, next, Owner) /\ m \notin D /\ m # Nil
      BY <1>1, <1>2
    <3>2. n \in [D \cup {m} -> D \cup {m, Nil}]
      BY <1>9
    <3>3. o = [i \in D \cup {m} |-> o[i]] /\ \A i \in D : n[i] = next[i] /\ o[i] = Owner[i]
      BY <1>9
    <3> QED  BY ONLY <2>1, <3>1, <3>2, <3>3, ListExtend
  <2> QED  BY <2>1, <2>2, ListPush
<1>11. next' = [n EXCEPT ![m] = first[a]]
  <2>1. next \in Seq(D \cup {Nil})
    <3>1. ASSUME NEW S, NEW k \in Nat, NEW f \in [1 .. k -> S]  PROVE f \in Seq(S)
      OBVIOUS
    <3> QED  BY ONLY <1>2, <1>6, <3>1
  <2>2. Len(next) = Len(rows)
    BY <1>2, <1>6, <2>1
  <2>3. /\ DOMAIN next' = 1 .. m /\ next'[m] = first[a] /\ \A i \in D : next'[i] = next[i]
        /\ next' = [i \in 1 .. m |-> next'[i]]
    BY <1>2, <2>1, <2>2 DEF m
  <2> HIDE DEF D
  <2> QED  BY <1>2, <1>9, <2>3
<1>12. Owner' = [o EXCEPT ![m] = a]
  <2>1. \A i \in D : Owner[i] = trades[rows[i]].account
    BY Zenon DEF Owner
  <2>2. \A i \in D : trades'[rows'[i]].account = Owner[i]
    BY <1>2, <1>3, <2>1
  <2>3. Owner' = [i \in D \cup {m} |-> trades'[rows'[i]].account]
    BY <1>2, <1>3, Zenon DEF Owner
  <2> HIDE DEF D
  <2>4. \A i \in D \cup {m} : trades'[rows'[i]].account = [o EXCEPT ![m] = a][i]
    BY <1>2, <1>3, <1>9, <2>2
  <2>5. [o EXCEPT ![m] = a] = [i \in D \cup {m} |-> [o EXCEPT ![m] = a][i]]
    BY <1>9
  <2> QED  BY <2>3, <2>4, <2>5
<1>13. Threaded(Documents, 1 .. Len(rows'), first', next', Owner')
  BY <1>2, <1>3, <1>10, <1>11, <1>12, Zenon DEF m
<1> QED  BY <1>3, <1>4, <1>5, <1>13 DEF ListsInv

\* A trade that is accepted keeps the invariant.
LEMMA AcceptKeeps ==
  ASSUME LInv, NEW t \in TradeIds, NEW e \in ExecutedEvents(t),
         UNCHANGED <<cap, window, price_factor>>, t \notin DOMAIN trades,
         Cardinality(DOMAIN trades) < cap.trades, price_factor[e.instrument] # 0,
         SlotOf(window, e.date) # 0, RoomForAccount({}), RoomForPosition({}),
         e.qty > 0, ~Uncovered(e), Accept(e)
  PROVE  LInv'
<1> DEFINE p == <<e.account, e.instrument>>
           k == SlotOf(window, e.date)
           m == Financial(e)
           new == [account |-> e.account, instrument |-> e.instrument,
                   qty |-> e.qty, cash |-> m, date |-> e.date,
                   side |-> e.side, state |-> NextState("None", "Execute")]
           book == [custody EXCEPT ![p] = Executed(@, e, k)]
<1>0. /\ WindowInv /\ TablesInv /\ QueueInv /\ BooksInv /\ TradesInv /\ ListsInv /\ KeysInv
      /\ PendingCashIsTheTrades
  BY DEF LInv
<1>1. /\ e.trade_id = t /\ e.account \in Documents /\ e.instrument \in Instruments
      /\ p \in Positions /\ e.side \in Sides /\ e.qty \in Int /\ e.date \in Nat /\ e.short \in BOOLEAN
  BY ExecutedEvent
<1>2. /\ Interned({e.account}, {p})
      /\ custody' = book
      /\ cash' = Added(cash, e.account, k, m)
      /\ trades' = [u \in DOMAIN trades \cup {t} |-> IF u = t THEN new ELSE trades[u]]
      /\ rows' = Append(rows, t)
      /\ first' = [first EXCEPT ![e.account] = Len(rows) + 1]
      /\ next' = Append(next, first[e.account])
      /\ CheckI3(book, {p})
      /\ booked' = [booked EXCEPT ![t] = [date |-> e.date, times |-> @.times + 1]]
      /\ UNCHANGED <<keyVars, queueVars, boughtIn>>
  BY <1>1, Zenon DEF Accept, Added
<1>3. booked[t].times = 0 /\ t \notin boughtIn /\ e.date <= window[3]
  BY NeverBooked
<1>4. k \in Slots /\ window[k] = e.date
  BY SlotOfDate
<1>5. m \in Int
  BY FinancialInt
<1>6. NextState("None", "Execute") = "Executed"
  BY EdgeTaken DEF kEdges
<1>7. new \in TradeRow /\ new.account = e.account /\ new.date = e.date /\ new.cash = m /\ new.qty = e.qty
      /\ new.state = "Executed"
  BY <1>1, <1>5, <1>6 DEF TradeRow, TradeStates, kEdges
<1> HIDE DEF new, m, k, book
<1>8. WindowInv' /\ TablesInv'
  BY <1>0, <1>1, <1>2, WindowFrame, InternedOne
<1>9. QueueInv'
  BY <1>0, <1>2, CheckI3Type DEF queueVars, QueueInv
<1>10. KeysInv'
  BY <1>0, <1>2, KeysFrame
<1>11. BooksInv'
  <2>1. Sound(Executed(custody[p], e, k)) /\ custody[p] \in CustodyRow
    <3>1. e.side = "Sell" /\ ~e.short => custody[p].available >= e.qty
      BY <1>0, <1>1, RowColumns DEF Uncovered, BooksInv
    <3> QED  BY <1>0, <1>1, <1>4, <3>1, ExecutedSound DEF BooksInv
  <2> DEFINE row == Executed(custody[p], e, k)
  <2>2. book = [custody EXCEPT ![p] = row]
    BY Zenon DEF book
  <2> HIDE DEF row
  <2>3. custody' \in [Positions -> CustodyRow] /\ \A q \in Positions : Sound(custody'[q])
    BY <1>0, <1>1, <1>2, <2>1, <2>2 DEF BooksInv, Sound, row
  <2>4. cash' \in [Documents -> CashRow]
    BY <1>0, <1>1, <1>2, <1>4, <1>5, PendingAdded DEF BooksInv
  <2> QED  BY <1>0, <2>3, <2>4 DEF BooksInv, Sound
<1>12. /\ DOMAIN trades' = DOMAIN trades \cup {t} /\ trades'[t] = new
       /\ \A u \in DOMAIN trades : trades'[u] = trades[u]
  BY <1>2
<1>13. /\ booked'[t].times = 1 /\ booked'[t].date = e.date
       /\ \A u \in TradeIds : u # t => booked'[u] = booked[u]
       /\ booked' \in [TradeIds -> [date : Nat, times : Nat]]
  BY <1>0, <1>1, <1>2, <1>3 DEF TradesInv
<1>14. TradesInv'
  <2>1. Fits(DOMAIN trades', TradeIds, cap'.trades)
    BY <1>0, <1>12, Capacity, FitsOne DEF TradesInv
  <2>2. trades' \in [DOMAIN trades' -> TradeRow]
    BY <1>0, <1>2, <1>7, <1>12 DEF TradesInv
  <2>3. \A u \in DOMAIN trades' : AsBooked(u)'
    BY <1>0, <1>7, <1>12, <1>13 DEF TradesInv, AsBooked, Fits
  <2>4. \A u \in TradeIds : Known(u)'
    BY <1>0, <1>3, <1>12, <1>13 DEF TradesInv, Known
  <2>5. \A u \in boughtIn : Covered(u)'
    BY <1>0, <1>3, <1>12, <1>13 DEF TradesInv, Covered, InWindow
  <2> QED  BY <1>0, <1>2, <1>13, <2>1, <2>2, <2>3, <2>4, <2>5 DEF TradesInv
<1>15. ListsInv'
  <2>1. trades'[t].account = e.account /\ \A u \in DOMAIN trades : trades'[u].account = trades[u].account
    BY <1>7, <1>12
  <2> QED  BY <1>0, <1>1, <1>2, <1>12, <2>1, RowPushed
<1>16. PendingCashIsTheTrades'
  <2> SUFFICES ASSUME NEW a \in Documents, NEW j \in Slots, j = SlotOf(window, window[j])
               PROVE  cash'[a].pending[j] = SumFunctionOnSet(TradeCash', PendingOn(a, window[j])')
    BY Zenon DEF PendingCashIsTheTrades, PendingOn
  <2> DEFINE S == PendingOn(a, window[j])
  <2>1. cash[a].pending[j] = SumFunctionOnSet(TradeCash, S)
    BY <1>0, Zenon DEF PendingCashIsTheTrades, PendingOn
  <2>2. IsFiniteSet(S) /\ S \subseteq DOMAIN trades /\ \A u \in S : TradeCash[u] \in Int
    BY <1>0, PendingOnSummable
  <2>3. TradeCash'[t] = m /\ \A u \in DOMAIN trades : TradeCash'[u] = TradeCash[u]
    BY <1>7, <1>12 DEF TradeCash
  <2>4. SumFunctionOnSet(TradeCash', S) = SumFunctionOnSet(TradeCash, S)
    BY <2>2, <2>3, SumAgree
  <2>5. Pending(t)' /\ \A u \in DOMAIN trades : Pending(u)' <=> Pending(u)
    BY <1>2, <1>3, <1>7, <1>12 DEF Pending
  <2>6. CASE a = e.account /\ j = k
    <3>1. PendingOn(a, window[j])' = S \cup {t}
      BY <1>4, <1>7, <1>12, <2>5, <2>6 DEF PendingOn
    <3>2. \A u \in S : TradeCash'[u] \in Int
      BY <2>2, <2>3
    <3>3. SumFunctionOnSet(TradeCash', S \cup {t}) = SumFunctionOnSet(TradeCash', S) + m
      <4> HIDE DEF S
      <4> QED  BY <1>5, <2>2, <2>3, <3>2, SumAdd
    <3>4. cash'[a].pending[j] = cash[a].pending[j] + m
      <4>1. cash'[e.account].pending[k] = cash[e.account].pending[k] + m
        BY <1>0, <1>1, <1>2, <1>4, <1>5, PendingAdded DEF BooksInv
      <4> QED  BY <2>6, <4>1, Zenon
    <3> QED  BY <2>1, <2>4, <3>1, <3>3, <3>4, Zenon
  <2>7. CASE ~(a = e.account /\ j = k)
    <3>1. PendingOn(a, window[j])' = S
      <4>1. ~(new.account = a /\ new.date = window[j])
        BY <1>7, <2>7, OtherSlot DEF k
      <4> QED  BY <1>12, <2>5, <4>1 DEF PendingOn
    <3>2. cash'[a].pending[j] = cash[a].pending[j]
      <4>1. /\ \A i \in Slots : i # k => cash'[e.account].pending[i] = cash[e.account].pending[i]
            /\ \A b \in Documents : b # e.account => cash'[b] = cash[b]
        <5>1. cash \in [Documents -> CashRow] /\ cash' = Added(cash, e.account, k, m)
          BY <1>0, <1>2 DEF BooksInv
        <5> QED  BY <1>1, <1>4, <1>5, <5>1, PendingAdded
      <4> QED  BY <2>7, <4>1
    <3> QED  BY <2>1, <2>4, <3>1, <3>2, Zenon
  <2> QED  BY <2>6, <2>7
<1> QED  BY <1>8, <1>9, <1>10, <1>11, <1>14, <1>15, <1>16 DEF LInv

\* The execution of a trade keeps the invariant.
LEMMA TradeExecutedKeeps ==
  ASSUME LInv, NEW t \in TradeIds, NEW e \in ExecutedEvents(t), ApplyTradeExecuted(e)
  PROVE  LInv'
<1> DEFINE p == <<e.account, e.instrument>>
           full == Cardinality(DOMAIN trades) >= cap.trades
           described == price_factor[e.instrument] # 0 /\ InWindow(e.date)
<1>0. UNCHANGED <<cap, window, price_factor>> /\ cap' = cap
  BY DEF ApplyTradeExecuted
<1>1. e.account \in Documents /\ p \in Positions /\ e.trade_id = t /\ e.qty \in Int
  BY ExecutedEvent
<1>2. CASE Stop("full") /\ NoEffect /\ UNCHANGED tableVars
  <2>1. TablesInv'
    BY <1>0, <1>2 DEF tableVars, LInv, TablesInv, Positions
  <2> QED  BY <1>0, <1>2, <2>1, Refused DEF Stop
<1>3. CASE UNCHANGED vars
  BY <1>3, Stutter
<1>4. CASE RoomForAccount({}) /\ Interned({e.account}, {}) /\ NoEffect /\ (UNCHANGED halted \/ Stop("full"))
  <2>1. TablesInv'
    BY <1>0, <1>1, <1>4, InternedOne
  <2> QED  BY <1>0, <1>4, <2>1, Refused DEF Stop
<1>5. CASE RoomForAccount({}) /\ RoomForPosition({}) /\ Interned({e.account}, {p}) /\ NoEffect /\ UNCHANGED halted
  <2>1. TablesInv'
    BY <1>0, <1>1, <1>5, InternedOne
  <2> QED  BY <1>0, <1>5, <2>1, Refused
<1>6. CASE /\ ~full /\ e.trade_id \notin DOMAIN trades /\ RoomForAccount({}) /\ described /\ RoomForPosition({})
           /\ e.qty > 0 /\ ~Uncovered(e) /\ Accept(e)
  <2>1. Cardinality(DOMAIN trades) < cap.trades
    BY <1>6, Capacity, FS_CardinalityType DEF LInv, TradesInv, Fits
  <2> QED  BY <1>0, <1>1, <1>6, <2>1, AcceptKeeps DEF InWindow
<1> QED  BY <1>2, <1>3, <1>4, <1>5, <1>6, Zenon DEF ApplyTradeExecuted

-----------------------------------------------------------------------------
(* The allocation of a trade. *)

\* The only trade that can be allocated is an executed one, and then it is allocated.
LEMMA AllocateEdge ==
  ASSUME NEW s, NextState(s, "Allocate") # "None"
  PROVE  s = "Executed" /\ NextState(s, "Allocate") = "Allocated"
<1>1. <<s, "Allocate", NextState(s, "Allocate")>> \in kEdges
  BY TradeEdges
<1> QED  BY <1>1 DEF kEdges

\* A step that moves trades on between states in which they are pending, and leaves the
\* rest of the trades, keeps what is said of them.
LEMMA AdvanceKeeps ==
  ASSUME TradesInv, UNCHANGED <<cap, window, booked, boughtIn>>,
         DOMAIN trades' = DOMAIN trades, trades' \in [DOMAIN trades -> TradeRow],
         \A t \in DOMAIN trades :
           /\ trades'[t].date = trades[t].date /\ trades'[t].qty = trades[t].qty
           /\ \/ trades'[t].state \notin {"Executed", "Allocated"}
              \/ trades'[t].state = trades[t].state
              \/ trades[t].state \in {"Executed", "Allocated"}
  PROVE  TradesInv'
<1>1. \A t \in DOMAIN trades' : AsBooked(t)'
  BY DEF TradesInv, AsBooked
<1>2. \A t \in TradeIds : Known(t)'
  BY DEF TradesInv, Known
<1>3. \A t \in boughtIn : Covered(t)'
  BY DEF TradesInv, Covered, InWindow
<1> QED  BY <1>1, <1>2, <1>3 DEF TradesInv

\* What is pending for the dates of the window does not change, and neither does the
\* cash to settle.
LEMMA PendingSame ==
  ASSUME TradesInv, PendingCashIsTheTrades, window' = window,
         \A a \in Documents : cash'[a].pending = cash[a].pending,
         DOMAIN trades' = DOMAIN trades,
         \A t \in DOMAIN trades :
           /\ trades'[t].account = trades[t].account /\ trades'[t].date = trades[t].date
           /\ trades'[t].cash = trades[t].cash
           /\ InWindow(trades[t].date) => (Pending(t)' <=> Pending(t))
  PROVE  PendingCashIsTheTrades'
<1> SUFFICES ASSUME NEW a \in Documents, NEW j \in Slots, j = SlotOf(window, window[j])
             PROVE  cash'[a].pending[j] = SumFunctionOnSet(TradeCash', PendingOn(a, window[j])')
  BY Zenon DEF PendingCashIsTheTrades, PendingOn
<1>1. cash[a].pending[j] = SumFunctionOnSet(TradeCash, PendingOn(a, window[j]))
  BY Zenon DEF PendingCashIsTheTrades, PendingOn
<1>2. InWindow(window[j])
  BY DEF InWindow, Slots
<1>3. PendingOn(a, window[j])' = PendingOn(a, window[j])
  BY <1>2 DEF PendingOn
<1>4. TradeCash' = TradeCash
  BY DEF TradeCash
<1> QED  BY <1>1, <1>3, <1>4, Zenon

\* Reallocating a quantity that is pending keeps both rows sound.
LEMMA ReallocatedSound ==
  ASSUME NEW row, Sound(row), NEW k \in Slots, NEW q \in Int, q > 0
  PROVE  /\ Sound([row EXCEPT !.pending_buy[k] = @ + q])
         /\ row.pending_buy[k] >= q => Sound([row EXCEPT !.pending_buy[k] = @ - q])
         /\ row.pending_sell[k] >= q => Sound([row EXCEPT !.pending_sell[k] = @ - q, !.available = @ + q])
         /\ (row.short \/ row.available >= q) =>
              Sound([row EXCEPT !.pending_sell[k] = @ + q, !.available = @ - q])
<1>0. row \in CustodyRow
  BY DEF Sound
<1> DEFINE more == [row.pending_buy EXCEPT ![k] = @ + q]
           less == [row.pending_buy EXCEPT ![k] = @ - q]
           moreS == [row.pending_sell EXCEPT ![k] = @ + q]
           lessS == [row.pending_sell EXCEPT ![k] = @ - q]
<1>1. /\ more \in [Slots -> Int] /\ less \in [Slots -> Int]
      /\ moreS \in [Slots -> Int] /\ lessS \in [Slots -> Int]
      /\ \A j \in Slots : more[j] >= 0 /\ moreS[j] >= 0
      /\ row.pending_buy[k] >= q => \A j \in Slots : less[j] >= 0
      /\ row.pending_sell[k] >= q => \A j \in Slots : lessS[j] >= 0
  BY <1>0 DEF Sound, CustodyRow
<1>2. /\ \A j \in Slots : row.pending_buy[j] >= 0 /\ row.pending_sell[j] >= 0
      /\ row.available + q \in Int /\ row.available - q \in Int
      /\ row.available + q < 0 => row.short
      /\ (row.short \/ row.available >= q) => (row.available - q < 0 => row.short)
  BY <1>0, RowColumns DEF Sound
<1> HIDE DEF more, less, moreS, lessS
<1>3. Sound([row EXCEPT !.pending_buy[k] = @ + q])
  <2>1. [row EXCEPT !.pending_buy[k] = @ + q] =
          Row(row.available, more, row.pending_sell, row.overdue_buy, row.overdue_sell,
              row.leftovers, row.avg_price, row.short)
    BY <1>0 DEF CustodyRow, Row, more, less, moreS, lessS
  <2>2. Sound(Row(row.available, more, row.pending_sell, row.overdue_buy, row.overdue_sell,
                  row.leftovers, row.avg_price, row.short))
    BY <1>0, <1>1, <1>2, RowColumns, RowSound, ZenonT(60) DEF Sound
  <2> QED  BY <2>1, <2>2, Zenon
<1>4. ASSUME row.pending_buy[k] >= q  PROVE Sound([row EXCEPT !.pending_buy[k] = @ - q])
  <2>1. [row EXCEPT !.pending_buy[k] = @ - q] =
          Row(row.available, less, row.pending_sell, row.overdue_buy, row.overdue_sell,
              row.leftovers, row.avg_price, row.short)
    BY <1>0 DEF CustodyRow, Row, more, less, moreS, lessS
  <2>2. Sound(Row(row.available, less, row.pending_sell, row.overdue_buy, row.overdue_sell,
                  row.leftovers, row.avg_price, row.short))
    BY <1>0, <1>1, <1>2, <1>4, RowColumns, RowSound, ZenonT(60) DEF Sound
  <2> QED  BY <2>1, <2>2, Zenon
<1>5. ASSUME row.pending_sell[k] >= q  PROVE Sound([row EXCEPT !.pending_sell[k] = @ - q, !.available = @ + q])
  <2>1. [row EXCEPT !.pending_sell[k] = @ - q, !.available = @ + q] =
          Row(row.available + q, row.pending_buy, lessS, row.overdue_buy, row.overdue_sell,
              row.leftovers, row.avg_price, row.short)
    <3>1. [row EXCEPT !.pending_sell[k] = @ - q, !.available = @ + q] =
            [row EXCEPT !.pending_sell = lessS, !.available = row.available + q]
      BY Zenon DEF lessS
    <3>2. PICK z : z = [row EXCEPT !.pending_sell = lessS, !.available = row.available + q]
      OBVIOUS
    <3>3. z = Row(row.available + q, row.pending_buy, lessS, row.overdue_buy, row.overdue_sell,
                  row.leftovers, row.avg_price, row.short)
      BY <1>0, <3>2 DEF CustodyRow, Row
    <3> QED  BY <3>1, <3>2, <3>3, Zenon
  <2>2. Sound(Row(row.available + q, row.pending_buy, lessS, row.overdue_buy, row.overdue_sell,
                  row.leftovers, row.avg_price, row.short))
    BY <1>0, <1>1, <1>2, <1>5, RowColumns, RowSound, ZenonT(60) DEF Sound
  <2> QED  BY <2>1, <2>2, Zenon
<1>6. ASSUME row.short \/ row.available >= q  PROVE Sound([row EXCEPT !.pending_sell[k] = @ + q, !.available = @ - q])
  <2>1. [row EXCEPT !.pending_sell[k] = @ + q, !.available = @ - q] =
          Row(row.available - q, row.pending_buy, moreS, row.overdue_buy, row.overdue_sell,
              row.leftovers, row.avg_price, row.short)
    <3>1. [row EXCEPT !.pending_sell[k] = @ + q, !.available = @ - q] =
            [row EXCEPT !.pending_sell = moreS, !.available = row.available - q]
      BY Zenon DEF moreS
    <3>2. PICK z : z = [row EXCEPT !.pending_sell = moreS, !.available = row.available - q]
      OBVIOUS
    <3>3. z = Row(row.available - q, row.pending_buy, moreS, row.overdue_buy, row.overdue_sell,
                  row.leftovers, row.avg_price, row.short)
      BY <1>0, <3>2 DEF CustodyRow, Row
    <3> QED  BY <3>1, <3>2, <3>3, Zenon
  <2>2. Sound(Row(row.available - q, row.pending_buy, moreS, row.overdue_buy, row.overdue_sell,
                  row.leftovers, row.avg_price, row.short))
    BY <1>0, <1>1, <1>2, <1>6, RowColumns, RowSound, ZenonT(60) DEF Sound
  <2> QED  BY <2>1, <2>2, Zenon
<1> QED  BY <1>3, <1>4, <1>5, <1>6

\* What an allocation says of a trade of the table.
LEMMA AllocatedEvent ==
  ASSUME LInv, NEW t \in TradeIds, NEW e \in AllocatedEvents(t)
  PROVE  /\ e.trade_id = t
         /\ t \in DOMAIN trades =>
              /\ e.from = trades[t].account /\ e.from \in Documents /\ e.to \in Documents
              /\ e.date = trades[t].date /\ e.side = trades[t].side /\ e.cash = trades[t].cash
              /\ e.side \in Sides /\ e.cash \in Int /\ trades[t].instrument \in Instruments
              /\ trades[t].qty \in Int /\ trades[t].qty > 0
<1>1. CASE t \in DOMAIN trades
  <2>1. e \in [trade_id : {t}, from : {trades[t].account}, to : Documents,
               qty : {trades[t].qty, trades[t].qty + One}, date : {trades[t].date},
               side : {trades[t].side}, cash : {trades[t].cash}]
    BY <1>1, Zenon DEF AllocatedEvents
  <2>2. trades[t] \in TradeRow /\ AsBooked(t)
    BY <1>1 DEF LInv, TradesInv
  <2> QED  BY <2>1, <2>2 DEF TradeRow, AsBooked
<1>2. CASE t \notin DOMAIN trades
  <2>1. e \in [trade_id : {t}, from : Traders, to : Traders, qty : {One},
               date : {window[1]}, side : {"Buy"}, cash : {0}]
    BY <1>2, Zenon DEF AllocatedEvents
  <2> QED  BY <1>2, <2>1
<1> QED  BY <1>1, <1>2

\* The rows after an allocation, one by one.
LEMMA ReallocatedRows ==
  ASSUME NEW e, NEW de \in Positions, NEW para \in Positions, de # para, NEW k \in Slots,
         custody \in [Positions -> CustodyRow], \A p \in Positions : Sound(custody[p]),
         e.side \in Sides, e.qty \in Int, e.qty > 0, ~CannotMove(e, de, para, k)
  PROVE  /\ Reallocated(e, de, para, k) \in [Positions -> CustodyRow]
         /\ \A p \in Positions : Sound(Reallocated(e, de, para, k)[p])
<1>0. Sound(custody[de]) /\ Sound(custody[para])
  OBVIOUS
<1>1. CASE e.side = "Buy"
  <2> DEFINE x == [custody[de] EXCEPT !.pending_buy[k] = @ - e.qty]
             y == [custody[para] EXCEPT !.pending_buy[k] = @ + e.qty]
  <2>1. Sound(x) /\ Sound(y)
    <3>1. custody[de].pending_buy[k] >= e.qty
      BY <1>0, <1>1, RowColumns DEF CannotMove, Sound
    <3>2. Sound(x)
      BY <1>0, <3>1, ReallocatedSound
    <3>3. Sound(y)
      BY <1>0, ReallocatedSound
    <3> QED  BY <3>2, <3>3
  <2>2. Reallocated(e, de, para, k) = [custody EXCEPT ![de] = x, ![para] = y]
    BY <1>1, Zenon DEF Reallocated
  <2> HIDE DEF x, y
  <2> QED  BY <2>1, <2>2 DEF Sound
<1>2. CASE e.side # "Buy"
  <2> DEFINE x == [custody[de] EXCEPT !.pending_sell[k] = @ - e.qty, !.available = @ + e.qty]
             y == [custody[para] EXCEPT !.pending_sell[k] = @ + e.qty, !.available = @ - e.qty]
  <2>1. Sound(x) /\ Sound(y)
    <3>1. /\ custody[de].pending_sell[k] >= e.qty
          /\ custody[para].short \/ custody[para].available >= e.qty
      BY <1>0, <1>2, RowColumns DEF CannotMove, Sound
    <3>2. Sound(x)
      BY <1>0, <3>1, ReallocatedSound
    <3>3. Sound(y)
      BY <1>0, <3>1, ReallocatedSound
    <3> QED  BY <3>2, <3>3
  <2>2. Reallocated(e, de, para, k) = [custody EXCEPT ![de] = x, ![para] = y]
    BY <1>2, Zenon DEF Reallocated
  <2> HIDE DEF x, y
  <2> QED  BY <2>1, <2>2 DEF Sound
<1> QED  BY <1>1, <1>2

\* unlink_trade finds the row of a trade on the list of its owner and takes it off.
LEMMA RowUnlinked ==
  ASSUME ListsInv, TradesInv, NEW a \in Documents, NEW r \in 1 .. Len(rows), Owner[r] = a,
         NEW x, x \notin Documents
  PROVE  Threaded(Documents, 1 .. Len(rows), Unlink(a, r).first, Unlink(a, r).next,
                  [Owner EXCEPT ![r] = x])
<1> DEFINE D == 1 .. Len(rows)
<1>1. Threaded(Documents, D, first, next, Owner)
  BY DEF ListsInv
<1>2. /\ Unlink(a, r).first = IF first[a] = r THEN [first EXCEPT ![a] = next[r]] ELSE first
      /\ Unlink(a, r).next = IF first[a] = r THEN next
            ELSE [p \in DOMAIN next |-> IF p \in Before(a, r) THEN next[r] ELSE next[p]]
  BY Zenon DEF Unlink
<1>3. CASE first[a] = r
  <2>1. Unlink(a, r).first = [first EXCEPT ![a] = next[r]] /\ Unlink(a, r).next = next
    BY <1>2, <1>3, Zenon
  <2>2. Threaded(Documents, D, [first EXCEPT ![a] = next[r]], next, [Owner EXCEPT ![r] = x])
    <3> HIDE DEF D
    <3> QED  BY <1>1, <1>3, ListDropFirst DEF D
  <2> QED  BY <2>1, <2>2, Zenon
<1>4. CASE first[a] # r
  <2>1. \A i \in D : Owner[i] \in Documents
    BY OwnersAreDocuments
  <2>2. PICK p \in D : /\ p # r /\ next[p] = r
                       /\ {q \in Walked(first[a], next, r) \ {r} : next[q] = r} = {p}
    <3> HIDE DEF D
    <3> QED  BY <1>1, <1>4, <2>1, RowBefore DEF D
  <2>3. Before(a, r) = {p}
    BY <2>2, Zenon DEF Before
  <2>4. DOMAIN next = D /\ next = [i \in D |-> next[i]]
    BY <1>1 DEF Threaded
  <2>5. Unlink(a, r).first = first
    BY <1>2, <1>4, Zenon
  <2>6. Unlink(a, r).next = [q \in D |-> IF q \in {p} THEN next[r] ELSE next[q]]
    BY <1>2, <1>4, <2>3, <2>4, Zenon
  <2> HIDE DEF D
  <2>7. [q \in D |-> IF q \in {p} THEN next[r] ELSE next[q]] = [next EXCEPT ![p] = next[r]]
    BY <2>4
  <2>8. Threaded(Documents, D, first, [next EXCEPT ![p] = next[r]], [Owner EXCEPT ![r] = x])
    BY <1>1, <2>1, <2>2, ListDropLater DEF D
  <2> QED  BY <2>5, <2>6, <2>7, <2>8, Zenon DEF D
<1> QED  BY <1>3, <1>4

\* A trade that changes hands leaves the list of one account for that of the other.
LEMMA RowRelisted ==
  ASSUME ListsInv, TradesInv, NEW t \in DOMAIN trades, NEW e, e.trade_id = t,
         e.from = trades[t].account, e.from \in Documents, e.to \in Documents, Relist(e),
         DOMAIN trades' = DOMAIN trades, trades'[t].account = e.to,
         \A u \in DOMAIN trades : u # t => trades'[u].account = trades[u].account
  PROVE  ListsInv'
<1> DEFINE D == 1 .. Len(rows)
           r == CHOOSE i \in DOMAIN rows : rows[i] = t
           rest == Unlink(e.from, r)
<1>1. /\ rows \in Seq(DOMAIN trades) /\ Injective(rows, D) /\ DOMAIN rows = D
      /\ \A u \in DOMAIN trades : \E i \in D : rows[i] = u
  BY DEF ListsInv
<1>2. r \in D /\ rows[r] = t
  BY <1>1
<1>3. /\ next' = [rest.next EXCEPT ![r] = rest.first[e.to]]
      /\ first' = [rest.first EXCEPT ![e.to] = r] /\ rows' = rows
  BY Zenon DEF Relist
<1> HIDE DEF r
<1>4. Owner[r] = e.from /\ Owner = [i \in D |-> Owner[i]]
  BY <1>2 DEF Owner
<1>5. PICK x : x \notin Documents
  BY NobodyExists
<1>6. Threaded(Documents, D, rest.first, rest.next, [Owner EXCEPT ![r] = x])
  BY <1>2, <1>4, <1>5, RowUnlinked
<1>7. PICK f, n, o : f = rest.first /\ n = rest.next /\ o = [Owner EXCEPT ![r] = x]
  OBVIOUS
<1> HIDE DEF rest
<1>8. Threaded(Documents, D, f, n, o) /\ o[r] = x
  BY <1>2, <1>4, <1>6, <1>7
<1>9. Threaded(Documents, D, [f EXCEPT ![e.to] = r], [n EXCEPT ![r] = f[e.to]], [o EXCEPT ![r] = e.to])
  <2> HIDE DEF D
  <2> QED  BY <1>2, <1>5, <1>8, ListPush
<1>10. Owner' = [o EXCEPT ![r] = e.to]
  <2>1. \A i \in D : rows[i] \in DOMAIN trades /\ (i # r => rows[i] # t)
    BY <1>1, <1>2 DEF Injective
  <2>2. \A i \in D : i # r => trades'[rows[i]].account = Owner[i]
    BY <2>1 DEF Owner
  <2>3. Owner' = [i \in D |-> trades'[rows[i]].account]
    BY <1>3, Zenon DEF Owner
  <2> HIDE DEF D
  <2>4. DOMAIN o = D /\ o = [i \in D |-> o[i]] /\ \A i \in D : i # r => o[i] = Owner[i]
    BY <1>4, <1>7
  <2> QED  BY <1>2, <2>2, <2>3, <2>4
<1>11. Threaded(Documents, 1 .. Len(rows'), first', next', Owner')
  BY <1>3, <1>7, <1>9, <1>10, Zenon
<1> QED  BY <1>1, <1>3, <1>11 DEF ListsInv

\* A trade that changes hands keeps the invariant.
LEMMA AllocateKeeps ==
  ASSUME LInv, NEW t \in TradeIds, NEW e \in AllocatedEvents(t), t \in DOMAIN trades,
         UNCHANGED <<cap, window, price_factor>>, TablesInv',
         NextState(trades[t].state, "Allocate") # "None", NEW k, k = SlotOf(window, e.date), k # 0,
         e.qty = trades[t].qty, e.from # e.to,
         ~CannotMove(e, <<e.from, trades[t].instrument>>, <<e.to, trades[t].instrument>>, k),
         Allocate(e, k), UNCHANGED <<keyVars, queueVars, historyVars>>
  PROVE  LInv'
<1> DEFINE de == <<e.from, trades[t].instrument>>
           para == <<e.to, trades[t].instrument>>
           c1 == Added(cash, e.from, k, -e.cash)
           new == [trades[t] EXCEPT !.account = e.to, !.state = "Allocated"]
<1>0. /\ WindowInv /\ TablesInv /\ QueueInv /\ BooksInv /\ TradesInv /\ ListsInv /\ KeysInv
      /\ PendingCashIsTheTrades
  BY DEF LInv
<1>1. /\ e.trade_id = t
      /\ e.from = trades[t].account /\ e.from \in Documents /\ e.to \in Documents
      /\ e.date = trades[t].date /\ e.side = trades[t].side /\ e.cash = trades[t].cash
      /\ e.side \in Sides /\ e.cash \in Int /\ trades[t].instrument \in Instruments
      /\ e.qty \in Int /\ e.qty > 0
  BY AllocatedEvent
<1>2. trades[t].state = "Executed" /\ NextState(trades[t].state, "Allocate") = "Allocated"
  BY AllocateEdge
<1>3. k \in Slots /\ window[k] = e.date
  BY SlotOfDate
<1>4. de \in Positions /\ para \in Positions /\ de # para
  BY <1>1 DEF Positions
<1>5. /\ custody' = Reallocated(e, de, para, k)
      /\ cash' = [cash EXCEPT ![e.from].pending[k] = @ - e.cash, ![e.to].pending[k] = @ + e.cash]
      /\ trades' = [trades EXCEPT ![t].account = e.to, ![t].state = NextState(@, "Allocate")]
      /\ Relist(e)
      /\ CheckI3(Reallocated(e, de, para, k), {de, para})
  BY <1>1, Zenon DEF Allocate
<1> HIDE DEF de, para
<1>6. WindowInv' /\ KeysInv'
  BY <1>0, WindowFrame, KeysFrame
<1>7. QueueInv'
  BY <1>0, <1>5, CheckI3Type DEF queueVars, QueueInv
<1>8. /\ cash' \in [Documents -> CashRow]
      /\ cash'[e.from].pending[k] = cash[e.from].pending[k] - e.cash
      /\ cash'[e.to].pending[k] = cash[e.to].pending[k] + e.cash
      /\ \A j \in Slots : j # k => /\ cash'[e.from].pending[j] = cash[e.from].pending[j]
                                   /\ cash'[e.to].pending[j] = cash[e.to].pending[j]
      /\ \A b \in Documents : b \notin {e.from, e.to} => cash'[b] = cash[b]
  <2>1. cash \in [Documents -> CashRow] /\ -e.cash \in Int
    BY <1>0, <1>1 DEF BooksInv
  <2>2. /\ c1 \in [Documents -> CashRow]
        /\ c1[e.from].pending[k] = cash[e.from].pending[k] + (-e.cash)
        /\ \A j \in Slots : j # k => c1[e.from].pending[j] = cash[e.from].pending[j]
        /\ \A b \in Documents : b # e.from => c1[b] = cash[b]
    BY <1>1, <1>3, <2>1, PendingAdded
  <2>3. cash' = Added(c1, e.to, k, e.cash)
    <3>1. cash[e.from].pending[k] + (-e.cash) = cash[e.from].pending[k] - e.cash
      BY <1>1, <1>3, <2>1 DEF CashRow
    <3>2. c1[e.to] = cash[e.to]
      BY <1>1, <2>2
    <3>3. c1 = [cash EXCEPT ![e.from].pending[k] = @ - e.cash]
      BY <3>1, Zenon DEF Added
    <3> HIDE DEF c1
    <3>4. cash' = [c1 EXCEPT ![e.to].pending[k] = cash[e.to].pending[k] + e.cash]
      BY <1>5, <3>3, Zenon
    <3> QED  BY <3>2, <3>4, Zenon DEF Added
  <2> HIDE DEF c1
  <2>4. /\ cash' \in [Documents -> CashRow]
        /\ cash'[e.to].pending[k] = c1[e.to].pending[k] + e.cash
        /\ \A j \in Slots : j # k => cash'[e.to].pending[j] = c1[e.to].pending[j]
        /\ \A b \in Documents : b # e.to => cash'[b] = c1[b]
    BY <1>1, <1>3, <2>2, <2>3, PendingAdded
  <2>5. cash[e.from].pending[k] \in Int
    BY <1>1, <1>3, <2>1 DEF CashRow
  <2> QED  BY <1>1, <1>3, <2>2, <2>4, <2>5
<1>9. BooksInv'
  <2>1. custody' \in [Positions -> CustodyRow] /\ \A p \in Positions : Sound(custody'[p])
    BY <1>0, <1>1, <1>3, <1>4, <1>5, ReallocatedRows DEF BooksInv, de, para
  <2> QED  BY <1>0, <1>8, <2>1 DEF BooksInv, Sound
<1>10. trades' = [trades EXCEPT ![t] = new] /\ new \in TradeRow
  <2>1. trades[t] \in TradeRow /\ trades \in [DOMAIN trades -> TradeRow]
    BY <1>0 DEF TradesInv
  <2>2. new \in TradeRow
    BY <1>1, <2>1 DEF TradeRow, TradeStates, kEdges
  <2>3. trades' = [trades EXCEPT ![t].account = e.to, ![t].state = "Allocated"]
    BY <1>2, <1>5, Zenon
  <2>4. trades'[t] = new
    BY <2>1, <2>3 DEF TradeRow
  <2> HIDE DEF new
  <2>5. DOMAIN trades' = DOMAIN trades /\ \A u \in DOMAIN trades : u # t => trades'[u] = trades[u]
    BY <2>1, <2>3
  <2>6. trades' = [u \in DOMAIN trades |-> trades'[u]]
    BY <2>3, Zenon
  <2> QED  BY <2>1, <2>2, <2>4, <2>5, <2>6
<1>11. /\ new.account = e.to /\ new.date = trades[t].date /\ new.qty = trades[t].qty /\ new.cash = trades[t].cash
       /\ new.state = "Allocated"
  BY <1>0 DEF TradesInv, TradeRow
<1> HIDE DEF new
<1>12. /\ DOMAIN trades' = DOMAIN trades /\ trades'[t] = new /\ trades' \in [DOMAIN trades -> TradeRow]
       /\ \A u \in DOMAIN trades : u # t => trades'[u] = trades[u]
  BY <1>0, <1>10 DEF TradesInv
<1>13. TradesInv'
  <2>1. UNCHANGED <<booked, boughtIn>>
    BY DEF historyVars
  <2>2. \A u \in DOMAIN trades :
           /\ trades'[u].date = trades[u].date /\ trades'[u].qty = trades[u].qty
           /\ \/ trades'[u].state \notin {"Executed", "Allocated"}
              \/ trades'[u].state = trades[u].state
              \/ trades[u].state \in {"Executed", "Allocated"}
    BY <1>2, <1>11, <1>12
  <2> QED  BY <1>0, <1>12, <2>1, <2>2, AdvanceKeeps
<1>14. ListsInv'
  <2>1. trades'[t].account = e.to /\ \A u \in DOMAIN trades : u # t => trades'[u].account = trades[u].account
    BY <1>11, <1>12
  <2> QED  BY <1>0, <1>1, <1>5, <1>12, <2>1, RowRelisted
<1>15. PendingCashIsTheTrades'
  <2> SUFFICES ASSUME NEW a \in Documents, NEW j \in Slots, j = SlotOf(window, window[j])
               PROVE  cash'[a].pending[j] = SumFunctionOnSet(TradeCash', PendingOn(a, window[j])')
    BY Zenon DEF PendingCashIsTheTrades, PendingOn
  <2> DEFINE S == PendingOn(a, window[j])
  <2>1. cash[a].pending[j] = SumFunctionOnSet(TradeCash, S)
    BY <1>0, Zenon DEF PendingCashIsTheTrades, PendingOn
  <2>2. IsFiniteSet(S) /\ S \subseteq DOMAIN trades /\ \A u \in DOMAIN trades : TradeCash[u] \in Int
    BY <1>0, PendingOnSummable
  <2>3. TradeCash' = TradeCash /\ TradeCash[t] = e.cash
    BY <1>1, <1>11, <1>12 DEF TradeCash
  <2>4. t \notin boughtIn
    <3>1. InWindow(trades[t].date)
      BY <1>1 DEF InWindow
    <3> QED  BY <1>0, <1>2, <3>1 DEF TradesInv, Covered
  <2>5. Pending(t) /\ Pending(t)' /\ \A u \in DOMAIN trades : Pending(u)' <=> Pending(u)
    BY <1>2, <1>11, <1>12, <2>4 DEF Pending, historyVars
  <2>6. cash[a].pending[j] \in Int
    BY <1>0 DEF BooksInv, CashRow
  <2>7. SumFunctionOnSet(TradeCash', PendingOn(a, window[j])') = SumFunctionOnSet(TradeCash, PendingOn(a, window[j])')
    BY <2>3, Zenon
  <2>8. CASE a = e.from /\ j = k
    <3>1. PendingOn(a, window[j])' = S \ {t} /\ t \in S
      BY <1>1, <1>3, <1>11, <1>12, <2>5, <2>8 DEF PendingOn
    <3>2. SumFunctionOnSet(TradeCash, S) = TradeCash[t] + SumFunctionOnSet(TradeCash, S \ {t})
      <4> HIDE DEF S
      <4> QED  BY <2>2, <3>1, SumRemove
    <3>3. SumFunctionOnSet(TradeCash, S \ {t}) \in Int
      <4>1. IsFiniteSet(S \ {t}) /\ \A u \in S \ {t} : TradeCash[u] \in Int
        BY <2>2, FS_Subset
      <4> HIDE DEF S
      <4> QED  BY <4>1, SumInt
    <3>4. cash'[a].pending[j] = cash[a].pending[j] - e.cash
      BY <1>8, <2>8
    <3>5. cash'[a].pending[j] = SumFunctionOnSet(TradeCash, S \ {t})
      <4> HIDE DEF S
      <4> QED  BY <1>1, <2>1, <2>3, <2>6, <3>2, <3>3, <3>4
    <3> QED  BY <2>7, <3>1, <3>5, Zenon
  <2>9. CASE a = e.to /\ j = k
    <3>1. PendingOn(a, window[j])' = S \cup {t} /\ t \notin S
      BY <1>1, <1>3, <1>11, <1>12, <2>5, <2>9 DEF PendingOn
    <3>2. SumFunctionOnSet(TradeCash, S \cup {t}) = SumFunctionOnSet(TradeCash, S) + e.cash
      <4> HIDE DEF S
      <4> QED  BY <1>1, <2>2, <2>3, <3>1, SumAdd
    <3>3. cash'[a].pending[j] = cash[a].pending[j] + e.cash
      BY <1>8, <2>9
    <3> QED  BY <2>1, <2>7, <3>1, <3>2, <3>3, Zenon
  <2>10. CASE ~(a \in {e.from, e.to} /\ j = k)
    <3>1. PendingOn(a, window[j])' = S
      <4>1. CASE j # k
        <5>1. trades[t].date # window[j]
          BY <1>1, <4>1, OtherSlot
        <5> QED  BY <1>11, <1>12, <2>5, <5>1 DEF PendingOn
      <4>2. CASE a \notin {e.from, e.to}
        BY <1>1, <1>11, <1>12, <2>5, <4>2 DEF PendingOn
      <4> QED  BY <2>10, <4>1, <4>2
    <3>2. cash'[a].pending[j] = cash[a].pending[j]
      BY <1>8, <2>10
    <3> QED  BY <2>1, <2>7, <3>1, <3>2, Zenon
  <2> QED  BY <2>8, <2>9, <2>10
<1> QED  BY <1>6, <1>7, <1>9, <1>13, <1>14, <1>15 DEF LInv

\* The allocation of a trade keeps the invariant.
LEMMA TradeAllocatedKeeps ==
  ASSUME LInv, NEW t \in TradeIds, NEW e \in AllocatedEvents(t), ApplyTradeAllocated(e)
  PROVE  LInv'
<1> DEFINE k == SlotOf(window, e.date)
           inst == trades[t].instrument
           wrong == k = 0 \/ e.qty # trades[t].qty
           both == {<<e.from, inst>>, <<e.to, inst>>}
<1>0. UNCHANGED <<cap, window, price_factor>> /\ cap' = cap /\ e.trade_id = t
  BY AllocatedEvent DEF ApplyTradeAllocated
<1>1. CASE UNCHANGED vars
  BY <1>1, Stutter
<1>2. CASE /\ t \in DOMAIN trades /\ NextState(trades[t].state, "Allocate") # "None"
           /\ ~UNCHANGED vars
  <2>1. e.from \in Documents /\ e.to \in Documents /\ <<e.from, inst>> \in Positions /\ <<e.to, inst>> \in Positions
    BY <1>2, AllocatedEvent DEF Positions
  <2>2. cap.accounts \in Nat /\ cap.positions \in Nat /\ TablesInv
    BY Capacity DEF LInv
  <2>3. ASSUME RoomForAccount({e.from})
        PROVE  /\ Fits(accounts \cup {e.from}, Documents, cap.accounts)
               /\ Fits(accounts \cup {e.from, e.to}, Documents, cap.accounts)
    BY <2>1, <2>2, <2>3, FitsTwo DEF RoomForAccount, TablesInv
  <2>4. ASSUME RoomForPosition({<<e.from, inst>>})
        PROVE  Fits(positions \cup both, Positions, cap.positions)
    <3>1. Cardinality(positions \cup {<<e.from, inst>>}) < cap.positions
      BY <2>4 DEF RoomForPosition
    <3>2. Fits(positions \cup {<<e.from, inst>>, <<e.to, inst>>}, Positions, cap.positions)
      <4> HIDE DEF inst
      <4> QED  BY <2>1, <2>2, <3>1, FitsTwo DEF TablesInv
    <3> QED  BY <3>2
  <2>5. positions \cup {} = positions
    OBVIOUS
  <2>6. CASE Interned(IF RoomForAccount({}) THEN {e.from} ELSE {}, {}) /\ Stop("full") /\ NoEffect
    <3>1. TablesInv'
      BY <1>0, <2>1, <2>6, InternedOne
    <3> QED  BY <1>0, <2>6, <3>1, Refused DEF Stop
  <2>7. CASE RoomForAccount({e.from}) /\ Interned({e.from, e.to}, {}) /\ NoEffect /\ UNCHANGED halted
    <3>1. accounts' = accounts \cup {e.from, e.to} /\ positions' = positions
      BY <2>5, <2>7, Zenon DEF Interned
    <3>2. TablesInv'
      BY <1>0, <2>2, <2>3, <2>7, <3>1 DEF TablesInv, Positions
    <3> QED  BY <1>0, <2>7, <3>2, Refused
  <2>8. CASE /\ RoomForAccount({e.from}) /\ Interned({e.from}, {})
             /\ trades' = [trades EXCEPT ![t].state = NextState(@, "Allocate")]
             /\ UNCHANGED <<bookVars, listVars, keyVars, queueVars, halted, historyVars>>
    <3> DEFINE new == [trades[t] EXCEPT !.state = "Allocated"]
    <3>1. accounts' = accounts \cup {e.from} /\ positions' = positions
      BY <2>5, <2>8, Zenon DEF Interned
    <3>2. TablesInv'
      BY <1>0, <2>2, <2>3, <2>8, <3>1 DEF TablesInv, Positions
    <3>3. trades[t].state = "Executed" /\ NextState(trades[t].state, "Allocate") = "Allocated"
      BY <1>2, AllocateEdge
    <3>4. trades[t] \in TradeRow /\ trades \in [DOMAIN trades -> TradeRow]
      BY <1>2 DEF LInv, TradesInv
    <3>5. /\ new \in TradeRow /\ new.account = trades[t].account /\ new.date = trades[t].date
          /\ new.qty = trades[t].qty /\ new.cash = trades[t].cash /\ new.state = "Allocated"
      BY <3>4 DEF TradeRow, TradeStates, kEdges
    <3>6. trades' = [trades EXCEPT ![t] = new]
      BY <2>8, <3>3, Zenon
    <3> HIDE DEF new
    <3>7. /\ DOMAIN trades' = DOMAIN trades /\ trades' \in [DOMAIN trades -> TradeRow] /\ trades'[t] = new
          /\ \A u \in DOMAIN trades : u # t => trades'[u] = trades[u]
      BY <1>2, <3>4, <3>5, <3>6
    <3>8. TradesInv'
      <4>1. UNCHANGED <<booked, boughtIn>> /\ TradesInv
        BY <2>8 DEF LInv, historyVars
      <4>2. \A u \in DOMAIN trades :
              /\ trades'[u].date = trades[u].date /\ trades'[u].qty = trades[u].qty
              /\ \/ trades'[u].state \notin {"Executed", "Allocated"}
                 \/ trades'[u].state = trades[u].state
                 \/ trades[u].state \in {"Executed", "Allocated"}
        BY <3>3, <3>5, <3>7
      <4> QED  BY <1>0, <3>7, <4>1, <4>2, AdvanceKeeps
    <3>9. ListsInv'
      <4>1. \A u \in DOMAIN trades : trades'[u].account = trades[u].account
        BY <3>5, <3>7
      <4>2. UNCHANGED listVars /\ ListsInv
        BY <2>8 DEF LInv
      <4> QED  BY <3>7, <4>1, <4>2, ListsSame
    <3>10. PendingCashIsTheTrades'
      <4>1. cash' = cash /\ boughtIn' = boughtIn /\ TradesInv /\ PendingCashIsTheTrades
        BY <2>8 DEF bookVars, historyVars, LInv
      <4>2. \A u \in DOMAIN trades : /\ Pending(u)' <=> Pending(u)
                                     /\ trades'[u].account = trades[u].account /\ trades'[u].date = trades[u].date
                                     /\ trades'[u].cash = trades[u].cash
        BY <3>3, <3>5, <3>7, <4>1 DEF Pending
      <4> QED  BY <1>0, <3>7, <4>1, <4>2, PendingSame
    <3>11. WindowInv' /\ KeysInv' /\ BooksInv' /\ QueueInv'
      BY <1>0, <2>8, WindowFrame, KeysFrame, BooksFrame DEF LInv, queueVars, QueueInv
    <3> QED  BY <3>2, <3>8, <3>9, <3>10, <3>11 DEF LInv
  <2>9. CASE /\ RoomForAccount({e.from})
             /\ Interned({e.from, e.to}, IF RoomForPosition({}) THEN {<<e.from, inst>>} ELSE {})
             /\ Stop("full") /\ NoEffect
    <3>1. accounts' = accounts \cup {e.from, e.to}
      BY <2>9 DEF Interned
    <3>2. Fits(positions', Positions, cap.positions)
      <4>1. CASE RoomForPosition({})
        <5>1. positions' = positions \cup {<<e.from, inst>>}
          BY <2>9, <4>1 DEF Interned
        <5>2. Cardinality(positions) < cap.positions
          BY <2>5, <4>1, Zenon DEF RoomForPosition
        <5> HIDE DEF inst
        <5> QED  BY <2>1, <2>2, <5>1, <5>2, FitsOne DEF TablesInv
      <4>2. CASE ~RoomForPosition({})
        <5>1. positions' = positions
          BY <2>5, <2>9, <4>2, Zenon DEF Interned
        <5> QED  BY <2>2, <5>1 DEF TablesInv
      <4> QED  BY <4>1, <4>2
    <3>3. TablesInv'
      BY <1>0, <2>3, <2>9, <3>1, <3>2 DEF TablesInv, Positions
    <3> QED  BY <1>0, <2>9, <3>3, Refused DEF Stop
  <2>10. CASE /\ RoomForAccount({e.from}) /\ ~wrong /\ e.from # e.to
              /\ RoomForPosition({<<e.from, inst>>})
              /\ Interned({e.from, e.to}, both)
              /\ IF CannotMove(e, <<e.from, inst>>, <<e.to, inst>>, k)
                 THEN NoEffect /\ UNCHANGED halted
                 ELSE Allocate(e, k) /\ UNCHANGED <<keyVars, queueVars, historyVars>>
    <3>1. accounts' = accounts \cup {e.from, e.to} /\ positions' = positions \cup both
      BY <2>10 DEF Interned
    <3>2. TablesInv'
      <4> HIDE DEF both
      <4> QED  BY <1>0, <2>3, <2>4, <2>10, <3>1 DEF TablesInv, Positions
    <3>3. CASE CannotMove(e, <<e.from, inst>>, <<e.to, inst>>, k)
      BY <1>0, <2>10, <3>2, <3>3, Refused
    <3>4. CASE ~CannotMove(e, <<e.from, inst>>, <<e.to, inst>>, k)
      BY <1>0, <1>2, <2>10, <3>2, <3>4, AllocateKeeps
    <3> QED  BY <3>3, <3>4
  <2> QED  BY <1>0, <1>2, <2>6, <2>7, <2>8, <2>9, <2>10, Zenon DEF ApplyTradeAllocated
<1> QED  BY <1>0, <1>1, <1>2, Zenon DEF ApplyTradeAllocated

-----------------------------------------------------------------------------
(* Netting and settlement. *)

\* The trades that take the edge of a trigger of netting or settlement change their
\* state, and nothing else of a trade changes.
LEMMA AdvancedTrades ==
  ASSUME TradesInv, NEW ts, NEW g, g \in {"Net", "Settle", "Fail", "BuyIn"}, trades' = Advanced(ts, g)
  PROVE  /\ DOMAIN trades' = DOMAIN trades /\ trades' \in [DOMAIN trades -> TradeRow]
         /\ \A t \in DOMAIN trades :
              /\ trades'[t].account = trades[t].account /\ trades'[t].instrument = trades[t].instrument
              /\ trades'[t].date = trades[t].date /\ trades'[t].side = trades[t].side
              /\ trades'[t].cash = trades[t].cash /\ trades'[t].qty = trades[t].qty
              /\ IF t \in ts /\ <<trades[t].state, g, trades'[t].state>> \in kEdges
                 THEN TRUE
                 ELSE /\ trades'[t] = trades[t]
                      /\ t \in ts => NextState(trades[t].state, g) = "None"
<1>1. \A t \in DOMAIN trades : trades[t] \in TradeRow
  BY DEF TradesInv
<1>2. ASSUME NEW t \in DOMAIN trades
      PROVE  /\ trades'[t] \in TradeRow
             /\ trades'[t].account = trades[t].account /\ trades'[t].instrument = trades[t].instrument
             /\ trades'[t].date = trades[t].date /\ trades'[t].side = trades[t].side
             /\ trades'[t].cash = trades[t].cash /\ trades'[t].qty = trades[t].qty
             /\ IF t \in ts /\ <<trades[t].state, g, trades'[t].state>> \in kEdges
                THEN TRUE
                ELSE /\ trades'[t] = trades[t]
                     /\ t \in ts => NextState(trades[t].state, g) = "None"
  <2> DEFINE s == NextState(trades[t].state, g)
  <2>1. trades[t] \in TradeRow
    BY <1>1
  <2>2. CASE t \in ts /\ s # "None"
    <3>1. trades'[t] = [trades[t] EXCEPT !.state = s]
      BY <2>2, Zenon DEF Advanced
    <3>2. <<trades[t].state, g, s>> \in kEdges
      BY <2>2, TradeEdges
    <3> HIDE DEF s
    <3>3. s \in TradeStates \ {"None", "Closed"}
      BY <3>2 DEF kEdges, TradeStates
    <3>4. /\ trades'[t] \in TradeRow /\ trades'[t].state = s
          /\ trades'[t].account = trades[t].account /\ trades'[t].instrument = trades[t].instrument
          /\ trades'[t].date = trades[t].date /\ trades'[t].side = trades[t].side
          /\ trades'[t].cash = trades[t].cash /\ trades'[t].qty = trades[t].qty
      BY <2>1, <3>1, <3>3 DEF TradeRow
    <3> QED  BY <2>2, <3>2, <3>4
  <2>3. CASE ~(t \in ts /\ s # "None")
    <3>1. trades'[t] = trades[t]
      BY <2>3, Zenon DEF Advanced
    <3> QED  BY <2>1, <2>3, <3>1
  <2> QED  BY <2>2, <2>3
<1>3. DOMAIN trades' = DOMAIN trades /\ trades' = [t \in DOMAIN trades |-> trades'[t]]
  BY Zenon DEF Advanced
<1> QED  BY <1>2, <1>3

\* Exceptions stay within their bound.
LEMMA PushedType ==
  ASSUME QueueInv, NEW n \in Nat, PushExceptions(n)
  PROVE  exceptions' \in 0 .. MaxExceptions
<1>1. MaxExceptions \in Nat
  BY LedgerAssumption
<1> QED  BY <1>1 DEF QueueInv, PushExceptions

\* The netting of a date keeps the invariant.
LEMMA BatchNettedKeeps ==
  ASSUME LInv, NEW e, e.account \in Documents, ApplyBatchNetted(e)
  PROVE  LInv'
<1> DEFINE k == SlotOf(window, e.date)
           ts == {t \in DueOn(e.account, e.date) : NextState(trades[t].state, "Net") # "None"}
           extra == IF e.count \notin {0, Cardinality(ts)} THEN 1 ELSE 0
<1>0. /\ UNCHANGED <<cap, window, price_factor, bookVars, listVars, keyVars, divergence, historyVars>>
      /\ cap' = cap /\ window' = window /\ cash' = cash /\ booked' = booked /\ boughtIn' = boughtIn
      /\ divergence' = divergence
      /\ UNCHANGED listVars
  BY Zenon DEF ApplyBatchNetted, bookVars, historyVars
<1>1. WindowInv' /\ KeysInv' /\ BooksInv'
  BY <1>0, WindowFrame, KeysFrame, BooksFrame DEF LInv
<1>2. CASE UNCHANGED <<tableVars, trades, exceptions>> /\ Stop("full")
  <2>1. NoEffect
    BY <1>0, <1>2, Zenon DEF NoEffect, tradeVars, queueVars
  <2>2. TablesInv'
    BY <1>0, <1>2 DEF tableVars, LInv, TablesInv, Positions
  <2> QED  BY <1>0, <1>2, <2>1, <2>2, Refused DEF Stop
<1>3. CASE /\ RoomForAccount({}) /\ Interned({e.account}, {}) /\ UNCHANGED <<trades, halted>>
           /\ UNCHANGED exceptions \/ PushExceptions(1)
  <2>1. TablesInv'
    BY <1>0, <1>3, InternedOne
  <2>2. QueueInv'
    BY <1>0, <1>3, PushedType DEF LInv, QueueInv
  <2>3. TradesInv' /\ ListsInv' /\ PendingCashIsTheTrades'
    BY <1>0, <1>3, TradesFrame, ListsFrame, PendingFrame DEF LInv, tradeVars
  <2> QED  BY <1>1, <2>1, <2>2, <2>3 DEF LInv
<1>4. CASE /\ RoomForAccount({}) /\ Interned({e.account}, {}) /\ UNCHANGED halted
           /\ trades' = Advanced(ts, "Net") /\ PushExceptions(extra)
  <2>1. TablesInv'
    BY <1>0, <1>4, InternedOne
  <2>2. QueueInv'
    <3>1. extra \in Nat
      OBVIOUS
    <3> HIDE DEF extra
    <3> QED  BY <1>0, <1>4, <3>1, PushedType DEF LInv, QueueInv
  <2> HIDE DEF ts
  <2>3. /\ DOMAIN trades' = DOMAIN trades /\ trades' \in [DOMAIN trades -> TradeRow]
        /\ \A t \in DOMAIN trades :
              /\ trades'[t].account = trades[t].account
              /\ trades'[t].date = trades[t].date
              /\ trades'[t].cash = trades[t].cash /\ trades'[t].qty = trades[t].qty
              /\ trades'[t] = trades[t] \/ <<trades[t].state, "Net", trades'[t].state>> \in kEdges
    BY <1>4, AdvancedTrades DEF LInv
  <2>4. \A t \in DOMAIN trades : trades'[t] = trades[t] \/ (trades[t].state = "Allocated" /\ trades'[t].state = "Netted")
    BY <2>3 DEF kEdges
  <2>5. TradesInv'
    BY <1>0, <2>3, <2>4, AdvanceKeeps DEF LInv
  <2>6. ListsInv'
    BY <1>0, <2>3, ListsSame DEF LInv
  <2>7. PendingCashIsTheTrades'
    <3>1. \A t \in DOMAIN trades : Pending(t)' <=> Pending(t)
      BY <1>0, <2>4 DEF Pending
    <3> QED  BY <1>0, <2>3, <3>1, PendingSame DEF LInv
  <2> QED  BY <1>1, <2>1, <2>2, <2>5, <2>6, <2>7 DEF LInv
<1> QED  BY <1>2, <1>3, <1>4, Zenon DEF ApplyBatchNetted

\* The trades of a position and side due on a date, and those a settlement is about.
Due(e) ==
  {t \in DueOn(e.account, e.date) : trades[t].instrument = e.instrument /\ trades[t].side = e.side}
Group(e) ==
  IF e.outcome = "BoughtIn" THEN {t \in Due(e) \ boughtIn : Undelivered(t)} ELSE Due(e) \ boughtIn

\* The walk along the list of an account comes by its trades.
LEMMA WalkedTrades ==
  ASSUME ListsInv, NEW a \in Documents
  PROVE  {rows[i] : i \in Walked(first[a], next, Nil)} = {t \in DOMAIN trades : trades[t].account = a}
<1> DEFINE D == 1 .. Len(rows)
<1>1. Walked(first[a], next, Nil) = Owned(Owner, a)
  BY WalkedIsOwned DEF ListsInv
<1>2. Owned(Owner, a) = {i \in D : trades[rows[i]].account = a}
  BY DEF Owned, Owner
<1>3. /\ \A i \in D : rows[i] \in DOMAIN trades
      /\ \A t \in DOMAIN trades : \E i \in D : rows[i] = t
  BY DEF ListsInv
<1> HIDE DEF D
<1>4. \A t : t \in {rows[i] : i \in {j \in D : trades[rows[j]].account = a}}
             <=> t \in {u \in DOMAIN trades : trades[u].account = a}
  BY <1>3
<1> QED  BY <1>1, <1>2, <1>4, Zenon

\* They are trades of the account, of that date.
LEMMA DueTrades ==
  ASSUME LInv, NEW e, e.account \in Documents
  PROVE  /\ Due(e) = {t \in DOMAIN trades : /\ trades[t].account = e.account /\ trades[t].date = e.date
                                            /\ trades[t].instrument = e.instrument /\ trades[t].side = e.side}
         /\ IsFiniteSet(Group(e)) /\ Group(e) \subseteq Due(e)
         /\ \A t \in Group(e) : TradeCash[t] \in Int
<1>1. {rows[i] : i \in Walked(first[e.account], next, Nil)} = {t \in DOMAIN trades : trades[t].account = e.account}
  BY WalkedTrades DEF LInv
<1>2. Due(e) = {t \in DOMAIN trades : /\ trades[t].account = e.account /\ trades[t].date = e.date
                                      /\ trades[t].instrument = e.instrument /\ trades[t].side = e.side}
  BY <1>1 DEF Due, DueOn
<1>3. Group(e) \subseteq Due(e) /\ Due(e) \subseteq DOMAIN trades
  BY <1>2 DEF Group
<1>4. IsFiniteSet(Group(e))
  BY <1>3, FS_Subset DEF LInv, TradesInv, Fits
<1>5. \A t \in DOMAIN trades : TradeCash[t] \in Int
  BY PendingOnSummable DEF LInv
<1> QED  BY <1>2, <1>3, <1>4, <1>5

\* What a settlement says.
LEMMA SettledEvent ==
  ASSUME LInv, NEW e \in SettledEvents
  PROVE  /\ e.account \in Documents /\ e.instrument \in Instruments /\ e.side \in Sides
         /\ e.cash = SumFunctionOnSet(TradeCash, Group(e)) /\ e.cash \in Int /\ e.cost \in Int
         /\ e.outcome \in {"Settled", "DeliveryFailure", "BoughtIn", "Unknown"}
         /\ e.outcome \in {"Settled", "DeliveryFailure"} => \A t \in Group(e) : trades[t].state = "Netted"
         /\ e.outcome = "BoughtIn" \/ (e.outcome # "Unknown" /\ SlotOf(window, e.date) # 0) =>
              e.qty \in Int /\ e.qty >= 0
<1>1. PICK a \in Documents, i \in Instruments, s \in Sides,
           d \in {window[1], window[2]} \cup {trades[t].date : t \in DOMAIN trades},
           outcome \in {"Settled", "DeliveryFailure", "BoughtIn", "Unknown"} :
             e \in SettlementOf(Unsettled(a, i, s, d), a, i, s, d, outcome)
  BY SMT DEF SettledEvents
<1> DEFINE due == Unsettled(a, i, s, d)
           group == IF outcome = "BoughtIn" THEN {t \in due : Undelivered(t)} ELSE due
           money == SumFunctionOnSet(TradeCash, group)
           k == SlotOf(window, d)
           owed == IF group = {} \/ (outcome # "BoughtIn" /\ k = 0) THEN One
                   ELSE Owed(custody[<<a, i>>], [side |-> s, outcome |-> outcome], k)
           ready == IF group = {} THEN outcome = "Settled" /\ a \in Traders
                    ELSE outcome = "BoughtIn" \/ \A t \in group : trades[t].state = "Netted"
<1>2. /\ e \in [account : {a}, instrument : {i}, side : {s}, date : {d}, outcome : {outcome},
                qty : {owed, owed + One}, cash : {money}, cost : {AbsOf(money)}]
      /\ ready
  BY <1>1, Zenon DEF SettlementOf
<1> HIDE DEF owed, money, ready
<1>3. /\ e.account = a /\ e.instrument = i /\ e.side = s /\ e.date = d /\ e.outcome = outcome
      /\ e.qty \in {owed, owed + One} /\ e.cash = money /\ e.cost = AbsOf(money)
  BY <1>2
<1>4. Group(e) = group
  BY <1>3, Zenon DEF Group, Due, Unsettled
<1>5. money = SumFunctionOnSet(TradeCash, Group(e))
  BY <1>4, Zenon DEF money
<1>6. money \in Int
  BY <1>3, <1>5, DueTrades, SumInt
<1>7. e.cost \in Int
  BY <1>3, <1>6 DEF AbsOf
<1>8. outcome \in {"Settled", "DeliveryFailure"} => \A t \in group : trades[t].state = "Netted"
  BY <1>2 DEF ready
<1>9. ASSUME outcome = "BoughtIn" \/ (outcome # "Unknown" /\ k # 0)
      PROVE  owed \in Int /\ owed >= 0
  <2>1. One \in Nat
    BY ScaleAssumption
  <2>2. <<a, i>> \in Positions
    BY DEF Positions
  <2>3. Sound(custody[<<a, i>>]) /\ custody[<<a, i>>] \in CustodyRow
    BY <2>2 DEF LInv, BooksInv
  <2>4. k # 0 => k \in Slots
    BY SlotOfDate
  <2> DEFINE row == custody[<<a, i>>]
             v == [side |-> s, outcome |-> outcome]
  <2>5. v.side = s /\ v.outcome = outcome
    OBVIOUS
  <2> HIDE DEF k, v, row
  <2>6. /\ row.overdue_buy \in Int /\ row.overdue_sell \in Int
        /\ row.overdue_buy >= 0 /\ row.overdue_sell >= 0
        /\ k # 0 => /\ row.pending_buy[k] \in Int /\ row.pending_sell[k] \in Int
                    /\ row.pending_buy[k] >= 0 /\ row.pending_sell[k] >= 0
    BY <2>3, <2>4, RowColumns DEF Sound, row
  <2>7. Owed(row, v, k) \in Int /\ Owed(row, v, k) >= 0
    BY <1>9, <2>5, <2>6 DEF Owed, Sides
  <2>8. owed = One \/ owed = Owed(row, v, k)
    BY Zenon DEF owed, row, v, k
  <2> QED  BY <2>1, <2>7, <2>8
<1>10. e.outcome = "BoughtIn" \/ (e.outcome # "Unknown" /\ SlotOf(window, e.date) # 0) =>
              e.qty \in Int /\ e.qty >= 0
  <2>1. One \in Nat
    BY ScaleAssumption
  <2> QED  BY <1>3, <1>9, <2>1
<1> HIDE DEF group
<1> QED  BY <1>3, <1>4, <1>5, <1>6, <1>7, <1>8, <1>10

\* A settlement moves cash between the columns of a row: the sum stays the same.
LEMMA SettledCashRow ==
  ASSUME NEW row \in CashRow, NEW e, e.cash \in Int, NEW k, e.outcome # "BoughtIn" => k \in Slots,
         e.outcome \in {"Settled", "DeliveryFailure", "BoughtIn"}
  PROVE  /\ SettledCash(row, e, k) \in CashRow
         /\ Money(SettledCash(row, e, k)) = Money(row)
         /\ e.outcome = "BoughtIn" => SettledCash(row, e, k).pending = row.pending
         /\ e.outcome # "BoughtIn" =>
              /\ SettledCash(row, e, k).pending[k] = row.pending[k] - e.cash
              /\ \A j \in Slots : j # k => SettledCash(row, e, k).pending[j] = row.pending[j]
<1> DEFINE pend == [row.pending EXCEPT ![k] = @ - e.cash]
<1>0. /\ row.pending \in [Slots -> Int] /\ row.cash \in Int /\ row.overdue \in Int /\ row.income \in Int
      /\ row = [cash |-> row.cash, pending |-> row.pending, overdue |-> row.overdue, income |-> row.income]
  BY DEF CashRow
<1>1. ASSUME k \in Slots
      PROVE  /\ pend \in [Slots -> Int] /\ Sum3(pend) \in Int /\ Sum3(row.pending) \in Int
             /\ Sum3(pend) = Sum3(row.pending) - e.cash
             /\ pend[k] = row.pending[k] - e.cash /\ \A j \in Slots : j # k => pend[j] = row.pending[j]
  BY <1>0, <1>1 DEF Sum3, Slots
<1>2. CASE e.outcome = "Settled"
  <2>1. SettledCash(row, e, k) = [row EXCEPT !.cash = row.cash + e.cash, !.pending = pend]
    BY <1>2, Zenon DEF SettledCash
  <2> HIDE DEF pend
  <2>2. /\ SettledCash(row, e, k) \in CashRow /\ SettledCash(row, e, k).pending = pend
        /\ SettledCash(row, e, k).cash = row.cash + e.cash /\ SettledCash(row, e, k).overdue = row.overdue
    <3>1. SettledCash(row, e, k) = [cash |-> row.cash + e.cash, pending |-> pend, overdue |-> row.overdue, income |-> row.income]
      BY <1>0, <2>1
    <3>2. row.cash + e.cash \in Int /\ pend \in [Slots -> Int] /\ row.overdue \in Int
      BY <1>0, <1>1, <1>2
    <3> QED  BY <1>0, <3>1, <3>2 DEF CashRow
  <2> QED  BY <1>0, <1>1, <1>2, <2>2 DEF Money
<1>3. CASE e.outcome = "DeliveryFailure"
  <2>1. SettledCash(row, e, k) = [row EXCEPT !.pending = pend, !.overdue = row.overdue + e.cash]
    BY <1>3, Zenon DEF SettledCash
  <2> HIDE DEF pend
  <2>2. /\ SettledCash(row, e, k) \in CashRow /\ SettledCash(row, e, k).pending = pend
        /\ SettledCash(row, e, k).cash = row.cash /\ SettledCash(row, e, k).overdue = row.overdue + e.cash
    <3>1. SettledCash(row, e, k) = [cash |-> row.cash, pending |-> pend, overdue |-> row.overdue + e.cash, income |-> row.income]
      BY <1>0, <2>1
    <3>2. row.cash \in Int /\ pend \in [Slots -> Int] /\ row.overdue + e.cash \in Int
      BY <1>0, <1>1, <1>3
    <3> QED  BY <1>0, <3>1, <3>2 DEF CashRow
  <2> QED  BY <1>0, <1>1, <1>3, <2>2 DEF Money
<1>4. CASE e.outcome = "BoughtIn"
  <2>1. SettledCash(row, e, k) = [row EXCEPT !.overdue = row.overdue - e.cash, !.cash = row.cash + e.cash]
    BY <1>4, Zenon DEF SettledCash
  <2>2. /\ SettledCash(row, e, k) \in CashRow /\ SettledCash(row, e, k).pending = row.pending
        /\ SettledCash(row, e, k).cash = row.cash + e.cash /\ SettledCash(row, e, k).overdue = row.overdue - e.cash
    <3>1. SettledCash(row, e, k) = [cash |-> row.cash + e.cash, pending |-> row.pending, overdue |-> row.overdue - e.cash, income |-> row.income]
      BY <1>0, <2>1
    <3>2. row.cash + e.cash \in Int /\ row.pending \in [Slots -> Int] /\ row.overdue - e.cash \in Int
      BY <1>0
    <3> QED  BY <1>0, <3>1, <3>2 DEF CashRow
  <2>3. Sum3(row.pending) \in Int
    BY <1>0 DEF Sum3, Slots
  <2> QED  BY <1>0, <1>4, <2>2, <2>3 DEF Money
<1> QED  BY <1>2, <1>3, <1>4

\* The custody row that a settlement writes.
SettledRow(row, e, k) ==
  CASE e.outcome = "Settled" -> SettledCustody(row, e, k)
    [] e.outcome = "DeliveryFailure" -> FailedCustody(row, e, k)
    [] OTHER -> BoughtInCustody(row, e)

\* Settling no more than is owed keeps the row sound.
LEMMA SettledRowSound ==
  ASSUME NEW row, Sound(row), NEW e, NEW k, e.side \in Sides, e.qty \in Int, e.qty >= 0, e.cost \in Int,
         e.outcome \in {"Settled", "DeliveryFailure", "BoughtIn"}, e.outcome # "BoughtIn" => k \in Slots,
         ~(Owed(row, e, k) < e.qty)
  PROVE  Sound(SettledRow(row, e, k))
<1>0. row \in CustodyRow
  BY DEF Sound
<1>1. CASE e.outcome = "BoughtIn"
  <2>1. /\ e.side = "Buy" => e.qty <= row.overdue_buy
        /\ e.side = "Sell" => e.qty <= row.overdue_sell
    BY <1>0, <1>1, RowColumns DEF Owed
  <2>2. SettledRow(row, e, k) = BoughtInCustody(row, e)
    BY <1>1, Zenon DEF SettledRow
  <2>3. Sound(BoughtInCustody(row, e))
    BY <2>1, BoughtInSound
  <2> QED  BY <2>2, <2>3, Zenon
<1>2. CASE e.outcome # "BoughtIn"
  <2>1. row.pending_buy[k] \in Int /\ row.pending_sell[k] \in Int
    BY <1>0, <1>2, RowColumns
  <2>2. /\ e.side = "Buy" => e.qty <= row.pending_buy[k]
        /\ e.side = "Sell" => e.qty <= row.pending_sell[k]
    BY <1>2, <2>1 DEF Owed
  <2>3. Sound(SettledCustody(row, e, k)) /\ Sound(FailedCustody(row, e, k))
    BY <1>2, <2>2, SettledSound
  <2>4. SettledRow(row, e, k) = SettledCustody(row, e, k) \/ SettledRow(row, e, k) = FailedCustody(row, e, k)
    BY <1>2, Zenon DEF SettledRow
  <2> QED  BY <2>3, <2>4, Zenon
<1> QED  BY <1>1, <1>2

\* A settlement that is accepted keeps the invariant.
LEMMA SettleKeeps ==
  ASSUME LInv, NEW e \in SettledEvents, UNCHANGED <<cap, window, price_factor>>, TablesInv',
         NEW p, p = <<e.account, e.instrument>>, NEW k, k = SlotOf(window, e.date),
         ~RefusesSettlement(e, p, k), Settle(e, p, k)
  PROVE  LInv'
<1> DEFINE g == Trigger(e.outcome)
           row == SettledRow(custody[p], e, k)
           pay == SettledCash(cash[e.account], e, k)
           n == IF e.outcome = "DeliveryFailure" THEN 1 ELSE 0
           new == {t \in Due(e) : trades[t].state = "DeliveryFailed" \/ ~InWindow(trades[t].date)}
<1>0. /\ WindowInv /\ TablesInv /\ QueueInv /\ BooksInv /\ TradesInv /\ ListsInv /\ KeysInv
      /\ PendingCashIsTheTrades
  BY DEF LInv
<1>1. /\ custody' = [custody EXCEPT ![p] = row]
      /\ cash' = [cash EXCEPT ![e.account] = pay]
      /\ PushExceptions(n)
      /\ trades' = Advanced(Due(e), g)
      /\ boughtIn' = IF e.outcome = "BoughtIn" THEN boughtIn \cup new ELSE boughtIn
      /\ CheckI3([custody EXCEPT ![p] = row], {p})
      /\ UNCHANGED <<listVars, keyVars, divergence, booked>>
  BY Zenon DEF Settle, SettledRow, Due
<1>2. /\ e.account \in Documents /\ e.instrument \in Instruments /\ e.side \in Sides
      /\ e.cash = SumFunctionOnSet(TradeCash, Group(e)) /\ e.cash \in Int /\ e.cost \in Int
      /\ e.outcome \in {"Settled", "DeliveryFailure", "BoughtIn", "Unknown"}
      /\ e.outcome \in {"Settled", "DeliveryFailure"} => \A t \in Group(e) : trades[t].state = "Netted"
      /\ e.outcome = "BoughtIn" \/ (e.outcome # "Unknown" /\ SlotOf(window, e.date) # 0) =>
              e.qty \in Int /\ e.qty >= 0
  BY SettledEvent
<1>3. /\ e.outcome \in {"Settled", "DeliveryFailure", "BoughtIn"}
      /\ e.outcome # "BoughtIn" => k \in Slots /\ window[k] = e.date
      /\ e.qty \in Int /\ e.qty >= 0 /\ ~(Owed(custody[p], e, k) < e.qty)
  <2>1. Trigger("Unknown") = "None"
    BY DEF Trigger
  <2>2. e.outcome # "Unknown" /\ (e.outcome # "BoughtIn" => k # 0) /\ ~(Owed(custody[p], e, k) < e.qty)
    BY <2>1, Zenon DEF RefusesSettlement
  <2>3. k # 0 => k \in Slots /\ window[k] = e.date
    BY SlotOfDate
  <2> QED  BY <1>2, <2>2, <2>3
<1>4. p \in Positions /\ Sound(custody[p]) /\ cash[e.account] \in CashRow
  BY <1>0, <1>2 DEF Positions, BooksInv
<1>5. Sound(row)
  BY <1>2, <1>3, <1>4, SettledRowSound
<1>6. /\ pay \in CashRow
      /\ e.outcome = "BoughtIn" => pay.pending = cash[e.account].pending
      /\ e.outcome # "BoughtIn" =>
           /\ pay.pending[k] = cash[e.account].pending[k] - e.cash
           /\ \A j \in Slots : j # k => pay.pending[j] = cash[e.account].pending[j]
  BY <1>2, <1>3, <1>4, SettledCashRow
<1>7. /\ g \in {"Settle", "Fail", "BuyIn"}
      /\ e.outcome = "Settled" => g = "Settle"
      /\ e.outcome = "DeliveryFailure" => g = "Fail"
      /\ e.outcome = "BoughtIn" => g = "BuyIn"
  BY <1>3 DEF Trigger
<1> HIDE DEF g, row, pay
<1>8. /\ DOMAIN trades' = DOMAIN trades /\ trades' \in [DOMAIN trades -> TradeRow]
      /\ \A t \in DOMAIN trades :
           /\ trades'[t].account = trades[t].account
           /\ trades'[t].date = trades[t].date
           /\ trades'[t].cash = trades[t].cash /\ trades'[t].qty = trades[t].qty
           /\ IF t \in Due(e) /\ <<trades[t].state, g, trades'[t].state>> \in kEdges
              THEN TRUE
              ELSE /\ trades'[t] = trades[t]
                   /\ t \in Due(e) => NextState(trades[t].state, g) = "None"
  BY <1>0, <1>1, <1>7, AdvancedTrades
<1>9. WindowInv' /\ KeysInv' /\ ListsInv'
  BY <1>0, <1>1, <1>8, WindowFrame, KeysFrame, ListsSame
<1>10. QueueInv'
  <2>1. n \in Nat
    OBVIOUS
  <2> HIDE DEF n
  <2>2. exceptions' \in 0 .. MaxExceptions
    BY <1>0, <1>1, <2>1, PushedType
  <2>3. halted' \in {"no", "full", "I3", "eod"}
    BY <1>0, <1>1, CheckI3Type
  <2> QED  BY <1>0, <1>1, <2>2, <2>3 DEF QueueInv
<1>11. BooksInv'
  <2>1. custody' \in [Positions -> CustodyRow] /\ \A q \in Positions : Sound(custody'[q])
    BY <1>0, <1>1, <1>4, <1>5 DEF BooksInv, Sound
  <2>2. cash' \in [Documents -> CashRow]
    BY <1>0, <1>1, <1>2, <1>6 DEF BooksInv
  <2> QED  BY <1>0, <2>1, <2>2 DEF BooksInv, Sound
<1>12. Due(e) = {t \in DOMAIN trades : /\ trades[t].account = e.account /\ trades[t].date = e.date
                                       /\ trades[t].instrument = e.instrument /\ trades[t].side = e.side}
       /\ IsFiniteSet(Group(e)) /\ Group(e) \subseteq Due(e)
  BY <1>2, DueTrades
<1>13. TradesInv'
  <2>1. \A t \in DOMAIN trades : trades'[t] = trades[t] \/ trades'[t].state \in {"Settled", "DeliveryFailed", "Netted"}
    BY <1>7, <1>8 DEF kEdges
  <2>2. CASE e.outcome # "BoughtIn"
    <3>1. boughtIn' = boughtIn /\ booked' = booked
      BY <1>1, <2>2
    <3>2. \A t \in DOMAIN trades :
           /\ trades'[t].date = trades[t].date /\ trades'[t].qty = trades[t].qty
           /\ \/ trades'[t].state \notin {"Executed", "Allocated"}
              \/ trades'[t].state = trades[t].state
              \/ trades[t].state \in {"Executed", "Allocated"}
      BY <1>8, <2>1
    <3> QED  BY <1>0, <1>8, <3>1, <3>2, AdvanceKeeps
  <2>3. CASE e.outcome = "BoughtIn"
    <3>1. boughtIn' = boughtIn \cup new /\ booked' = booked
      BY <1>1, <2>3
    <3>2. new \subseteq DOMAIN trades
      BY <1>12
    <3>3. \A t \in DOMAIN trades' : AsBooked(t)'
      BY <1>0, <1>8, <3>1 DEF TradesInv, AsBooked
    <3>4. \A t \in TradeIds : Known(t)'
      BY <1>0, <1>8, <3>1 DEF TradesInv, Known
    <3>5. \A t \in boughtIn : Covered(t)'
      <4>1. \A t \in boughtIn : Covered(t)
        BY <1>0 DEF TradesInv
      <4> QED  BY <1>8, <2>1, <3>1, <4>1 DEF Covered, InWindow
    <3>6. \A t \in new : Covered(t)'
      <4>1. \A t \in new : AsBooked(t)
        BY <1>0, <3>2 DEF TradesInv
      <4> QED  BY <1>8, <2>1, <3>1, <3>2, <4>1 DEF Covered, InWindow, AsBooked
    <3>7. boughtIn' \subseteq TradeIds
      BY <1>0, <3>1, <3>2 DEF TradesInv, Fits
    <3> QED  BY <1>0, <1>8, <3>1, <3>3, <3>4, <3>5, <3>6, <3>7 DEF TradesInv
  <2> QED  BY <2>2, <2>3
<1>14. PendingCashIsTheTrades'
  <2>1. CASE e.outcome = "BoughtIn"
    <3>1. boughtIn' = boughtIn \cup new
      BY <1>1, <2>1
    <3>2. \A a \in Documents : cash'[a].pending = cash[a].pending
      BY <1>0, <1>1, <1>2, <1>6, <2>1 DEF BooksInv
    <3>3. \A t \in DOMAIN trades : InWindow(trades[t].date) => (Pending(t)' <=> Pending(t))
      <4>1. g = "BuyIn"
        BY <1>7, <2>1
      <4>2. \A t \in DOMAIN trades :
              trades'[t] = trades[t] \/ (t \in Due(e) /\ trades[t].state = "DeliveryFailed" /\ trades'[t].state = "Netted")
        BY <1>8, <4>1 DEF kEdges
      <4> QED  BY <3>1, <4>2 DEF Pending
    <3> QED  BY <1>0, <1>8, <3>2, <3>3, PendingSame
  <2>2. CASE e.outcome # "BoughtIn"
    <3> SUFFICES ASSUME NEW a \in Documents, NEW j \in Slots, j = SlotOf(window, window[j])
                 PROVE  cash'[a].pending[j] = SumFunctionOnSet(TradeCash', PendingOn(a, window[j])')
      BY Zenon DEF PendingCashIsTheTrades, PendingOn
    <3> DEFINE S == PendingOn(a, window[j])
               G == Group(e)
    <3>1. boughtIn' = boughtIn /\ G = Due(e) \ boughtIn /\ \A t \in G : trades[t].state = "Netted"
      BY <1>1, <1>2, <1>3, <2>2 DEF Group
    <3>2. cash[a].pending[j] = SumFunctionOnSet(TradeCash, S) /\ cash[a].pending[j] \in Int
      <4>1. cash[a].pending[j] = SumFunctionOnSet(TradeCash, S)
        BY <1>0, Zenon DEF PendingCashIsTheTrades, PendingOn
      <4>2. cash[a].pending[j] \in Int
        BY <1>0 DEF BooksInv, CashRow
      <4> QED  BY <4>1, <4>2
    <3>3. IsFiniteSet(S) /\ S \subseteq DOMAIN trades /\ \A u \in S : TradeCash[u] \in Int
      BY <1>0, PendingOnSummable
    <3>4. TradeCash' = TradeCash
      BY <1>8 DEF TradeCash
    <3>5. \A t \in DOMAIN trades : t \notin G => (Pending(t)' <=> Pending(t))
      <4>1. \A t \in DOMAIN trades : trades'[t] = trades[t] \/ (t \in Due(e) /\ trades'[t].state \in {"Settled", "DeliveryFailed"})
        <5>1. g \in {"Settle", "Fail"}
          BY <1>3, <1>7, <2>2
        <5> QED  BY <1>8, <5>1 DEF kEdges
      <4> QED  BY <3>1, <4>1 DEF Pending
    <3>6. \A t \in G : ~Pending(t)'
      <4>1. ASSUME NEW t \in G  PROVE trades'[t].state \in {"Settled", "DeliveryFailed"}
        <5>1. t \in Due(e) /\ t \in DOMAIN trades /\ trades[t].state = "Netted"
          BY <1>12, <3>1
        <5>2. g \in {"Settle", "Fail"}
          BY <1>3, <1>7, <2>2
        <5>3. NextState("Netted", "Settle") = "Settled" /\ NextState("Netted", "Fail") = "DeliveryFailed"
          BY EdgeTaken DEF kEdges
        <5>4. NextState(trades[t].state, g) # "None"
          BY <5>1, <5>2, <5>3
        <5>5. <<trades[t].state, g, trades'[t].state>> \in kEdges
          BY <1>8, <5>1, <5>4
        <5> QED  BY <5>2, <5>5 DEF kEdges
      <4> QED  BY <4>1 DEF Pending
    <3>7. SumFunctionOnSet(TradeCash', PendingOn(a, window[j])') = SumFunctionOnSet(TradeCash, PendingOn(a, window[j])')
      BY <3>4, Zenon
    <3>8. CASE a = e.account /\ j = k
      <4>1. G \subseteq S
        BY <1>3, <1>12, <2>2, <3>1, <3>8 DEF PendingOn, Pending
      <4>2. PendingOn(a, window[j])' = S \ G
        BY <1>8, <3>5, <3>6 DEF PendingOn
      <4> HIDE DEF S, G
      <4>3. SumFunctionOnSet(TradeCash, S) = SumFunctionOnSet(TradeCash, G) + SumFunctionOnSet(TradeCash, S \ G)
        BY <3>3, <4>1, SumSplit
      <4>4. SumFunctionOnSet(TradeCash, S \ G) \in Int
        <5>1. IsFiniteSet(S \ G) /\ \A u \in S \ G : TradeCash[u] \in Int
          BY <3>3, FS_Subset
        <5> QED  BY <5>1, SumInt
      <4>5. cash'[a].pending[j] = cash[a].pending[j] - e.cash
        BY <1>0, <1>1, <1>2, <1>6, <2>2, <3>8 DEF BooksInv
      <4>6. e.cash = SumFunctionOnSet(TradeCash, G)
        BY <1>2 DEF G
      <4>7. cash'[a].pending[j] = SumFunctionOnSet(TradeCash, S \ G)
        BY <1>2, <3>2, <4>3, <4>4, <4>5, <4>6
      <4> QED  BY <3>7, <4>2, <4>7, Zenon
    <3>9. CASE ~(a = e.account /\ j = k)
      <4>1. \A t \in G : ~(trades[t].account = a /\ trades[t].date = window[j])
        <5>1. j # k => window[j] # e.date
          BY OtherSlot
        <5> QED  BY <1>12, <3>9, <5>1
      <4>2. PendingOn(a, window[j])' = S
        <5>1. \A t \in DOMAIN trades :
                (trades'[t].account = a /\ trades'[t].date = window[j] /\ Pending(t)') <=>
                (trades[t].account = a /\ trades[t].date = window[j] /\ Pending(t))
          BY <1>8, <3>5, <4>1
        <5>2. PendingOn(a, window[j])' =
                {t \in DOMAIN trades' : trades'[t].account = a /\ trades'[t].date = window[j] /\ Pending(t)'}
          BY Zenon DEF PendingOn
        <5> QED  BY <1>8, <5>1, <5>2 DEF PendingOn
      <4>3. cash'[a].pending[j] = cash[a].pending[j]
        BY <1>0, <1>1, <1>2, <1>6, <2>2, <3>9 DEF BooksInv
      <4> QED  BY <3>2, <3>7, <4>2, <4>3, Zenon
    <3> QED  BY <3>8, <3>9
  <2> QED  BY <2>1, <2>2
<1> QED  BY <1>9, <1>10, <1>11, <1>13, <1>14 DEF LInv

\* A settlement keeps the invariant.
LEMMA TradeSettledKeeps ==
  ASSUME LInv, NEW e \in SettledEvents, ApplyTradeSettled(e)
  PROVE  LInv'
<1> DEFINE p == <<e.account, e.instrument>>
           k == SlotOf(window, e.date)
<1>0. UNCHANGED <<cap, window, price_factor>> /\ cap' = cap
  BY DEF ApplyTradeSettled
<1>1. e.account \in Documents
  BY SettledEvent
<1>2. CASE Stop("full") /\ NoEffect /\ UNCHANGED tableVars
  <2>1. TablesInv'
    BY <1>0, <1>2 DEF tableVars, LInv, TablesInv, Positions
  <2> QED  BY <1>0, <1>2, <2>1, Refused DEF Stop
<1>3. CASE RoomForAccount({}) /\ Interned({e.account}, {}) /\ NoEffect /\ UNCHANGED halted
  <2>1. TablesInv'
    BY <1>0, <1>1, <1>3, InternedOne
  <2> QED  BY <1>0, <1>3, <2>1, Refused
<1>4. CASE RoomForAccount({}) /\ Interned({e.account}, {}) /\ ~RefusesSettlement(e, p, k) /\ Settle(e, p, k)
  <2>1. TablesInv'
    BY <1>0, <1>1, <1>4, InternedOne
  <2> QED  BY <1>0, <1>4, <2>1, SettleKeeps
<1> QED  BY <1>2, <1>3, <1>4, Zenon DEF ApplyTradeSettled

-----------------------------------------------------------------------------
(* Corporate actions and incomes. *)

\* What an action says.
LEMMA ActionEvent ==
  ASSUME NEW e \in ActionEvents
  PROVE  /\ e.account \in Documents /\ e.instrument \in Instruments /\ e.action_id \in Actions
         /\ <<e.account, e.instrument>> \in Positions /\ <<e.action_id, e.account>> \in Pairs
         /\ e.num \in Nat /\ e.den \in Nat /\ e.qty_delta \in Int /\ e.cash_delta \in Int
         /\ e.unit_cost \in Int /\ e.withheld_tax \in Int
<1>1. PICK x \in ActionIds, a \in Holders, i \in Instruments, f \in Factors, told \in BOOLEAN, ty \in ActionTypes :
        e = [action_id |-> x, account |-> a, instrument |-> i, type |-> ty, num |-> f[1],
             den |-> f[2], qty_delta |-> One, cash_delta |-> 1, unit_cost |-> 1,
             withheld_tax |-> 0, told |-> told /\ ty = "Split" /\ cap.trades = 1]
  BY SMT DEF ActionEvents
<1>2. a \in Documents /\ f[1] \in Nat /\ f[2] \in Nat /\ One \in Nat /\ x \in Actions
  BY LedgerAssumption, ScaleAssumption DEF ActionIds
<1>3. /\ e.account = a /\ e.instrument = i /\ e.action_id = x /\ e.num = f[1] /\ e.den = f[2]
      /\ e.qty_delta = One /\ e.cash_delta = 1 /\ e.unit_cost = 1 /\ e.withheld_tax = 0
  BY <1>1
<1> QED  BY <1>2, <1>3 DEF Positions, Pairs

\* What an income says.
LEMMA IncomeEvent ==
  ASSUME NEW e \in IncomeEvents
  PROVE  e.account \in Documents /\ <<e.action_id, e.account>> \in Pairs /\ e.net \in Int
<1> DEFINE G == IF OneAccount THEN {1, 2 + Tolerance} ELSE {}
<1>0. e \in {[action_id |-> x, account |-> a, stage |-> st, gross |-> g, withheld |-> 0,
              net |-> g + odd, qty_basis |-> One, rate |-> 1] :
                x \in Actions, a \in Holders, st \in {"Accrued", "Paid"}, g \in G, odd \in {0, 1}}
  BY DEF IncomeEvents
<1> HIDE DEF G
<1>1. PICK x \in Actions, a \in Holders, st \in {"Accrued", "Paid"}, g \in G, odd \in {0, 1} :
        e = [action_id |-> x, account |-> a, stage |-> st, gross |-> g, withheld |-> 0,
             net |-> g + odd, qty_basis |-> One, rate |-> 1]
  BY <1>0, SMT
<1>2. Tolerance \in Nat
  BY LedgerAssumption
<1>3. a \in Documents /\ g + odd \in Int
  BY <1>2, LedgerAssumption DEF G
<1>4. e.account = a /\ e.action_id = x /\ e.net = g + odd
  BY <1>1
<1> QED  BY <1>3, <1>4 DEF Pairs

\* A key is added to the generation in use and the other one stays as it was.
LEMMA Inserted ==
  ASSUME NEW ks \in KeySet, NEW key \in Pairs
  PROVE  /\ Insert(ks, key) \in KeySet
         /\ Insert(ks, key).cur = ks.cur /\ Insert(ks, key).rot = ks.rot
         /\ Insert(ks, key).gen[ks.cur] = ks.gen[ks.cur] \cup {key}
         /\ Insert(ks, key).gen[3 - ks.cur] = ks.gen[3 - ks.cur]
<1> DEFINE gen == [ks.gen EXCEPT ![ks.cur] = @ \cup {key}]
<1>1. /\ ks.gen \in [1 .. 2 -> SUBSET Pairs] /\ ks.cur \in 1 .. 2 /\ 3 - ks.cur \in 1 .. 2 /\ 3 - ks.cur # ks.cur
      /\ ks.rot \in Nat /\ ks = [gen |-> ks.gen, cur |-> ks.cur, rot |-> ks.rot]
  BY DEF KeySet
<1>2. Insert(ks, key) = [ks EXCEPT !.gen = gen]
  BY Zenon DEF Insert
<1>3. /\ gen \in [1 .. 2 -> SUBSET Pairs] /\ gen[ks.cur] = ks.gen[ks.cur] \cup {key}
      /\ gen[3 - ks.cur] = ks.gen[3 - ks.cur]
  BY <1>1
<1> HIDE DEF gen
<1>4. Insert(ks, key) = [gen |-> gen, cur |-> ks.cur, rot |-> ks.rot]
  BY <1>1, <1>2
<1> QED  BY <1>1, <1>3, <1>4 DEF KeySet

\* A key that is taken is guarded, and the others stay guarded.
LEMMA GuardsKept ==
  ASSUME KeysInv, NEW s \in KeySets, NEW key \in Pairs, TakeKey(s, key)
  PROVE  /\ applied' \in [KeySets -> KeySet]
         /\ \A day : Guarded(applied'[s], day, key)
         /\ \A r \in KeySets, c \in Pairs : \A day : Guarded(applied[r], day, c) => Guarded(applied'[r], day, c)
<1> DEFINE ks == applied[s]
           new == Insert(ks, key)
<1>1. ks \in KeySet
  BY DEF KeysInv
<1>2. /\ new \in KeySet /\ new.cur = ks.cur /\ new.rot = ks.rot
      /\ new.gen[ks.cur] = ks.gen[ks.cur] \cup {key} /\ new.gen[3 - ks.cur] = ks.gen[3 - ks.cur]
  BY <1>1, Inserted
<1>3. applied' = [applied EXCEPT ![s] = new]
  BY Zenon DEF TakeKey
<1> HIDE DEF new
<1>4. applied' \in [KeySets -> KeySet] /\ applied'[s] = new /\ \A r \in KeySets : r # s => applied'[r] = applied[r]
  BY <1>2, <1>3 DEF KeysInv
<1>5. \A day : Guarded(applied'[s], day, key)
  BY <1>2, <1>4 DEF Guarded
<1>6. ASSUME NEW r \in KeySets, NEW c \in Pairs, NEW day, Guarded(applied[r], day, c)
      PROVE  Guarded(applied'[r], day, c)
  <2>1. CASE r = s
    BY <1>2, <1>4, <1>6, <2>1 DEF Guarded
  <2>2. CASE r # s
    BY <1>4, <1>6, <2>2
  <2> QED  BY <2>1, <2>2
<1> QED  BY <1>4, <1>5, <1>6

\* A key that is taken by an action refused late.
LEMMA KeyTaken ==
  ASSUME KeysInv, NEW s \in KeySets, NEW key \in Pairs, TakeKey(s, key), window' = window, recent' = recent
  PROVE  KeysInv'
<1>1. \A r \in KeySets, c \in Pairs :
        /\ recent'[r][c].times <= 1
        /\ recent'[r][c].times = 1 =>
             recent'[r][c].day <= window'[1] /\ Guarded(applied'[r], recent'[r][c].day, c)
  BY GuardsKept DEF KeysInv
<1>2. applied' \in [KeySets -> KeySet]
  BY GuardsKept
<1> QED  BY <1>1, <1>2 DEF KeysInv, Guarded

\* A key that was in no generation is accepted for the first time within the window.
LEMMA KeyAccepted ==
  ASSUME KeysInv, WindowInv, NEW s \in KeySets, NEW key \in Pairs, ~Contains(applied[s], key),
         TakeKey(s, key), Remember(s, key), window' = window
  PROVE  KeysInv' /\ recent'[s][key].times > recent[s][key].times
<1> DEFINE ks == applied[s]
           mark == [day |-> window[1], times |-> recent[s][key].times + 1]
<1>1. ks.cur \in 1 .. 2 /\ ks \in KeySet
  BY DEF KeysInv, KeySet
<1>2. key \notin ks.gen[ks.cur] /\ key \notin ks.gen[3 - ks.cur]
  BY <1>1 DEF Contains
<1>3. recent[s][key].times = 0
  <2>1. recent[s][key].times \in Nat /\ recent[s][key].times <= 1
    BY DEF KeysInv
  <2>2. recent[s][key].times # 1
    BY <1>2 DEF KeysInv, Guarded
  <2> QED  BY <2>1, <2>2
<1>4. mark \in [day : Nat, times : Nat] /\ mark.times = 1 /\ mark.day = window[1] /\ window[1] \in Nat
  BY <1>3 DEF WindowInv, Slots
<1>5. recent' = [recent EXCEPT ![s][key] = mark]
  BY Zenon DEF Remember
<1> HIDE DEF mark
<1>6. /\ recent' \in [KeySets -> [Pairs -> [day : Nat, times : Nat]]] /\ recent'[s][key] = mark
      /\ \A r \in KeySets, c \in Pairs : ~(r = s /\ c = key) => recent'[r][c] = recent[r][c]
  BY <1>4, <1>5 DEF KeysInv
<1>7. \A r \in KeySets, c \in Pairs :
        /\ recent'[r][c].times <= 1
        /\ recent'[r][c].times = 1 =>
             recent'[r][c].day <= window'[1] /\ Guarded(applied'[r], recent'[r][c].day, c)
  <2> SUFFICES ASSUME NEW r \in KeySets, NEW c \in Pairs
               PROVE  /\ recent'[r][c].times <= 1
                      /\ recent'[r][c].times = 1 =>
                           recent'[r][c].day <= window'[1] /\ Guarded(applied'[r], recent'[r][c].day, c)
    OBVIOUS
  <2>1. CASE r = s /\ c = key
    <3>1. Guarded(applied'[r], recent'[r][c].day, c)
      BY <2>1, GuardsKept
    <3> QED  BY <1>4, <1>6, <2>1, <3>1
  <2>2. CASE ~(r = s /\ c = key)
    BY <1>6, <2>2, GuardsKept DEF KeysInv
  <2> QED  BY <2>1, <2>2
<1>8. applied' \in [KeySets -> KeySet]
  BY GuardsKept
<1>9. KeysInv'
  BY <1>6, <1>7, <1>8 DEF KeysInv, Guarded
<1> QED  BY <1>3, <1>4, <1>6, <1>9

\* A row of cash with another balance and other income.
CashThenIncome(row, c, y) == [row EXCEPT !.cash = c, !.income = y]
IncomeThenCash(row, c, y) == [row EXCEPT !.income = y, !.cash = c]

\* Corporate actions and incomes leave what is to be settled.
LEMMA CreditedRow ==
  ASSUME NEW row \in CashRow, NEW c \in Int, NEW y \in Int
  PROVE  /\ CashThenIncome(row, c, y) \in CashRow /\ CashThenIncome(row, c, y).pending = row.pending
         /\ IncomeThenCash(row, c, y) \in CashRow /\ IncomeThenCash(row, c, y).pending = row.pending
<1>1. /\ row.pending \in [Slots -> Int] /\ row.overdue \in Int
      /\ row = [cash |-> row.cash, pending |-> row.pending, overdue |-> row.overdue, income |-> row.income]
  BY DEF CashRow
<1>2. CashThenIncome(row, c, y) = [cash |-> c, pending |-> row.pending, overdue |-> row.overdue, income |-> y]
  <2>1. PICK z : z = [row EXCEPT !.cash = c, !.income = y]
    OBVIOUS
  <2>2. z = [cash |-> c, pending |-> row.pending, overdue |-> row.overdue, income |-> y]
    BY <1>1, <2>1
  <2> QED  BY <2>1, <2>2, Zenon DEF CashThenIncome
<1>3. IncomeThenCash(row, c, y) = [cash |-> c, pending |-> row.pending, overdue |-> row.overdue, income |-> y]
  <2>1. PICK z : z = [row EXCEPT !.income = y, !.cash = c]
    OBVIOUS
  <2>2. z = [cash |-> c, pending |-> row.pending, overdue |-> row.overdue, income |-> y]
    BY <1>1, <2>1
  <2> QED  BY <2>1, <2>2, Zenon DEF IncomeThenCash
<1> QED  BY <1>1, <1>2, <1>3 DEF CashRow

\* The cash of an account whose pending columns are left alone.
LEMMA CreditKeeps ==
  ASSUME LInv, NEW a \in Documents, NEW row \in CashRow, row.pending = cash[a].pending,
         cash' = [cash EXCEPT ![a] = row], UNCHANGED <<window, tradeVars, historyVars>>
  PROVE  cash' \in [Documents -> CashRow] /\ PendingCashIsTheTrades'
<1>1. cash' \in [Documents -> CashRow] /\ \A b \in Documents : cash'[b].pending = cash[b].pending
  BY DEF LInv, BooksInv
<1>2. trades' = trades /\ boughtIn' = boughtIn
  BY DEF tradeVars, historyVars
<1>3. \A t \in DOMAIN trades : Pending(t)' <=> Pending(t)
  BY <1>2 DEF Pending
<1>4. PendingCashIsTheTrades'
  BY <1>1, <1>2, <1>3, PendingSame DEF LInv
<1> QED  BY <1>1, <1>4

\* An action that is accepted keeps the invariant.
LEMMA ActKeeps ==
  ASSUME LInv, NEW e \in ActionEvents, UNCHANGED <<cap, window, price_factor>>, TablesInv',
         NEW p, p = <<e.account, e.instrument>>, NEW key, key = <<e.action_id, e.account>>,
         ~Malformed(e), ~Contains(applied["actions"], key), ~RefusedLate(custody[p], e), Act(e, p, key)
  PROVE  LInv' /\ recent'["actions"][key].times > recent["actions"][key].times
<1> DEFINE row == Acted(custody[p], e)
           pay == ActedCash(cash[e.account], e)
           book == [custody EXCEPT ![p] = row]
           delta == CustodyToday(book[p]) - CustodyToday(custody[p])
           n == IF e.told /\ delta # e.qty_delta THEN 1 ELSE 0
<1>0. /\ WindowInv /\ TablesInv /\ QueueInv /\ BooksInv /\ TradesInv /\ ListsInv /\ KeysInv
      /\ PendingCashIsTheTrades
  BY DEF LInv
<1>1. /\ TakeKey("actions", key) /\ Remember("actions", key)
      /\ custody' = book
      /\ cash' = [cash EXCEPT ![e.account] = pay]
      /\ PushExceptions(n)
      /\ CheckI3(book, {p})
      /\ UNCHANGED <<tradeVars, divergence, historyVars>>
  BY Zenon DEF Act
<1>2. /\ e.account \in Documents /\ p \in Positions /\ key \in Pairs
      /\ e.num \in Nat /\ e.den \in Nat /\ e.qty_delta \in Int /\ e.cash_delta \in Int
      /\ e.unit_cost \in Int /\ e.withheld_tax \in Int
  BY ActionEvent
<1>3. Sound(custody[p]) /\ cash[e.account] \in CashRow
  BY <1>0, <1>2 DEF BooksInv
<1>4. Sound(row)
  BY <1>2, <1>3, ActedSound
<1>5. pay \in CashRow /\ pay.pending = cash[e.account].pending
  <2> DEFINE moved == CASE e.type = "Subscription" -> -e.cash_delta
                        [] e.type = "LeftoversAuction" -> e.cash_delta
                        [] OTHER -> 0
  <2>1. moved \in Int
    BY <1>2
  <2> DEFINE old == cash[e.account]
             c == old.cash + moved
             y == old.income - e.withheld_tax
  <2>2. pay = CashThenIncome(old, c, y)
    BY Zenon DEF ActedCash, CashThenIncome
  <2> HIDE DEF moved, pay
  <2>3. c \in Int /\ y \in Int /\ old \in CashRow
    BY <1>2, <1>3, <2>1 DEF CashRow
  <2> HIDE DEF old, c, y
  <2>4. pay \in CashRow /\ pay.pending = old.pending
    BY <2>2, <2>3, CreditedRow
  <2> QED  BY <2>4 DEF old
<1>6. n \in Nat
  OBVIOUS
<1> HIDE DEF row, pay, n
<1>7. cash' \in [Documents -> CashRow] /\ PendingCashIsTheTrades'
  BY <1>1, <1>2, <1>5, CreditKeeps
<1>8. KeysInv' /\ recent'["actions"][key].times > recent["actions"][key].times
  <2>1. "actions" \in KeySets
    BY DEF KeySets
  <2> QED  BY <1>0, <1>1, <1>2, <2>1, KeyAccepted
<1>9. BooksInv'
  <2>1. custody' \in [Positions -> CustodyRow] /\ \A q \in Positions : Sound(custody'[q])
    BY <1>0, <1>1, <1>2, <1>4 DEF BooksInv, Sound
  <2> QED  BY <1>0, <1>7, <2>1 DEF BooksInv, Sound
<1> HIDE DEF book
<1>10. QueueInv'
  <2>1. exceptions' \in 0 .. MaxExceptions
    BY <1>0, <1>1, <1>6, PushedType
  <2>2. halted' \in {"no", "full", "I3", "eod"}
    BY <1>0, <1>1, CheckI3Type
  <2> QED  BY <1>0, <1>1, <2>1, <2>2 DEF QueueInv
<1>11. TradesInv' /\ ListsInv' /\ WindowInv'
  BY <1>0, <1>1, TradesFrame, ListsFrame, WindowFrame DEF tradeVars
<1> QED  BY <1>7, <1>8, <1>9, <1>10, <1>11 DEF LInv

\* A corporate action keeps the invariant.
LEMMA CorporateActionKeeps ==
  ASSUME LInv, NEW e \in ActionEvents, ApplyCorporateAction(e)
  PROVE  LInv'
<1> DEFINE p == <<e.account, e.instrument>>
           key == <<e.action_id, e.account>>
<1>0. UNCHANGED <<cap, window, price_factor>> /\ cap' = cap /\ window' = window
  BY DEF ApplyCorporateAction
<1>1. e.account \in Documents /\ p \in Positions /\ key \in Pairs
  BY ActionEvent
<1>2. CASE /\ ~(RoomForAccount({}) /\ RoomForPosition({}))
           /\ Interned(IF RoomForAccount({}) THEN {e.account} ELSE {}, {})
           /\ Stop("full") /\ NoEffect
  <2>1. TablesInv'
    BY <1>0, <1>1, <1>2, InternedOne
  <2> QED  BY <1>0, <1>2, <2>1, Refused DEF Stop
<1>3. ASSUME RoomForAccount({}), RoomForPosition({}), Interned({e.account}, {p})  PROVE TablesInv'
  BY <1>0, <1>1, <1>3, InternedOne
<1>4. CASE /\ RoomForAccount({}) /\ RoomForPosition({}) /\ Interned({e.account}, {p})
           /\ NoEffect /\ (UNCHANGED halted \/ Stop("full"))
  BY <1>0, <1>3, <1>4, Refused DEF Stop
<1>5. CASE /\ RoomForAccount({}) /\ RoomForPosition({}) /\ Interned({e.account}, {p})
           /\ TakeKey("actions", key)
           /\ UNCHANGED <<bookVars, tradeVars, recent, queueVars, halted, historyVars>>
  <2>1. "actions" \in KeySets /\ recent' = recent
    BY <1>5 DEF KeySets
  <2>2. KeysInv'
    BY <1>0, <1>1, <1>5, <2>1, KeyTaken DEF LInv
  <2>3. QueueInv' /\ TablesInv' /\ WindowInv'
    BY <1>0, <1>3, <1>5, WindowFrame DEF LInv, QueueInv, queueVars
  <2>4. BooksInv' /\ TradesInv' /\ ListsInv'
    BY <1>0, <1>5, BooksFrame, TradesFrame, ListsFrame DEF LInv, tradeVars
  <2>5. PendingCashIsTheTrades'
    BY <1>0, <1>5, PendingFrame DEF LInv, bookVars, tradeVars, historyVars
  <2> QED  BY <2>2, <2>3, <2>4, <2>5 DEF LInv
<1>6. CASE /\ RoomForAccount({}) /\ RoomForPosition({}) /\ Interned({e.account}, {p})
           /\ ~Malformed(e) /\ ~Contains(applied["actions"], key)
           /\ ~RefusedLate(custody[p], e) /\ Act(e, p, key)
  BY <1>0, <1>3, <1>6, ActKeeps
<1> QED  BY <1>2, <1>4, <1>5, <1>6, Zenon DEF ApplyCorporateAction

\* The income of an account keeps the invariant.
LEMMA DividendPaidKeeps ==
  ASSUME LInv, NEW e \in IncomeEvents, ApplyDividendPaid(e)
  PROVE  LInv'
<1> DEFINE key == <<e.action_id, e.account>>
<1>0. /\ UNCHANGED <<cap, window, price_factor>> /\ cap' = cap /\ window' = window
      /\ positions' = positions /\ custody' = custody /\ divergence' = divergence /\ price_factor' = price_factor
      /\ UNCHANGED tradeVars /\ UNCHANGED historyVars /\ trades' = trades /\ boughtIn' = boughtIn
  BY Zenon DEF ApplyDividendPaid, tradeVars, historyVars
<1>1. e.account \in Documents /\ key \in Pairs /\ e.net \in Int
  BY IncomeEvent
<1>2. TradesInv' /\ ListsInv' /\ WindowInv'
  BY <1>0, TradesFrame, ListsFrame, WindowFrame DEF LInv
<1>3. CASE Stop("full") /\ UNCHANGED <<accounts, cash, keyVars, exceptions>>
  <2>1. TablesInv'
    BY <1>0, <1>3 DEF LInv, TablesInv, Positions
  <2>2. NoEffect
    BY <1>0, <1>3, Zenon DEF NoEffect, bookVars, queueVars
  <2> QED  BY <1>0, <1>3, <2>1, <2>2, Refused DEF Stop
<1>4. ASSUME RoomForAccount({}), accounts' = accounts \cup {e.account}
      PROVE  TablesInv'
  <2>1. positions \cup {} = positions
    OBVIOUS
  <2>2. Interned({e.account}, {})
    BY <1>0, <1>4, <2>1, Zenon DEF Interned
  <2> QED  BY <1>0, <1>1, <1>4, <2>2, InternedOne
<1>5. CASE /\ RoomForAccount({}) /\ accounts' = accounts \cup {e.account}
           /\ UNCHANGED <<cash, keyVars>> /\ (UNCHANGED halted \/ Stop("full"))
           /\ UNCHANGED exceptions \/ PushExceptions(1)
  <2>1. QueueInv'
    BY <1>0, <1>5, PushedType DEF LInv, QueueInv, Stop
  <2>2. KeysInv' /\ BooksInv' /\ PendingCashIsTheTrades'
    BY <1>0, <1>5, KeysFrame, BooksFrame, PendingFrame DEF LInv, bookVars
  <2> QED  BY <1>2, <1>4, <1>5, <2>1, <2>2 DEF LInv
<1>6. CASE /\ RoomForAccount({}) /\ accounts' = accounts \cup {e.account}
           /\ ~Contains(applied["income"], key)
           /\ TakeKey("income", key) /\ Remember("income", key)
           /\ cash' = [cash EXCEPT ![e.account] = Credited(@, e)]
           /\ UNCHANGED <<exceptions, halted>>
  <2> DEFINE old == cash[e.account]
             pay == Credited(old, e)
  <2>1. old \in CashRow /\ old.cash \in Int /\ old.income \in Int
    BY <1>1 DEF LInv, BooksInv, CashRow
  <2>2. pay \in CashRow /\ pay.pending = old.pending
    <3>1. CASE e.stage = "Accrued"
      <4>1. pay = [old EXCEPT !.income = old.income + e.net]
        BY <3>1, Zenon DEF Credited
      <4> HIDE DEF pay, old
      <4> QED  BY <1>1, <2>1, <4>1 DEF CashRow
    <3>2. CASE e.stage # "Accrued"
      <4>1. pay = IncomeThenCash(old, old.cash + e.net, old.income - e.net)
        BY <3>2, Zenon DEF Credited, IncomeThenCash
      <4>2. old.income - e.net \in Int /\ old.cash + e.net \in Int
        BY <1>1, <2>1
      <4> HIDE DEF pay, old
      <4> QED  BY <2>1, <4>1, <4>2, CreditedRow
    <3> QED  BY <3>1, <3>2
  <2>3. cash' = [cash EXCEPT ![e.account] = pay]
    BY <1>6, Zenon
  <2> HIDE DEF pay
  <2>4. cash' \in [Documents -> CashRow] /\ PendingCashIsTheTrades'
    BY <1>0, <1>1, <2>2, <2>3, CreditKeeps DEF old
  <2>5. BooksInv'
    BY <1>0, <2>4 DEF LInv, BooksInv, Sound
  <2>6. KeysInv'
    <3>1. "income" \in KeySets
      BY DEF KeySets
    <3> QED  BY <1>0, <1>1, <1>6, <3>1, KeyAccepted DEF LInv
  <2>7. QueueInv'
    BY <1>0, <1>6 DEF LInv, QueueInv
  <2> QED  BY <1>2, <1>4, <1>6, <2>4, <2>5, <2>6, <2>7 DEF LInv
<1> QED  BY <1>3, <1>5, <1>6, Zenon DEF ApplyDividendPaid

-----------------------------------------------------------------------------
(* Prices, reconciliation and the end of the day. *)

\* A closing price keeps the invariant.
LEMMA ClosingPriceKeeps ==
  ASSUME LInv, NEW i \in Instruments, NEW f \in {0, 1},
         ApplyClosingPrice([instrument |-> i, factor |-> f])
  PROVE  LInv'
<1>1. /\ price_factor' = IF f = 0 THEN price_factor ELSE [price_factor EXCEPT ![i] = f]
      /\ UNCHANGED <<cap, window, tableVars, bookVars, tradeVars, keyVars, queueVars, halted, historyVars>>
  BY DEF ApplyClosingPrice
<1>2. /\ UNCHANGED <<cap, window>> /\ UNCHANGED <<accounts, positions>> /\ UNCHANGED <<custody, cash>>
      /\ UNCHANGED <<exceptions, divergence, halted>> /\ UNCHANGED <<trades, boughtIn>>
      /\ UNCHANGED tradeVars /\ UNCHANGED keyVars /\ UNCHANGED historyVars
  BY <1>1, Zenon DEF tableVars, bookVars, tradeVars, queueVars, historyVars
<1>3. BooksInv'
  <2>1. price_factor' \in [Instruments -> Nat]
    BY <1>1 DEF LInv, BooksInv
  <2> QED  BY <1>2, <2>1 DEF LInv, BooksInv, Sound
<1>4. WindowInv' /\ TablesInv' /\ QueueInv'
  BY <1>2, WindowFrame DEF LInv, TablesInv, QueueInv, Positions
<1>5. TradesInv' /\ ListsInv' /\ KeysInv' /\ PendingCashIsTheTrades'
  BY <1>2, TradesFrame, ListsFrame, KeysFrame, PendingFrame DEF LInv
<1> QED  BY <1>3, <1>4, <1>5 DEF LInv

\* Reconciliation and the end of a day keep the invariant: they touch no ledger.
LEMMA QueueStepKeeps ==
  ASSUME LInv, UNCHANGED <<cap, window, tableVars, price_factor, bookVars, tradeVars, keyVars, historyVars>>,
         QueueInv'
  PROVE  LInv'
<1>1. /\ UNCHANGED <<cap, window>> /\ UNCHANGED <<accounts, positions>> /\ UNCHANGED <<price_factor, bookVars>>
      /\ UNCHANGED <<trades, cash, boughtIn>>
      /\ UNCHANGED tradeVars /\ UNCHANGED keyVars /\ UNCHANGED historyVars
  BY Zenon DEF tableVars, bookVars, tradeVars, historyVars
<1>2. BooksInv' /\ WindowInv' /\ TablesInv'
  BY <1>1, BooksFrame, WindowFrame DEF LInv, TablesInv, Positions
<1>3. TradesInv' /\ ListsInv' /\ KeysInv' /\ PendingCashIsTheTrades'
  BY <1>1, TradesFrame, ListsFrame, KeysFrame, PendingFrame DEF LInv
<1> QED  BY <1>2, <1>3 DEF LInv

\* Reconciliation with the depository.
LEMMA CustodyReconciledKeeps ==
  ASSUME LInv, NEW n \in {0, 1}, ApplyCustodyReconciled([divergences |-> n])
  PROVE  LInv'
<1>1. /\ PushExceptions(n) /\ divergence' \in BOOLEAN /\ halted' = halted
      /\ UNCHANGED <<cap, window, tableVars, price_factor, bookVars, tradeVars, keyVars, historyVars>>
  BY Zenon DEF ApplyCustodyReconciled
<1>2. QueueInv'
  BY <1>1, PushedType DEF LInv, QueueInv
<1> QED  BY <1>1, <1>2, QueueStepKeeps

\* The end of the day.
LEMMA EodMarkedKeeps ==
  ASSUME LInv, NEW e, e.diverged \in BOOLEAN, ApplyEodMarked(e)
  PROVE  LInv'
<1>1. /\ UNCHANGED <<cap, window, tableVars, price_factor, bookVars, tradeVars, keyVars, historyVars>>
      /\ exceptions' = exceptions
      /\ \/ halted' = "eod" /\ divergence' = divergence
         \/ halted' = halted /\ divergence' = (divergence \/ e.diverged)
  BY Zenon DEF ApplyEodMarked, Stop
<1>2. divergence' \in BOOLEAN
  BY <1>1, Zenon DEF LInv, QueueInv
<1>3. QueueInv'
  BY <1>1, <1>2 DEF LInv, QueueInv
<1> QED  BY <1>1, <1>3, QueueStepKeeps

-----------------------------------------------------------------------------
(* The theorems. *)

\* Every step of the partition keeps the invariant.
LEMMA NextLInv ==
  ASSUME LInv, [Next]_vars
  PROVE  LInv'
<1>1. CASE UNCHANGED vars
  BY <1>1, Stutter
<1>2. ASSUME NEW e \in DayEvents, ApplyDayOpened(e)  PROVE LInv'
  BY <1>2, DayOpenedKeeps
<1>3. ASSUME NEW t \in TradeIds, NEW e \in ExecutedEvents(t), ApplyTradeExecuted(e)  PROVE LInv'
  BY <1>3, TradeExecutedKeeps
<1>4. ASSUME NEW t \in TradeIds, NEW e \in AllocatedEvents(t), ApplyTradeAllocated(e)  PROVE LInv'
  BY <1>4, TradeAllocatedKeeps
<1>5. ASSUME NEW e \in NettedEvents,
             ApplyBatchNetted([e EXCEPT !.net = @ + (IF InWindow(e.date)
               THEN cash[e.account].pending[SlotOf(window, e.date)] ELSE 0)])
      PROVE  LInv'
  <2> DEFINE v == [e EXCEPT !.net = @ + (IF InWindow(e.date)
                     THEN cash[e.account].pending[SlotOf(window, e.date)] ELSE 0)]
  <2>1. e.account \in Documents /\ v.account = e.account
    BY DEF NettedEvents
  <2>2. ApplyBatchNetted(v)
    BY <1>5
  <2> HIDE DEF v
  <2> QED  BY <2>1, <2>2, BatchNettedKeeps
<1>6. ASSUME NEW e \in SettledEvents, ApplyTradeSettled(e)  PROVE LInv'
  BY <1>6, TradeSettledKeeps
<1>7. ASSUME NEW e \in ActionEvents, ApplyCorporateAction(e)  PROVE LInv'
  BY <1>7, CorporateActionKeeps
<1>8. ASSUME NEW e \in IncomeEvents, ApplyDividendPaid(e)  PROVE LInv'
  BY <1>8, DividendPaidKeeps
<1>9. ASSUME NEW i \in Instruments, NEW f \in {0, 1}, ApplyClosingPrice([instrument |-> i, factor |-> f])
      PROVE  LInv'
  BY <1>9, ClosingPriceKeeps
<1>10. ASSUME NEW n \in IF OneAccount THEN {0, 1} ELSE {}, ApplyCustodyReconciled([divergences |-> n])
       PROVE  LInv'
  BY <1>10, CustodyReconciledKeeps
<1>11. ASSUME NEW e \in EodEvents, ApplyEodMarked(e)  PROVE LInv'
  <2>1. e.diverged \in BOOLEAN
    BY DEF EodEvents
  <2> QED  BY <1>11, <2>1, EodMarkedKeeps
<1> QED
  BY <1>1, <1>2, <1>3, <1>4, <1>5, <1>6, <1>7, <1>8, <1>9, <1>10, <1>11, Zenon DEF Next

-----------------------------------------------------------------------------
(* Conservation: what a step that books, moves and accepts nothing leaves.  *)

\* The step neither books nor moves a trade nor accepts an action or an income.
Quiet ==
  /\ DOMAIN trades' \subseteq DOMAIN trades
  /\ \A t \in DOMAIN trades' : trades'[t].account = trades[t].account
  /\ NoneAccepted

\* Projected custody and money stay what they were.
Conserved ==
  /\ \A p \in Positions : CustodyProjected(custody'[p]) = CustodyProjected(custody[p])
  /\ \A a \in Documents : Money(cash'[a]) = Money(cash[a])

\* The projected custody of a row, by its columns.
LEMMA RowProjected ==
  ASSUME NEW av, NEW buy, NEW sell, NEW obuy, NEW osell, NEW left, NEW price, NEW short
  PROVE  CustodyProjected(Row(av, buy, sell, obuy, osell, left, price, short)) = av + left + obuy + Sum3(buy)
  BY DEF CustodyProjected, Row

\* What falls out of the window is still owed (apply.cpp, apply_day_opened).
LEMMA RolledProjected ==
  ASSUME NEW row \in CustodyRow, NEW nova
  PROVE  CustodyProjected(RolledCustody(row, nova)) = CustodyProjected(row)
<1> DEFINE buy == Moved(row.pending_buy, nova)
           fbuy == Fallen(row.pending_buy, nova)
<1>1. PICK z : z = RolledCustody(row, nova)
  OBVIOUS
<1>2. PICK sell, fsell : z = [row EXCEPT !.pending_buy = buy, !.pending_sell = sell,
                                         !.overdue_buy = @ + fbuy, !.overdue_sell = @ + fsell]
  BY <1>1, Zenon DEF RolledCustody
<1>3. /\ buy \in [Slots -> Int] /\ fbuy \in Int /\ Sum3(buy) + fbuy = Sum3(row.pending_buy)
      /\ row.pending_buy \in [Slots -> Int]
  BY RowColumns, RollKeepsSum
<1>4. Sum3(buy) \in Int /\ Sum3(row.pending_buy) \in Int
  BY <1>3 DEF Sum3, Slots
<1> HIDE DEF buy, fbuy
<1>5. /\ z.available = row.available /\ z.leftovers = row.leftovers
      /\ z.overdue_buy = row.overdue_buy + fbuy /\ z.pending_buy = buy
  BY <1>2 DEF CustodyRow
<1>6. CustodyProjected(z) = CustodyProjected(row)
  BY <1>3, <1>4, <1>5, RowColumns DEF CustodyProjected
<1> QED  BY <1>1, <1>6, Zenon

\* Lowering one date of a column lowers the sum of the column by as much.
LEMMA SumLowered ==
  ASSUME NEW f \in [Slots -> Int], NEW k \in Slots, NEW q \in Int
  PROVE  /\ [f EXCEPT ![k] = @ - q] \in [Slots -> Int]
         /\ Sum3([f EXCEPT ![k] = @ - q]) = Sum3(f) - q
         /\ Sum3(f) \in Int
  BY DEF Sum3, Slots

\* A settlement, a failure and a buy-in move a quantity between the columns of the
\* projected custody, or touch only the columns of sales.
LEMMA SettledProjected ==
  ASSUME NEW row \in CustodyRow, NEW e, NEW k, e.qty \in Int,
         e.outcome \in {"Settled", "DeliveryFailure", "BoughtIn"}, e.outcome # "BoughtIn" => k \in Slots
  PROVE  CustodyProjected(SettledRow(row, e, k)) = CustodyProjected(row)
<1>0. /\ row.available \in Int /\ row.leftovers \in Int /\ row.overdue_buy \in Int
      /\ row.pending_buy \in [Slots -> Int] /\ Sum3(row.pending_buy) \in Int
  BY RowColumns DEF Sum3, Slots
<1> DEFINE buy == [row.pending_buy EXCEPT ![k] = @ - e.qty]
           sell == [row.pending_sell EXCEPT ![k] = @ - e.qty]
           price == AveragePriceHalfEven(CustodyToday(row), row.avg_price, e.qty, e.cost)
<1>1. CASE e.outcome = "BoughtIn"
  <2>1. SettledRow(row, e, k) = BoughtInCustody(row, e)
    BY <1>1, Zenon DEF SettledRow
  <2>3. CASE e.side = "Buy"
    <3>1. BoughtInCustody(row, e) =
            Row(row.available + e.qty, row.pending_buy, row.pending_sell, row.overdue_buy - e.qty,
                row.overdue_sell, row.leftovers, row.avg_price, row.short)
      BY <2>3 DEF BoughtInCustody, CustodyRow, Row
    <3> QED  BY <1>0, <2>1, <3>1, RowProjected DEF CustodyProjected
  <2>4. CASE e.side # "Buy"
    <3>1. BoughtInCustody(row, e) =
            Row(row.available, row.pending_buy, row.pending_sell, row.overdue_buy,
                row.overdue_sell - e.qty, row.leftovers, row.avg_price, row.short)
      BY <2>4 DEF BoughtInCustody, CustodyRow, Row
    <3> QED  BY <1>0, <2>1, <3>1, RowProjected DEF CustodyProjected
  <2> QED  BY <2>3, <2>4
<1>2. CASE e.outcome = "Settled"
  <2>1. SettledRow(row, e, k) = SettledCustody(row, e, k)
    BY <1>2, Zenon DEF SettledRow
  <2>2. Sum3(buy) = Sum3(row.pending_buy) - e.qty
    BY <1>0, <1>2, SumLowered
  <2>3. CASE e.side = "Buy"
    <3>1. SettledCustody(row, e, k) =
            Row(row.available + e.qty, buy, row.pending_sell, row.overdue_buy,
                row.overdue_sell, row.leftovers, price, row.short)
      BY <2>3 DEF SettledCustody, CustodyRow, Row
    <3> HIDE DEF buy, sell, price
    <3> QED  BY <1>0, <2>1, <2>2, <3>1, RowProjected DEF CustodyProjected
  <2>4. CASE e.side # "Buy"
    <3>1. SettledCustody(row, e, k) =
            Row(row.available, row.pending_buy, sell, row.overdue_buy,
                row.overdue_sell, row.leftovers, row.avg_price, row.short)
      BY <2>4 DEF SettledCustody, CustodyRow, Row
    <3> HIDE DEF buy, sell, price
    <3> QED  BY <1>0, <2>1, <3>1, RowProjected DEF CustodyProjected
  <2> QED  BY <2>3, <2>4
<1>3. CASE e.outcome = "DeliveryFailure"
  <2>1. SettledRow(row, e, k) = FailedCustody(row, e, k)
    BY <1>3, Zenon DEF SettledRow
  <2>2. Sum3(buy) = Sum3(row.pending_buy) - e.qty
    BY <1>0, <1>3, SumLowered
  <2>3. CASE e.side = "Buy"
    <3>1. FailedCustody(row, e, k) =
            Row(row.available, buy, row.pending_sell, row.overdue_buy + e.qty,
                row.overdue_sell, row.leftovers, row.avg_price, row.short)
      BY <2>3 DEF FailedCustody, CustodyRow, Row
    <3> HIDE DEF buy, sell, price
    <3> QED  BY <1>0, <2>1, <2>2, <3>1, RowProjected DEF CustodyProjected
  <2>4. CASE e.side # "Buy"
    <3>1. FailedCustody(row, e, k) =
            Row(row.available, row.pending_buy, sell, row.overdue_buy,
                row.overdue_sell + e.qty, row.leftovers, row.avg_price, row.short)
      BY <2>4 DEF FailedCustody, CustodyRow, Row
    <3> HIDE DEF buy, sell, price
    <3> QED  BY <1>0, <2>1, <3>1, RowProjected DEF CustodyProjected
  <2> QED  BY <2>3, <2>4
<1> QED  BY <1>1, <1>2, <1>3

\* A step that leaves the books conserves them.
LEMMA BooksConserved ==
  ASSUME UNCHANGED bookVars  PROVE Conserved
  BY DEF Conserved, bookVars

\* An action or an income that is accepted is not a quiet step.
LEMMA AcceptedIsNotQuiet ==
  ASSUME NEW s \in KeySets, NEW key \in Pairs, LInv, LInv', recent'[s][key].times > recent[s][key].times
  PROVE  ~Quiet
<1>1. recent[s][key].times \in Nat /\ recent'[s][key].times \in Nat
  BY DEF LInv, KeysInv
<1> QED  BY <1>1 DEF Quiet, NoneAccepted

\* A day that opens only moves amounts between dates.
LEMMA DayOpenedConserves ==
  ASSUME LInv, NEW e \in DayEvents, ApplyDayOpened(e)
  PROVE  Conserved
<1>1. CASE UNCHANGED vars
  BY <1>1, BooksConserved DEF vars
<1>2. CASE ~UNCHANGED vars
  <2>1. /\ custody' = [p \in Positions |-> RolledCustody(custody[p], e.dates)]
        /\ cash' = [a \in Documents |-> RolledCash(cash[a], e.dates)]
    BY <1>2, Zenon DEF ApplyDayOpened
  <2>2. custody \in [Positions -> CustodyRow] /\ cash \in [Documents -> CashRow]
    BY DEF LInv, BooksInv
  <2>3. \A p \in Positions : CustodyProjected(custody'[p]) = CustodyProjected(custody[p])
    BY <2>1, <2>2, RolledProjected
  <2>4. \A a \in Documents : Money(cash'[a]) = Money(cash[a])
    BY <2>1, <2>2, RolledCashRow
  <2> QED  BY <2>3, <2>4 DEF Conserved
<1> QED  BY <1>1, <1>2

\* An execution conserves the books, or books a trade.
LEMMA TradeExecutedConserves ==
  ASSUME LInv, NEW t \in TradeIds, NEW e \in ExecutedEvents(t), ApplyTradeExecuted(e), Quiet
  PROVE  Conserved
<1>1. CASE NoEffect \/ UNCHANGED vars
  BY <1>1, BooksConserved DEF NoEffect, vars
<1>2. CASE e.trade_id \notin DOMAIN trades /\ Accept(e)
  <2>1. e.trade_id \in DOMAIN trades'
    BY <1>2 DEF Accept
  <2> QED  BY <1>2, <2>1 DEF Quiet
<1> QED  BY <1>1, <1>2, Zenon DEF ApplyTradeExecuted

\* An allocation conserves the books, or moves a trade.
LEMMA TradeAllocatedConserves ==
  ASSUME LInv, NEW t \in TradeIds, NEW e \in AllocatedEvents(t), ApplyTradeAllocated(e), Quiet
  PROVE  Conserved
<1>1. CASE NoEffect \/ UNCHANGED vars \/ UNCHANGED bookVars
  BY <1>1, BooksConserved DEF NoEffect, vars
<1>2. CASE /\ e.trade_id \in DOMAIN trades /\ e.from # e.to
           /\ trades' = [trades EXCEPT ![e.trade_id].account = e.to,
                                       ![e.trade_id].state = NextState(@, "Allocate")]
  <2>1. e.trade_id = t /\ e.from = trades[t].account /\ trades[t] \in TradeRow
    BY <1>2, AllocatedEvent DEF LInv, TradesInv
  <2>2. trades'[t].account = e.to /\ t \in DOMAIN trades'
    BY <1>2, <2>1 DEF TradeRow
  <2> QED  BY <1>2, <2>1, <2>2 DEF Quiet
<1> QED  BY <1>1, <1>2, Zenon DEF ApplyTradeAllocated, Allocate

\* A settlement, a failure or a buy-in only moves amounts between columns.
LEMMA TradeSettledConserves ==
  ASSUME LInv, NEW e \in SettledEvents, ApplyTradeSettled(e)
  PROVE  Conserved
<1> DEFINE p == <<e.account, e.instrument>>
           k == SlotOf(window, e.date)
           row == SettledRow(custody[p], e, k)
           pay == SettledCash(cash[e.account], e, k)
<1>1. CASE NoEffect
  BY <1>1, BooksConserved DEF NoEffect
<1>2. CASE ~RefusesSettlement(e, p, k) /\ Settle(e, p, k)
  <2>1. /\ custody' = [custody EXCEPT ![p] = row]
        /\ cash' = [cash EXCEPT ![e.account] = pay]
    BY <1>2, Zenon DEF Settle, SettledRow
  <2>2. /\ e.account \in Documents /\ p \in Positions /\ e.cash \in Int
        /\ e.outcome \in {"Settled", "DeliveryFailure", "BoughtIn", "Unknown"}
        /\ e.outcome = "BoughtIn" \/ (e.outcome # "Unknown" /\ SlotOf(window, e.date) # 0) => e.qty \in Int
    BY SettledEvent DEF Positions
  <2>3. Trigger("Unknown") = "None"
    BY DEF Trigger
  <2>4. e.outcome # "Unknown" /\ (e.outcome # "BoughtIn" => k # 0)
    BY <1>2, <2>3, Zenon DEF RefusesSettlement
  <2>5. k # 0 => k \in Slots
    BY SlotOfDate
  <2>6. /\ e.outcome \in {"Settled", "DeliveryFailure", "BoughtIn"}
        /\ e.outcome # "BoughtIn" => k \in Slots
        /\ e.qty \in Int
    BY <2>2, <2>4, <2>5
  <2>7. custody \in [Positions -> CustodyRow] /\ cash \in [Documents -> CashRow]
    BY DEF LInv, BooksInv
  <2>8. CustodyProjected(row) = CustodyProjected(custody[p])
    BY <2>2, <2>6, <2>7, SettledProjected
  <2>9. Money(pay) = Money(cash[e.account])
    BY <2>2, <2>6, <2>7, SettledCashRow
  <2> HIDE DEF row, pay
  <2> QED  BY <2>1, <2>2, <2>7, <2>8, <2>9 DEF Conserved
<1> QED  BY <1>1, <1>2, Zenon DEF ApplyTradeSettled

\* A corporate action conserves the books, or is accepted.
LEMMA CorporateActionConserves ==
  ASSUME LInv, LInv', NEW e \in ActionEvents, ApplyCorporateAction(e), Quiet
  PROVE  Conserved
<1> DEFINE p == <<e.account, e.instrument>>
           key == <<e.action_id, e.account>>
<1>0. UNCHANGED <<cap, window, price_factor>>
  BY DEF ApplyCorporateAction
<1>1. CASE NoEffect \/ UNCHANGED bookVars
  BY <1>1, BooksConserved DEF NoEffect
<1>2. CASE /\ ~Malformed(e) /\ ~Contains(applied["actions"], key)
           /\ ~RefusedLate(custody[p], e) /\ Act(e, p, key)
  <2>1. key \in Pairs /\ "actions" \in KeySets
    BY ActionEvent DEF KeySets
  <2>2. TablesInv'
    BY DEF LInv
  <2>3. recent'["actions"][key].times > recent["actions"][key].times
    BY <1>0, <1>2, <2>2, ActKeeps
  <2> QED  BY <2>1, <2>3, AcceptedIsNotQuiet
<1> QED  BY <1>1, <1>2, Zenon DEF ApplyCorporateAction

\* An income conserves the books, or is accepted.
LEMMA DividendPaidConserves ==
  ASSUME LInv, LInv', NEW e \in IncomeEvents, ApplyDividendPaid(e), Quiet
  PROVE  Conserved
<1> DEFINE key == <<e.action_id, e.account>>
<1>0. custody' = custody /\ window' = window
  BY DEF ApplyDividendPaid
<1>1. CASE cash' = cash
  BY <1>0, <1>1, BooksConserved DEF bookVars
<1>2. CASE ~Contains(applied["income"], key) /\ TakeKey("income", key) /\ Remember("income", key)
  <2>1. key \in Pairs /\ "income" \in KeySets
    BY IncomeEvent DEF KeySets
  <2>2. recent'["income"][key].times > recent["income"][key].times
    BY <1>0, <1>2, <2>1, KeyAccepted DEF LInv
  <2> QED  BY <2>1, <2>2, AcceptedIsNotQuiet
<1> QED  BY <1>1, <1>2, Zenon DEF ApplyDividendPaid

\* Every quiet step conserves projected custody and money.
LEMMA NextConserves ==
  ASSUME LInv, LInv', [Next]_vars, Quiet
  PROVE  Conserved
<1>1. CASE UNCHANGED vars
  BY <1>1, BooksConserved DEF vars
<1>2. ASSUME NEW e \in DayEvents, ApplyDayOpened(e)  PROVE Conserved
  BY <1>2, DayOpenedConserves
<1>3. ASSUME NEW t \in TradeIds, NEW e \in ExecutedEvents(t), ApplyTradeExecuted(e)  PROVE Conserved
  BY <1>3, TradeExecutedConserves
<1>4. ASSUME NEW t \in TradeIds, NEW e \in AllocatedEvents(t), ApplyTradeAllocated(e)  PROVE Conserved
  BY <1>4, TradeAllocatedConserves
<1>5. ASSUME NEW e, ApplyBatchNetted(e)  PROVE Conserved
  BY <1>5, BooksConserved DEF ApplyBatchNetted
<1>6. ASSUME NEW e \in SettledEvents, ApplyTradeSettled(e)  PROVE Conserved
  BY <1>6, TradeSettledConserves
<1>7. ASSUME NEW e \in ActionEvents, ApplyCorporateAction(e)  PROVE Conserved
  BY <1>7, CorporateActionConserves
<1>8. ASSUME NEW e \in IncomeEvents, ApplyDividendPaid(e)  PROVE Conserved
  BY <1>8, DividendPaidConserves
<1>9. ASSUME NEW e, ApplyClosingPrice(e) \/ ApplyCustodyReconciled(e) \/ ApplyEodMarked(e)  PROVE Conserved
  BY <1>9, BooksConserved DEF ApplyClosingPrice, ApplyCustodyReconciled, ApplyEodMarked
<1> QED
  BY <1>1, <1>2, <1>3, <1>4, <1>5, <1>6, <1>7, <1>8, <1>9, Zenon DEF Next

-----------------------------------------------------------------------------
(* RV_CHECK of I3. *)

\* A partition that I3 has not stopped has no negative leftovers.
LeftoversInv == halted # "I3" => \A p \in Positions : custody[p].leftovers >= 0

\* A handler that leaves custody alone.
LEMMA LeftoversSame ==
  ASSUME LeftoversInv, Live, custody' = custody
  PROVE  LeftoversInv'
  BY DEF LeftoversInv, Live, Positions

\* A handler that checks every row it wrote.
LEMMA LeftoversChecked ==
  ASSUME LeftoversInv, Live, NEW book, NEW ps, custody' = book, CheckI3(book, ps),
         \A p \in Positions : p \notin ps => book[p] = custody[p]
  PROVE  LeftoversInv'
<1> SUFFICES ASSUME halted' # "I3", NEW p \in Positions
             PROVE  book[p].leftovers >= 0
  BY DEF LeftoversInv, Positions
<1>1. CASE p \in ps
  BY <1>1 DEF CheckI3, BucketsNonNegative
<1>2. CASE p \notin ps
  BY <1>2 DEF LeftoversInv, Live
<1> QED  BY <1>1, <1>2

\* Every step keeps it: the handlers check what they write, and a day moves no leftovers.
LEMMA NextLeftovers ==
  ASSUME LInv, LInv', LeftoversInv, [Next]_vars
  PROVE  LeftoversInv'
<1>0. custody \in [Positions -> CustodyRow]
  BY DEF LInv, BooksInv
<1>1. ASSUME UNCHANGED vars  PROVE LeftoversInv'
  <2>1. custody' = custody /\ halted' = halted
    BY <1>1 DEF vars, bookVars
  <2> QED  BY <2>1 DEF LeftoversInv, Positions
<1>2. ASSUME NEW e, ApplyDayOpened(e)  PROVE LeftoversInv'
  <2>1. CASE UNCHANGED vars
    BY <1>1, <2>1
  <2>2. CASE ~UNCHANGED vars
    <3>1. custody' = [p \in Positions |-> RolledCustody(custody[p], e.dates)] /\ halted' = halted
      BY <1>2, <2>2, Zenon DEF ApplyDayOpened
    <3>2. \A p \in Positions : RolledCustody(custody[p], e.dates).leftovers = custody[p].leftovers
      BY <1>0 DEF RolledCustody, CustodyRow
    <3> QED  BY <3>1, <3>2 DEF LeftoversInv, Positions
  <2> QED  BY <2>1, <2>2
<1>3. ASSUME NEW t \in TradeIds, NEW e \in ExecutedEvents(t), ApplyTradeExecuted(e)
      PROVE  LeftoversInv'
  <2>1. Live
    BY <1>3 DEF ApplyTradeExecuted
  <2>2. CASE UNCHANGED vars
    BY <1>1, <2>2
  <2>3. CASE NoEffect
    BY <2>1, <2>3, LeftoversSame DEF NoEffect, bookVars
  <2>4. CASE Accept(e)
    <3> DEFINE p == <<e.account, e.instrument>>
               book == [custody EXCEPT ![p] = Executed(@, e, SlotOf(window, e.date))]
    <3>1. custody' = book /\ CheckI3(book, {p})
      BY <2>4, Zenon DEF Accept
    <3>2. \A q \in Positions : q \notin {p} => book[q] = custody[q]
      BY <1>0
    <3> HIDE DEF book, p
    <3> QED  BY <2>1, <3>1, <3>2, LeftoversChecked
  <2> QED  BY <1>3, <2>2, <2>3, <2>4, Zenon DEF ApplyTradeExecuted
<1>4. ASSUME NEW t \in TradeIds, NEW e \in AllocatedEvents(t), ApplyTradeAllocated(e)
      PROVE  LeftoversInv'
  <2>1. Live
    BY <1>4 DEF ApplyTradeAllocated
  <2>2. CASE UNCHANGED vars
    BY <1>1, <2>2
  <2>3. CASE NoEffect \/ UNCHANGED bookVars
    BY <2>1, <2>3, LeftoversSame DEF NoEffect, bookVars
  <2>4. CASE \E k : Allocate(e, k)
    <3>1. PICK k : Allocate(e, k)
      BY <2>4
    <3> DEFINE de == <<e.from, trades[e.trade_id].instrument>>
               para == <<e.to, trades[e.trade_id].instrument>>
               book == Reallocated(e, de, para, k)
    <3>2. custody' = book /\ CheckI3(book, {de, para})
      BY <3>1, Zenon DEF Allocate
    <3> HIDE DEF de, para
    <3>3. \A q \in Positions : q \notin {de, para} => book[q] = custody[q]
      BY <1>0 DEF Reallocated
    <3> HIDE DEF book
    <3> QED  BY <2>1, <3>2, <3>3, LeftoversChecked
  <2> QED  BY <1>4, <2>2, <2>3, <2>4, Zenon DEF ApplyTradeAllocated
<1>5. ASSUME NEW e, ApplyBatchNetted(e)  PROVE LeftoversInv'
  BY <1>5, LeftoversSame DEF ApplyBatchNetted, bookVars
<1>6. ASSUME NEW e, ApplyTradeSettled(e)  PROVE LeftoversInv'
  <2> DEFINE p == <<e.account, e.instrument>>
             k == SlotOf(window, e.date)
  <2>1. Live
    BY <1>6 DEF ApplyTradeSettled
  <2>2. CASE NoEffect
    BY <2>1, <2>2, LeftoversSame DEF NoEffect, bookVars
  <2>3. CASE Settle(e, p, k)
    <3> HIDE DEF p, k
    <3> DEFINE book == [custody EXCEPT ![p] = SettledRow(custody[p], e, k)]
    <3>1. custody' = book /\ CheckI3(book, {p})
      BY <2>3, Zenon DEF Settle, SettledRow
    <3>2. \A q \in Positions : q \notin {p} => book[q] = custody[q]
      BY <1>0
    <3> HIDE DEF book
    <3> QED  BY <2>1, <3>1, <3>2, LeftoversChecked
  <2> QED  BY <1>6, <2>2, <2>3, Zenon DEF ApplyTradeSettled
<1>7. ASSUME NEW e, ApplyCorporateAction(e)  PROVE LeftoversInv'
  <2> DEFINE p == <<e.account, e.instrument>>
             key == <<e.action_id, e.account>>
  <2>1. Live
    BY <1>7 DEF ApplyCorporateAction
  <2>2. CASE NoEffect \/ UNCHANGED bookVars
    BY <2>1, <2>2, LeftoversSame DEF NoEffect, bookVars
  <2>3. CASE Act(e, p, key)
    <3> HIDE DEF p, key
    <3> DEFINE book == [custody EXCEPT ![p] = Acted(@, e)]
    <3>1. custody' = book /\ CheckI3(book, {p})
      BY <2>3, Zenon DEF Act
    <3>2. \A q \in Positions : q \notin {p} => book[q] = custody[q]
      BY <1>0
    <3> HIDE DEF book
    <3> QED  BY <2>1, <3>1, <3>2, LeftoversChecked
  <2> QED  BY <1>7, <2>2, <2>3, Zenon DEF ApplyCorporateAction
<1>8. ASSUME NEW e, ApplyDividendPaid(e)  PROVE LeftoversInv'
  BY <1>8, LeftoversSame DEF ApplyDividendPaid
<1>9. ASSUME NEW e, ApplyClosingPrice(e) \/ ApplyCustodyReconciled(e) \/ ApplyEodMarked(e)
      PROVE  LeftoversInv'
  BY <1>9, LeftoversSame DEF ApplyClosingPrice, ApplyCustodyReconciled, ApplyEodMarked, bookVars
<1> QED
  BY <1>1, <1>2, <1>3, <1>4, <1>5, <1>6, <1>7, <1>8, <1>9, Zenon DEF Next

-----------------------------------------------------------------------------
(* What holds in every behaviour. *)

\* The ledger of a partition keeps its invariant, whatever events arrive.
THEOREM LedgerInvariant == Spec => []LInv
<1>1. Init => LInv
  BY InitLInv
<1>2. LInv /\ [Next]_vars => LInv'
  BY NextLInv
<1> QED  BY <1>1, <1>2, PTL DEF Spec

\* The tables hold what their columns may hold, within the capacities of the partition.
THEOREM LedgerType == Spec => []TypeOK
<1>1. LInv => TypeOK
  BY LInvType
<1> QED  BY <1>1, LedgerInvariant, PTL

\* I3: a partition at work has no column below zero, short sales of the free quantity
\* apart (apply.cpp: the guards of the handlers before they write and RV_CHECK after),
\* and one that RV_CHECK has stopped has none but the leftovers of a short position.
THEOREM LedgerBuckets == Spec => []NegativeBucketStops
<1>1. Init => LeftoversInv
  BY DEF Init, LeftoversInv, EmptyCustody
<1>2. LInv /\ LInv' /\ LeftoversInv /\ [Next]_vars => LeftoversInv'
  BY NextLeftovers
<1>3. LInv /\ LeftoversInv => NegativeBucketStops
  <2> SUFFICES ASSUME LInv, LeftoversInv, NEW p \in Positions
               PROVE  \/ BucketsNonNegative(custody[p])
                      \/ /\ halted = "I3" /\ custody[p].short
                         /\ BucketsNonNegative([custody[p] EXCEPT !.leftovers = 0])
    BY DEF NegativeBucketStops
  <2> DEFINE row == custody[p]
  <2>1. Sound(row) /\ row \in CustodyRow
    BY DEF LInv, BooksInv
  <2>2. halted # "I3" => row.leftovers >= 0
    BY DEF LeftoversInv
  <2> HIDE DEF row
  <2>3. row.leftovers \in Int
    BY <2>1, RowColumns
  <2>4. CASE row.leftovers >= 0
    <3>1. BucketsNonNegative(row)
      BY <2>1, <2>4 DEF BucketsNonNegative, Sound
    <3> QED  BY <3>1 DEF row
  <2>5. CASE ~(row.leftovers >= 0)
    <3>1. halted = "I3" /\ row.short
      BY <2>1, <2>2, <2>3, <2>5 DEF Sound
    <3>2. PICK z : z = [row EXCEPT !.leftovers = 0]
      OBVIOUS
    <3>3. /\ z.leftovers = 0 /\ z.available = row.available /\ z.short = row.short
          /\ z.overdue_buy = row.overdue_buy /\ z.overdue_sell = row.overdue_sell
          /\ z.pending_buy = row.pending_buy /\ z.pending_sell = row.pending_sell
      BY <2>1, <3>2 DEF CustodyRow
    <3>4. BucketsNonNegative(z)
      BY <2>1, <3>3 DEF BucketsNonNegative, Sound
    <3> QED  BY <3>1, <3>2, <3>4, Zenon DEF row
  <2> QED  BY <2>4, <2>5
<1> QED  BY <1>1, <1>2, <1>3, LedgerInvariant, PTL DEF Spec

\* I2: what an account has to settle on a date of the window is the sum of its pending
\* trades for that date.
THEOREM LedgerPendingCash == Spec => []PendingCashIsTheTrades
<1>1. LInv => PendingCashIsTheTrades
  BY DEF LInv
<1> QED  BY <1>1, LedgerInvariant, PTL

\* The walk along the links of an account comes by all of its trades and by no other, and
\* no row has two links that lead to it, as trades are booked, change hands (unlink_trade)
\* and rows move (close_and_compact_trades), if allocations name the owner.
THEOREM LedgerLists == Spec => []ListsMatchOwners
<1>1. LInv => ListsMatchOwners
  <2> SUFFICES ASSUME LInv  PROVE ListsMatchOwners
    OBVIOUS
  <2>1. ListsInv /\ TradesInv
    BY DEF LInv
  <2>2. \A a \in Documents :
          {rows[i] : i \in Walked(first[a], next, Nil)} = {t \in DOMAIN trades : trades[t].account = a}
    BY <2>1, WalkedTrades
  <2> DEFINE D == 1 .. Len(rows)
  <2>3. \A i \in D : Owner[i] \in Documents
    BY <2>1, OwnersAreDocuments
  <2>4. Threaded(Documents, D, first, next, Owner)
    BY <2>1 DEF ListsInv
  <2> HIDE DEF D
  <2>5. DOMAIN next = D
    BY <2>4 DEF Threaded
  <2>6. \A a, b \in Documents : first[a] = first[b] => a = b \/ first[a] = Nil
    BY <2>4 DEF Threaded
  <2>7. \A i, j \in D : next[i] = next[j] => i = j \/ next[i] = Nil
    BY <2>3, <2>4 DEF Threaded
  <2>8. \A a \in Documents, j \in D : first[a] = next[j] => first[a] = Nil
    BY <2>3, <2>4 DEF Threaded
  <2>9. NoLinkShared
    BY <2>5, <2>6, <2>7, <2>8, Zenon DEF NoLinkShared
  <2> QED  BY <2>2, <2>9 DEF ListsMatchOwners
<1> QED  BY <1>1, LedgerInvariant, PTL

\* An execution delivered again is never booked twice.
THEOREM LedgerBookedOnce == Spec => []BookedOnce
<1>1. LInv => BookedOnce
  BY DEF LInv, TradesInv, Known, BookedOnce
<1> QED  BY <1>1, LedgerInvariant, PTL

\* I6: no corporate action or income is accepted twice for an account within the
\* retention window.
THEOREM LedgerIdempotency == Spec => []AcceptedOncePerWindow
<1>1. LInv => AcceptedOncePerWindow
  BY DEF LInv, KeysInv, AcceptedOncePerWindow
<1> QED  BY <1>1, LedgerInvariant, PTL

\* A step that books or moves no trade and accepts no corporate action or income creates
\* and destroys neither custody nor money (the opening of a day and the settlement handler of
\* apply.cpp, which write two columns each).
THEOREM LedgerNothingVanishes == Spec => NothingAppearsOrVanishes
<1>1. LInv /\ LInv' /\ [Next]_vars => (Quiet => Conserved)
  BY NextConserves
<1>2. LInv /\ LInv' /\ [Next]_vars =>
        [ (/\ DOMAIN trades' \subseteq DOMAIN trades
           /\ \A t \in DOMAIN trades' : trades'[t].account = trades[t].account
           /\ NoneAccepted) =>
          /\ \A p \in Positions : CustodyProjected(custody'[p]) = CustodyProjected(custody[p])
          /\ \A a \in Documents : Money(cash'[a]) = Money(cash[a]) ]_vars
  BY <1>1, Zenon DEF Quiet, Conserved
<1> QED  BY <1>2, LedgerInvariant, PTL DEF Spec, NothingAppearsOrVanishes
=============================================================================
