SPECIFICATION Spec
CONSTANTS
  One = 2
  Scale = 4
  Documents = {d1, d2}
  Instruments = {i1}
  TradeIds = {t1, t2}
  Actions = {7, 8}
  Traders = {d1}
  Holders = {d1}
  Capacities <- MCCapacities
  Days = {1, 2, 3}
  Lags = {1, 3}
  Lots = {0, 2}
  UnitPrice = 3
  Fees = 1
  Factors <- MCFactors
  Retention = 1
  Tolerance = 1
  MaxExceptions = 1
SYMMETRY Symmetry
CHECK_DEADLOCK FALSE
INVARIANTS
  TypeOK
  NegativeBucketStops
  PendingCashIsTheTrades
  ListsMatchOwners
  AcceptedOncePerWindow
  BookedOnce
PROPERTIES
  NothingAppearsOrVanishes
