SPECIFICATION SessionSpec
CONSTANTS
  One = 2
  Scale = 4
  Documents = {"d1", "d2"}
  Instruments = {"i1"}
  TradeIds = {1, 2, 3, 4, 5, 6, 7, 8}
  Actions = {1, 2, 3, 4, 5, 6, 7}
  Traders = {"d1", "d2"}
  Holders = {"d1"}
  Capacities <- MCCapacities
  Days = {1}
  Lags = {2}
  Lots = {2}
  UnitPrice = 3
  Fees = 1
  Factors <- MCFactors
  Retention = 5
  Tolerance = 1
  MaxExceptions = 9
  Plans <- MCPlans
  Calendar <- MCCalendar
  Sevenths = {"d1"}
  HugeLot = 1000
  Rate = 3
  WithheldBp = 1500
CHECK_DEADLOCK FALSE
INVARIANT
  LegsAgree
