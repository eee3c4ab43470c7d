SPECIFICATION Spec
CONSTANTS
  TableSlots = 4
  Hash <- MCHash
  Trades = {1, 2}
  Keys = {11, 12}
  MaxRows = 2
  Window = 1
  MaxEvents = 2
  MaxImages = 2
  MaxCrashes = 1
CHECK_DEADLOCK FALSE
INVARIANT StateIsTheLog
