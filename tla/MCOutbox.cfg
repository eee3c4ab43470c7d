SPECIFICATION Spec
CONSTANTS
  Slots = 4
  BufCap = 5
  InboxCap = 1
  Batch = 1
  ReserveEntries = 2
  ReserveBytes = 2
  OutLens = {1, 2}
  MaxFrames = 6
  Starts = {0}
INVARIANT PayloadIntact
CHECK_DEADLOCK FALSE
