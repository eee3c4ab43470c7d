SPECIFICATION FairSpec
CONSTANTS
  Slots = 8
  BufCap = 4
  InboxCap = 1
  Batch = 2
  ReserveEntries = 4
  ReserveBytes = 2
  OutLens = {1}
  MaxFrames = 5
  Starts = {0}
INVARIANTS
  TypeOK
  NoEarlyOutput
  PayloadIntact
  FramesLoggedOnce
PROPERTIES
  NothingAfterStop
  InboxDrains
  OutboxDrains
CHECK_DEADLOCK FALSE
