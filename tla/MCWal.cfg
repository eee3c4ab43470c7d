SPECIFICATION FairSpec
CONSTANTS
  NumBuffers = 2
  MaxInflight = 3
  GroupBytes = 4
  BlockBytes = 2
  RecLens = {1, 3}
  MaxLsn = 5
  Tails <- MCTails
INVARIANTS
  TypeOK
  LogIsContiguous
  FileIsTiled
  BufferIsHeld
  DurableIsWritten
PROPERTIES
  ImplementsJournal
  EveryAppendSettles
  BackPressureEnds
CHECK_DEADLOCK FALSE
