SPECIFICATION RSpec
CONSTANTS
  NumBuffers = 2
  MaxInflight = 3
  GroupBytes = 4
  BlockBytes = 2
  RecLens = {1, 2}
  MaxLsn = 4
  Tails <- MCTails
  SegmentCells = 12
  MaxEvents = 4
  MaxCrashes = 2
INVARIANTS
  FirstRecoveryKeepsAcked
  CleanStopsKeepAcked
PROPERTY ReplayedStays
CHECK_DEADLOCK FALSE
