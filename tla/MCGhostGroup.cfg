SPECIFICATION RSpec
CONSTANTS
  NumBuffers = 2
  MaxInflight = 3
  GroupBytes = 2
  BlockBytes = 2
  RecLens = {1, 2}
  MaxLsn = 4
  Tails <- MCTails
  SegmentCells = 12
  MaxEvents = 4
  MaxCrashes = 2
INVARIANT DroppedStaysDropped
CHECK_DEADLOCK FALSE
