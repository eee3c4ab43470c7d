SPECIFICATION Spec
CONSTANTS
  N = 2
  MaxEvents = 1
  Backlog = 1
CHECK_DEADLOCK FALSE
INVARIANTS
  HealthAnswersHold
  DescriptorsOutliveWorker
PROPERTIES
  CountersNeverGoBack
  StopReturnsOnceQuiet
