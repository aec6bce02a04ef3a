SPECIFICATION Spec
CONSTANTS
  FundingWindow = 2
  PollInterval = 1
  MaxNow = 6
INVARIANTS
  CoveredIsCollected
  BookedOnce
CHECK_DEADLOCK FALSE
