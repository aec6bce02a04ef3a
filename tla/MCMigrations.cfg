SPECIFICATION Spec
CONSTANTS
  Databases <- All
  MaxRuns = 3
  MaxFaults = 2
INVARIANTS
  UpMeansHead
  AllOrNothing
  RowsSurvive
  RefusedForCause
CHECK_DEADLOCK FALSE
