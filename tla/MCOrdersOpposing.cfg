SPECIFICATION Spec
CONSTANTS
  e1 = e1
  e2 = e2
  c1 = c1
  NoKey = NoKey
  EntryKeys <- TwoEntries
  CloseKeys <- NoClose
  EntrySides <- BothWays
  EntryQty = 1
  MaxPositions = 1
  CancelRemainder = FALSE
  MaxApiFailures = 1
  ReportedSide <- SameSpelling
  Disturbances = {"clock"}
SYMMETRY KeySymmetry
INVARIANTS
  PositionExplained
CHECK_DEADLOCK FALSE
