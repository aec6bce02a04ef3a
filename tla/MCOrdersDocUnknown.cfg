SPECIFICATION Spec
CONSTANTS
  e1 = e1
  e2 = e2
  c1 = c1
  NoKey = NoKey
  EntryKeys <- TwoEntries
  CloseKeys <- NoClose
  EntrySides <- BuyOnly
  EntryQty = 1
  MaxPositions = 2
  CancelRemainder = FALSE
  MaxApiFailures = 2
  ReportedSide <- SameSpelling
  Disturbances = {}
SYMMETRY KeySymmetry
INVARIANTS
  UnknownOpensNothing
CHECK_DEADLOCK FALSE
