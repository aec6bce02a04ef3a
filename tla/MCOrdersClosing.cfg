SPECIFICATION Spec
CONSTANTS
  e1 = e1
  e2 = e2
  c1 = c1
  NoKey = NoKey
  EntryKeys <- OneEntry
  CloseKeys <- OneClose
  EntrySides <- BuyOnly
  EntryQty = 2
  MaxPositions = 1
  CancelRemainder = FALSE
  MaxApiFailures = 1
  ReportedSide <- SameSpelling
  Disturbances = {"kill"}
INVARIANTS
  TerminalMeansSettled
PROPERTIES
  KillStopsSubmissions
CHECK_DEADLOCK FALSE
