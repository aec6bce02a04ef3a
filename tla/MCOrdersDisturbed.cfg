SPECIFICATION Spec
CONSTANTS
  e1 = e1
  e2 = e2
  c1 = c1
  NoKey = NoKey
  EntryKeys <- OneEntry
  CloseKeys <- NoClose
  EntrySides <- BuyOnly
  EntryQty = 2
  MaxPositions = 1
  CancelRemainder = TRUE
  MaxApiFailures = 2
  ReportedSide <- SameSpelling
  Disturbances = {"protection", "kill", "pause", "stop", "crash", "error", "market"}
INVARIANTS
  TypeOK
  UnknownBlocks
  GateMirrorsCauses
PROPERTIES
  KeepsTheBooks
CHECK_DEADLOCK FALSE
