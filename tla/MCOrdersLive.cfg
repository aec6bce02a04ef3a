SPECIFICATION LiveSpec
CONSTANTS
  e1 = e1
  e2 = e2
  c1 = c1
  NoKey = NoKey
  EntryKeys <- OneEntry
  CloseKeys <- NoClose
  EntrySides <- BuyOnly
  EntryQty = 2
  MaxPositions = 1
  CancelRemainder = TRUE
  MaxApiFailures = 1
  ReportedSide <- SameSpelling
  Disturbances = {"error", "crash", "protection"}
PROPERTIES
  OrderSettles
  NoSilentMismatch
CHECK_DEADLOCK FALSE
