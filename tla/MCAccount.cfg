SPECIFICATION Spec
CONSTANTS
  btc = btc
  eth = eth
  NoField = NoField
  Symbols <- BtcAndEth
  Configs <- Four
  Fallback = 1000
  Inherited <- NothingOrLegacy
  MaxNow = 9
  MaxBoots = 4
  MaxOrders = 2
  Pnl = 300
  Fee = 10
INVARIANTS
  RunsUnderItsSnapshot
  KeepsItsTerms
  CurveMeetsEquity
PROPERTIES
  RestartKeepsEquity
CHECK_DEADLOCK FALSE
