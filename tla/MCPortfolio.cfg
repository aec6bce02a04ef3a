SPECIFICATION Spec
CONSTANTS
  btc = btc
  eth = eth
  Symbols <- BtcAndEth
  MaxApiFailures = 1
  Price = 10
  Slip = 1
  MaxPosition = 990
  MaxExposure = 1881
  MinNotional = 99
  MaxConcurrent = 2
  MaxDailyLoss = 1
  LossesToCool = 2
  CooldownTime = 2
  DayLength = 2
  MaxTime = 4
  MaxTrades = 3
  MaxFaults = 1
SYMMETRY SymbolSymmetry
INVARIANTS
  ExposureWithinLimit
  DailyLossIsBounded
  BookFollowsDatabase
PROPERTIES
  CooldownHolds
CHECK_DEADLOCK FALSE
