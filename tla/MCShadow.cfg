SPECIFICATION Spec
CONSTANTS
  btc = btc
  eth = eth
  A = A
  B = B
  Symbols <- BtcAndEth
  Configs <- BothConfigs
  LeftSymbol = eth
  Earlier <- AThenB
  Bucket = 2
  Day = 6
  max_position_usd = 2
  max_total_exposure_usd = 3
  min_order_notional_usd = 1
  max_daily_loss = 2
  cooldown_after_losses = 1
  cooldown_minutes = 2
  MaxTime <- Candles
  MaxBoots = 3
  MaxFaults = 1
INVARIANTS
  ApartUnlessStrayed
  WithinItsMeans
  OneTradePerPosition
  NoReentryOnExit
PROPERTIES
  BrakesHold
CHECK_DEADLOCK FALSE
