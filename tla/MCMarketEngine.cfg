SPECIFICATION LiveSpec
CONSTANTS
  btc = btc
  eth = eth
  t1 = t1
  NoSlot = NoSlot
  SymbolOrder <- TwoSymbols
  Slots <- OneSlot
  Threshold = 2
  HealthyTicks = 2
  Reports <- AnyReport
  Disturbances = {"slow", "raise", "death", "stop"}
INVARIANTS
  OneTickAtATime
  NothingAfterClose
  EntriesAreEarned
  EngineInv
PROPERTIES
  EngineRecovers
  EverySymbolServed
  ShutdownEnds
CHECK_DEADLOCK FALSE
