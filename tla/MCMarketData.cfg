SPECIFICATION LiveSpec
CONSTANTS
  Slots = 2
  Fast = 1
  Slow = 2
  AtrPeriod = 1
  MinAtr = 1
  MaxAtr = 50
  MaxMinute = 8
  PageSize = 2
  MaxPages = 2
  InitialStart <- NoStart
  Sources = {"bybit", "replay"}
  Prices <- OneCourse
  MaxFaults = 2
  Faults = {"hole", "fetch", "raise", "crash"}
INVARIANTS
  NoCandleSkipped
  RestartChangesNothing
  NoInventedSignal
PROPERTIES
  BacklogDrained
  HoleIsReported
