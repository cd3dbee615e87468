CONSTANTS
  MinuteLen = 1
  FiveLen = 2
  None = None
  Prices = {1, 2}
  DayLen = 2
  CacheLife = 1
  MaxClock = 2
  MaxTrades = 3
  MaxQueue = 1
  MaxFaults = 1
SPECIFICATION Spec
CHECK_DEADLOCK FALSE
INVARIANTS CandlesAreTrades 
