SPECIFICATION HistorySpec
CONSTANTS
  NKeys = 3
  CFOf <- MCCFOf
  CacheKeyOf <- MCCacheKeyOf
  Batches <- MCBatches
  FullKey <- MCFullKey
  v1 = v1
  Stored <- MCNothing
  v2 = v2
  Values = {v1, v2}
  None = None
  Promote = 1
  Demote = 0
  Hysteresis = 0
  MaxCount = 1
  MaxMove = 2
  Clients = {c1}
  Backends = {"tiered"}
  Limit = 2
  MaxCalls = 3
  MaxRounds = 1
  MaxCrashes = 1
PROPERTY GetReturnsLastPut
CHECK_DEADLOCK FALSE
