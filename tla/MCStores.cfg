CONSTANTS
  Hashes = {h1, h2}
  Peers = {p1, p2}
  TimerIds = {t1, t2}
  RequestTimeout = 2
  MaxForwards = 2
  Window = 2
  Stores = {s1, s2}
  Readers = {r1, r2}
  MaxReads = 2
  MaxChanges = 1
  Blobs = {h1}
  NoRead = none
  Nothing = none
  Servers <- MCServers
  Configs <- MCConfigs
  Blocks <- MCBlocks
  Kids <- MCKids
  TreeRoot = 1
  MaxHashAttempts = 2
  MaxBackoff = 2
  PutIds = {1, 2, 3}
  GetIds = {g1}
  MaxErrors = 2
  MaxProbes = 1
  MaxQueueItems = 4
  MaxQueueBytes = 5
  BufferThreshold = 3
  QueueHigh = 3
  QueueLow = 2
  Sizes = {1, 2}
  MaxSends = 6
  Concurrency = 1
SPECIFICATION MCSpec
CHECK_DEADLOCK FALSE
INVARIANTS Safety ReadsShared PushComplete
PROPERTIES EveryWaiterReleased RefusedOnlyWhenSpent ImplementsCoalescing StoresSettle PutsAreTrue QueueDelivers
