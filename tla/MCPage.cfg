CONSTANTS
  Nodes = {1, 2}
  MaxConnections = 1
  Wiring = "sync"
  MaxPcs = 5
  Faults = 2
  None = None
  c1 = c1
  c2 = c2
  c3 = c3
  Calls = {c1, c2, c3}
  KindsOf <- MCKindsOf
  MaxWorkers = 2
  Nil = nil
  r1 = r1
  r2 = r2
  r3 = r3
  Requests = {r1, r2, r3}
  RequestsOf <- MCRequestsOf
  ChunkSize = 2
  MaxControllers = 2
  MaxRestarts = 1
  MaxSetups = 3
  Absent = absent
SPECIFICATION MCSpec
CHECK_DEADLOCK FALSE
INVARIANTS HalvesAgree CallsSound ReaderSound BodiesExact
PROPERTIES RequestsInTime NodesConnect ClosesOwnWorker PageSettles UpdatesSpareDownloads
