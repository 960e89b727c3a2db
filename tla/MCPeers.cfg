CONSTANTS
  Callers = {c1, c2, c3}
  Answers = {a1, a2}
  Contents <- MCContents
  MaxParts = 3
  None = None
  Stores = {A, B}
  MaxConnections = 1
  MaxPeers = 3
  MaxHellos = 2
  Faults = TRUE
  Reads = {1, 2}
  Refs = {1, 2}
  HashOf <- MCHashOf
  Peers = {p1, p2}
  Satisfied = 2
  MaxConnects = 2
  Unset = unset
SPECIFICATION MCSpec
CHECK_DEADLOCK FALSE
INVARIANTS Bookkeeping CallersServed PeersAreLive ReadsSound
PROPERTIES PeersSettle
