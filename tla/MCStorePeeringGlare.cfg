CONSTANTS
  Stores = {A, B}
  MaxConnections = 1
  MaxPeers = 4
  MaxHellos = 1
  Faults = FALSE
SPECIFICATION PeeringSpec
CHECK_DEADLOCK FALSE
INVARIANTS CollisionResolved
