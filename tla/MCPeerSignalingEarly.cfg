CONSTANTS
  Nodes = {1, 2}
  MaxConnections = 1
  Wiring = "async"
  MaxPcs = 4
  Faults = 1
  None = None
SPECIFICATION Spec
CHECK_DEADLOCK FALSE
PROPERTY OfferRequested
