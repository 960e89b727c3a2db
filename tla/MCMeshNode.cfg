CONSTANTS
  a = a
  b = b
  a1 = a1
  a2 = a2
  b1 = b1
  Hash = hash
  Ids <- MCIds
  Conns <- MCConns
  IdOf <- MCIdOf
  Requests = {r1, r2, r3}
  Responses = {s1}
  Gets = {g1}
  MaxDeferred = 2
  None = None
SPECIFICATION MCSpec
SYMMETRY Symmetry
CHECK_DEADLOCK FALSE
INVARIANTS NothingStranded AnswersWereAsked
PROPERTIES SettledTogether MarkedAreServed
