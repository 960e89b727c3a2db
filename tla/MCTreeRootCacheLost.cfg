CONSTANTS
  h1 = h1
  h2 = h2
  k1 = k1
  k2 = k2
  Hashes = {h1, h2}
  KeyOf <- MCKeyOf
  Events <- MCEvents
  Calls = {c1, c2}
  Kinds = {"set"}
  None = None
SPECIFICATION Spec
SYMMETRY Symmetry
CHECK_DEADLOCK FALSE
INVARIANTS NewerRootKept
