CONSTANTS
  Callers = {c1, c2}
  Answers = {a1}
  Contents <- MCContents
  MaxParts = 3
  None = None
SPECIFICATION FairSpec
CHECK_DEADLOCK FALSE
PROPERTIES JoinersSettle
