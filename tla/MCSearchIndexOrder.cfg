CONSTANTS
  MaxKeys = 3
  Null = null
  Values = {v1}
  Terms <- MCTerms
  Ids <- MCIds
  Words <- MCWords
  TermLists <- MCTermLists
  Collation <- MCCollation
SPECIFICATION Spec
CHECK_DEADLOCK FALSE
INVARIANT TermsFound
