CONSTANTS
  Nil = nil
  Chunkers <- MCChunkers
  Tag = 1
  MaxSize = 6
  MaxPatches = 2
SPECIFICATION Spec
CHECK_DEADLOCK FALSE
INVARIANTS PatchReplaces
