CONSTANTS
  h1 = h1
  h2 = h2
  h3 = h3
  Hashes = {h1, h2, h3}
  SizeOf <- MCSizeOf
  Calls = {1, 2, 3, 4}
  MaxBytes = 2
  EvictEvery = 1
  None = None
  MaxKeys = 2
  Null = null
  Values = {v1, v2}
  Nil = nil
  Tag = 1
  MaxSize = 6
  MaxPatches = 2
  Files = {f}
  Metas = {m}
  NoMeta = noMeta
  Missing = missing
  MaxDepth = 3
  MaxEntries = 4
  Absent = absent
  Publishes = {1, 2}
  Roots = {r1}
  Ended = ended
  Deleted = deleted
  Subscribers = {s1}
  Listers = {l1}
  ListObjs = {1}
  MaxTime = 1
  ForeignTimes = {1}
  Window = 2
  MaxForeign = 1
SPECIFICATION MCSpec
CHECK_DEADLOCK FALSE
CONSTRAINTS Followed InOrder
INVARIANTS StoreSound IndexSound FilesSound EditsExact NewestShown
PROPERTIES EvictionFreesEnough LeastRecentlyUsedFirst NeverBack
