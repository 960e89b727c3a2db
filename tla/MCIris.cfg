CONSTANTS
  h1 = h1
  h2 = h2
  k1 = k1
  k2 = k2
  Hashes = {h1, h2}
  KeyOf <- MCKeyOf
  Events <- MCEvents
  Calls = {c1, c2, c3}
  Kinds = {"get", "set", "merge", "resolve", "remove"}
  None = None
  r1 = r1
  r2 = r2
  Requests = {r1, r2}
  AsksOf <- MCAsksOf
  Files <- MCFiles
  Absent = None
  LiveTimeout = 1
  RootTimeout = 1
  me = me
  boot = boot
  u1 = u1
  u2 = u2
  Users = {me, boot, u1, u2}
  Bootstrap = boot
  FollowsOf <- MCFollowsOf
  Saved <- MCSaved
  PageUsers = {me, u1}
  NoOne = None
  FewFollows = 2
  MaxSaves = 2
  MaxCalls = 1
SPECIFICATION MCSpec
CHECK_DEADLOCK FALSE
INVARIANTS RootsAgree RootsKept LiveSound 
PROPERTIES IrisSettles
