SPECIFICATION MCSpec
SYMMETRY TwoPages
CONSTANTS
  a = a
  b = b
  Tabs = {a, b}
  Contents = {"one", "other"}
  Pairings = {"p1", "p2"}
  MaxKeys = 2
  MaxDevices = 1
  Users = {a, b}
  Subjects = {"alice", "bob"}
  MaxBindings = 2
  MaxPairs = 2
  Phones = {a, b}
  MaxKeysPerPhone = 1
  MaxCalls = 1
INVARIANTS
  SignsOnceEach
  EvidenceKept
  ToldIsTrue
  AcceptedIsCompared
  AcceptedIsKept
CHECK_DEADLOCK FALSE
