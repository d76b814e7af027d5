SPECIFICATION Spec
CONSTANTS
  v1 = v1
  v2 = v2
  t1 = t1
  t2 = t2
  t3 = t3
  NoKey = NoKey
  Keys <- MCKeys
  Threads <- MCThreads
  VersionModulus = 2
  MaxCalls = 3
INVARIANTS
  DeletedCountExact
CHECK_DEADLOCK FALSE
