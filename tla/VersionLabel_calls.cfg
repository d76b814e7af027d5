SPECIFICATION FairSpec
CONSTANTS
  v1 = v1
  v2 = v2
  t1 = t1
  t2 = t2
  t3 = t3
  NoKey = NoKey
  Keys <- MCKeys
  Threads <- MCThreads
  VersionModulus = 2
  MaxCalls = 4
INVARIANTS
  TypeOK
  NoLostIncrement
  DeleteCountBound
PROPERTIES
  CallsReturn
CHECK_DEADLOCK FALSE
