SPECIFICATION Spec
CONSTANTS
  w1 = w1
  w2 = w2
  j1 = j1
  j2 = j2
  j3 = j3
  Driver = Driver
  None = None
  Workers <- MCWorkers
  Jobs <- MCJobs
  First <- MCFirst
  Child <- MCChild
  MaxSpurious = 2
  Throwing <- MCNoThrow
INVARIANTS
  ClearMeansDone
CHECK_DEADLOCK FALSE
