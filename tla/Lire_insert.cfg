SPECIFICATION Spec
CONSTANTS
  v1 = v1
  v2 = v2
  v3 = v3
  v4 = v4
  v5 = v5
  c1 = c1
  w1 = w1
  w2 = w2
  None = None
  Vids <- MCFiveVids
  Clients <- MCClients
  Workers <- MCWorkers
  InitPosting <- MCOnePosting
  Deletable <- MCOneVid
  Twins <- MCNoVid
  PostingSizeLimit = 1
  ReassignSlack = 0
  MergeThreshold <- MCNoMerge
  ReplicaCount = 1
  ReassignK = 0
  DisableReassign = FALSE
  LockSlots = 2
  HeadCapacity = 4
  MaxReassigns = 0
  MaxMerges = 0
SYMMETRY MCSymmetryVids
INVARIANTS
  TypeOK
  LockDiscipline
  NoLostVector
  SplitListBacked

  
CHECK_DEADLOCK FALSE
