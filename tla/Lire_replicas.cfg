SPECIFICATION Spec
CONSTANTS
  v1 = v1
  v2 = v2
  v3 = v3
  v4 = v4
  v5 = v5
  c1 = c1
  w1 = w1
  w2 = w2
  None = None
  Vids <- MCTwoVids
  Clients <- MCClients
  Workers <- MCWorkers
  InitPosting <- MCTwice
  Deletable <- MCNoVid
  Twins <- MCNoVid
  PostingSizeLimit = 1
  ReassignSlack = 3
  MergeThreshold <- MCNoMerge
  ReplicaCount = 2
  ReassignK = 0
  DisableReassign = FALSE
  LockSlots = 2
  HeadCapacity = 4
  MaxReassigns = 2
  MaxMerges = 0
SYMMETRY MCSymmetry
INVARIANTS
  NoLostVector
  OneOwner
CHECK_DEADLOCK FALSE
