SPECIFICATION Spec
CONSTANTS
  v1 = v1
  v2 = v2
  v3 = v3
  v4 = v4
  v5 = v5
  c1 = c1
  w1 = w1
  w2 = w2
  None = None
  Vids <- MCThreeVids
  Clients <- MCClients
  Workers <- MCWorkers
  InitPosting <- MCUneven
  Deletable <- MCOneVid
  Twins <- MCTwoVids
  PostingSizeLimit = 2
  ReassignSlack = 0
  MergeThreshold <- MCMergeOne
  ReplicaCount = 1
  ReassignK = 1
  DisableReassign = FALSE
  LockSlots = 2
  HeadCapacity = 4
  MaxReassigns = 1
  MaxMerges = 1
SYMMETRY MCSymmetry
INVARIANTS
  LockDiscipline
  NoLostVector
PROPERTIES
  NoAppendToDeletedHead
CHECK_DEADLOCK FALSE
