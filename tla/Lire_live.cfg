SPECIFICATION FairSpec
CONSTANTS
  v1 = v1
  v2 = v2
  v3 = v3
  v4 = v4
  v5 = v5
  c1 = c1
  w1 = w1
  w2 = w2
  None = None
  Vids <- MCThreeVids
  Clients <- MCClients
  Workers <- MCWorkers
  InitPosting <- MCTwoPostings
  Deletable <- MCNoVid
  Twins <- MCNoVid
  PostingSizeLimit = 3
  ReassignSlack = 0
  MergeThreshold <- MCMergeOne
  ReplicaCount = 2
  ReassignK = 0
  DisableReassign = FALSE
  LockSlots = 2
  HeadCapacity = 8
  MaxReassigns = 0
  MaxMerges = 1
PROPERTIES
  Quiesces
  Findable
CHECK_DEADLOCK FALSE
