SPECIFICATION FairSpec
CONSTANTS
  None = None
  Blank = Blank
  Keys <- MCKeys
  Writers = {w1, w2}
  Readers = {r1}
  BlockCount = 8
  ArrayCount = 5
  Items <- MCItems
  PageSize = 2
  BlockLimit = 3
  BufferSize = 1
  PutValues <- MCPutValues
  MergeValues <- MCMergeValues
  MaxCalls <- MCTwoCalls
  MaxRestarts = 1
  WriteAfterRestart = FALSE
INVARIANTS
  TypeOK
  BlocksConserved
  ArraysOnce
  
PROPERTIES
  
  CallsReturn
CHECK_DEADLOCK FALSE
