SPECIFICATION Spec
CONSTANTS
  None = None
  Blank = Blank
  Keys <- MCKeys
  Writers = {w1}
  Readers = {r1}
  BlockCount = 6
  ArrayCount = 4
  Items <- MCItems
  PageSize = 2
  BlockLimit = 3
  BufferSize = 1
  PutValues <- MCPutValues
  MergeValues <- MCMergeValues
  MaxCalls <- MCTwoCalls
  MaxRestarts = 1
  WriteAfterRestart = TRUE
INVARIANTS
  QuietReadIsOwn
CHECK_DEADLOCK FALSE
