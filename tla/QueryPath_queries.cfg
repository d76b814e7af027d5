SPECIFICATION Spec
CONSTANTS
  QueryCount = 2
  Fanout <- MCFanout
  Width = 16
INVARIANTS
  TypeOK
  AnswerIsComplete
  AnsweredTwiceOnlyAfterFailure
  CalledTwiceOnlyAfterFailure
  ReturnsAfterCallbacks
PROPERTIES
  RequestAnswered
  QueryCalledBack
  WaitEnds
CHECK_DEADLOCK FALSE
