SPECIFICATION Spec
CONSTANT MaxFutures = 3
INVARIANTS
  CallbacksInOrder
  FailureStopsChain
  EndsOnlyByException
  ChainedDropReturns
PROPERTIES
  CallbacksRun
CHECK_DEADLOCK FALSE
