SPECIFICATION Spec
CONSTANTS
  Workers = {w1, w2}
  FileSize = 5
  BlockSize = 2
  MaxRekeys = 1
  OpenMayFail = TRUE
  None = None
INVARIANTS
  BlockOwnership
  NoLossWhileOpen
  LossConfined
  ReceiverReportsComplete
PROPERTIES
  NoLateBlock
  WorkersEnd
  FirstTransferReported
  CopySpec
CHECK_DEADLOCK FALSE
