SPECIFICATION Safety
CONSTANTS
  Workers = {w1, w2, w3}
  FileSize = 5
  BlockSize = 2
  MaxRekeys = 0
  OpenMayFail = FALSE
  None = None
SYMMETRY WorkerSymmetry
INVARIANT ReceivedIsIntact
CHECK_DEADLOCK FALSE
