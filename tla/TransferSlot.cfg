SPECIFICATION Spec
CONSTANTS
  Peers = {a, b}
  Senders = {a, b}
  MaxFiles = 2
  LastBlock = 1
  None = None
INVARIANTS
  ProperTransferAlone
  ProperBlocksAtHome
  OnlyStrayAcceptsKill
  OneServerAnswers
PROPERTIES
  OneWaySendFileReturns
  ProperTransferArrives
CHECK_DEADLOCK FALSE
