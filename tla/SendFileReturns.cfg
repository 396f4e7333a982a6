SPECIFICATION Spec
CONSTANTS
  Peers = {a, b}
  Senders = {a, b}
  MaxFiles = 1
  LastBlock = 0
  None = None
PROPERTY SendFileReturns
CHECK_DEADLOCK FALSE
