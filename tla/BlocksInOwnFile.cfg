SPECIFICATION Safety
CONSTANTS
  Peers = {a, b}
  Senders = {a}
  MaxFiles = 2
  LastBlock = 0
  None = None
INVARIANT BlocksInOwnFile
CHECK_DEADLOCK FALSE
