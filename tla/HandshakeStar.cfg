SPECIFICATION Safety
CONSTANTS
  Peers = {a, c, b, d}
  Initiators = {a, c}
  Targets = {b, d}
  MaxAttempts = 2
  MaxKeyPairs = 1
  None = None
INVARIANTS
  PeersAgree
  WindowNamesClient
CHECK_DEADLOCK FALSE
