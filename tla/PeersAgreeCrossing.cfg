SPECIFICATION Safety
CONSTANTS
  Peers = {a, b}
  Initiators = {a, b}
  Targets = {a, b}
  MaxAttempts = 1
  MaxKeyPairs = 0
  None = None
INVARIANT PeersAgree
CHECK_DEADLOCK FALSE
