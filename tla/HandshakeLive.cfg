SPECIFICATION Spec
CONSTANTS
  Peers = {a, b}
  Initiators = {a, b}
  Targets = {a, b}
  MaxAttempts = 2
  MaxKeyPairs = 1
  None = None
PROPERTIES
  HandshakesEnd
  KexOpensChat
CHECK_DEADLOCK FALSE
