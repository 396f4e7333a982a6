SPECIFICATION Spec
CONSTANTS
  MaxMessages = 2
  MaxHandshakes = 2
  None = None
INVARIANTS
  TypeOK
  OneChatThread
PROPERTIES
  OrderSpec
  ReceivedIsShown
  NoSilentLoss
  QuietMessageShown
  JoinReturns
CHECK_DEADLOCK FALSE
