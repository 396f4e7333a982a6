SPECIFICATION Spec
CONSTANTS
  MaxChats = 2
  MaxFiles = 2
  NumBlocks = 2
  MaxNotices = 2
  MaxLines = 2
INVARIANTS
  TypeOK
  StraysExplained
  WindowShowsSlot
  NoSecondAccept
  ProgressHonest
PROPERTIES
  LinesPainted
  LastNoticeShown
CHECK_DEADLOCK FALSE
