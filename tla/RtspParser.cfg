CONSTANTS
  Message <- Messages
  Version = {"RTSP/1.0"}
  StatusCode = {"200", "401"}
  Number <- Numbers
  Hex <- Sizes
  SizeMod = 64
  KB = 3
  MB = 13
SPECIFICATION Spec
INVARIANTS
  TypeOK
  DoneExactlyAtEnd
  BadIsRefused
  MessageRead
  GoodIsParsed
PROPERTIES
  Returns
CHECK_DEADLOCK FALSE
