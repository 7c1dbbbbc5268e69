CONSTANTS
  Message <- TwiceMeasured
  Version = {"RTSP/1.0"}
  StatusCode = {"200", "401"}
  Number <- Numbers
  Hex <- Sizes
  SizeMod = 64
  KB = 3
  MB = 13
SPECIFICATION Spec
INVARIANT
  LengthIgnored
CHECK_DEADLOCK FALSE
