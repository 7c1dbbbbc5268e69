CONSTANTS
  Conn = {c1, c2}
  Dev = {d1, d2}
  Wants <- WantsAny
  Decoded <- PlainIds
  None = None
  Events <- GoodCamera
SPECIFICATION FairSpec
INVARIANTS
  OnlyCountIsStale
PROPERTIES
  WaitersAnswered
  LoopGoesOn
  UnwatchedReleased
  FlaggedDropped
CHECK_DEADLOCK FALSE
