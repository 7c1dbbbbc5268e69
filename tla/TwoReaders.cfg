CONSTANTS
  Conn = {c1, c2}
  Dev = {d1}
  Wants <- WantsAny
  Decoded <- PlainIds
  None = None
  Events <- GoodCamera
SPECIFICATION Spec
INVARIANTS
  OneReaderPerDevice
CHECK_DEADLOCK FALSE
