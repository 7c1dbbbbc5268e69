CONSTANTS
  Conn = {c1, c2}
  Dev = {d1}
  Wants <- WantsAny
  Decoded <- PlainIds
  None = None
  Events <- RtspEvents
SPECIFICATION Spec
INVARIANTS
  DisconnectMarks
CHECK_DEADLOCK FALSE
