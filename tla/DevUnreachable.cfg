CONSTANTS
  Conn = {c1, c2}
  Dev = {d1}
  Wants <- WantsAny
  Decoded <- PlainIds
  None = None
  Events <- DevFailure
SPECIFICATION TimedSpec
PROPERTIES
  FailureCutsConnection
CHECK_DEADLOCK FALSE
