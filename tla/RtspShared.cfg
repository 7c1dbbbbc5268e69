CONSTANTS
  Conn = {c1, c2, c3}
  Dev = {d1, d2}
  Wants <- WantsAny
  Decoded <- EscapedIds
  None = None
  Events <- RtspEvents
SPECIFICATION Spec
SYMMETRY ConnSymmetry
INVARIANTS
  LockReleased
  SdpPhaseSafe
PROPERTIES
  OthersKeepDevice
  ServesViewers
CHECK_DEADLOCK FALSE
