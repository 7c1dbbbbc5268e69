CONSTANTS
  Conn = {c1, c2, c3}
  Dev = {d1, d2}
  Wants <- WantsAny
  Decoded <- EscapedIds
  None = None
  Events <- RelayEvents
SPECIFICATION Spec
SYMMETRY ConnSymmetry
INVARIANTS
  TypeOK
  RegistryLive
  RegistryUnique
  WaitersIntact
  ViewersIntact
CHECK_DEADLOCK FALSE
