CONSTANTS
  Client = {c1, c2}
  MaxFrames = 3
  MaxSize = 2
  Limit = 4
  Modulus = 8
SPECIFICATION Spec
SYMMETRY Symmetry
INVARIANTS
  TypeOK
  BufferBounded
  WholeFrames
  NoGapBeforeDelta
  EarlyStartsWithKey
CHECK_DEADLOCK FALSE
