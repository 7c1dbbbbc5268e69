CONSTANTS
  Entry = {e1, e2, e3, e4, e5, e6}
  Data = {1, 2, 3}
  head_sentinel = head_sentinel
  tail_sentinel = tail_sentinel
  Null = Null
  MaxSpare = 2
  MaxLen = 6
  UintMod = 256
  MinQuicksort = 2
SPECIFICATION Spec
SYMMETRY EntrySymmetry
ACTION_CONSTRAINT ShortOfThree
INVARIANTS
  RepOk
  PositionsFound
  EntriesAccounted
  IteratorInPlace
  PartsInOrder
PROPERTIES
  Refines
  OperationsInPlace
  SortShrinks
CHECK_DEADLOCK FALSE
