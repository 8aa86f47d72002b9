SPECIFICATION SpecUnwrapped
CONSTANTS
  o1 = o1
  o2 = o2
  Undefined = Undefined
  Object <- MCObject
  MaxSlots = 3
  FirstCap = 1
  GenMod = 3
  MaxCount = 2
SYMMETRY MCSymmetry
INVARIANTS
  HandleNamesItsObject
  RootsAreLiveSlots
  CleanTeardown
  FreeListExact
  ReservationHolds
PROPERTIES
  NoResurrection
  ImplementsStore
CHECK_DEADLOCK FALSE
