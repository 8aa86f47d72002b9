SPECIFICATION FairSpec
CONSTANTS
  Interrupters = {i1, i2, i3}
  Closers = {c1, c2}
  MaxCalls = 2
INVARIANTS
  NoUseAfterFree
  FreedOnce
PROPERTIES
  CloseCompletes
CHECK_DEADLOCK FALSE
