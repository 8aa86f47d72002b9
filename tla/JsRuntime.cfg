SPECIFICATION FairSpec
CONSTANTS
  Callers = {c1, c2}
  Shutdowns = {s1}
  Closes = {k1}
  Nobody = Nobody
  MaxRuns = 1
  Endless = FALSE
INVARIANTS
  Exclusive
  NoUseAfterClose
  OnlyAskedInterrupts
  InterruptSeenAsCancellation
PROPERTIES
  EveryCallReturns
  CloseCompletes
  ShutdownCompletes
CHECK_DEADLOCK FALSE
