SPECIFICATION FairSpec
CONSTANTS
  Callers = {c1}
  Shutdowns = {}
  Closes = {}
  Nobody = Nobody
  MaxRuns = 1
  Endless = TRUE
PROPERTIES
  CancelledCallReturns
CHECK_DEADLOCK FALSE
