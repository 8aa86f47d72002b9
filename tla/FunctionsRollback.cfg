SPECIFICATION Spec
CONSTANTS
  Funs = {f1, f2, f3}
  Names = {a, b}
  MaxDepth = 3
  Reckless = TRUE
INVARIANTS
  ExposedIsCalled
CHECK_DEADLOCK FALSE
