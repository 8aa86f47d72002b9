SPECIFICATION Spec
CONSTANTS
  f1 = f1
  f2 = f2
  f3 = f3
  a = a
  b = b
  s = s
  k1 = k1
  k2 = k2
  Funs = {f1, f2, f3}
  Names = {a, b}
  MaxDepth = 4
  Reckless = FALSE
  Text = {a, b, s}
  Stdlib = {s}
  Block = {k1, k2}
  File <- Files
SYMMETRY Alike
INVARIANTS
  TypeOK
  NumbersStay
  NoneLeftBehind
  FoundAgain
  BlocksAreKept
CHECK_DEADLOCK FALSE
