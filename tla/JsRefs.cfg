SPECIFICATION Spec
CONSTANTS
  h1 = h1
  h2 = h2
  h3 = h3
  o1 = o1
  RefId = {h1, h2, h3}
  Object = {o1}
  MaxRefs = 5
  MaxDepth = 4
  MaxArgs = 2
  CloseArgs = FALSE
SYMMETRY Handles
INVARIANTS
  OpenRefsResolve
  CountsAreOwed
  ArgsEndWithTheCall
CHECK_DEADLOCK FALSE
