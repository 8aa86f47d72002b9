SPECIFICATION Spec
CONSTANTS
  h1 = h1
  h2 = h2
  h3 = h3
  o1 = o1
  RefId = {h1, h2, h3}
  Object = {o1}
  MaxRefs = 3
  MaxDepth = 2
  MaxArgs = 1
  CloseArgs = TRUE
INVARIANTS
  OpenRefsResolve
CHECK_DEADLOCK FALSE
