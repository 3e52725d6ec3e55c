SPECIFICATION Spec
CONSTANTS
  p1 = p1  p2 = p2
  Point = {p1, p2}
  Ops <- AllOps
  MaxId = 5
  Envs <- CancelChanged
INVARIANTS
  ServesLog
CHECK_DEADLOCK FALSE
