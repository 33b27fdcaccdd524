SPECIFICATION Spec
CONSTANTS
  Password = {p1, p2}
  Worker = {w1, w2}
  MaxCodes = 1
  MaxResets = 1
  None = None
INVARIANT CodeSpent
CHECK_DEADLOCK FALSE
