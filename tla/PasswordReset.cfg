SPECIFICATION Spec
CONSTANTS
  Password = {p1, p2}
  Worker = {w1, w2}
  MaxCodes = 3
  MaxResets = 2
  None = None
INVARIANTS
  TypeOK
  ResetNeedsCode
  OneTextPerCooldown
  PasswordIsChosen
PROPERTY KeepsOneTimeCode
CHECK_DEADLOCK FALSE
