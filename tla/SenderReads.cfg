SPECIFICATION Spec
CONSTANTS
  a = a  b = b  c = c
  User = {a, b}
  Pair <- TwoUsers
  Blocks = {}
  Worker = {w1}
  Environments <- Anything
  MaxMessages = 1
  MaxTime = 2
  None = None
INVARIANT ReadByReceiver
CHECK_DEADLOCK FALSE
