SPECIFICATION Spec
CONSTANTS
  User = {a, b}
  Worker = {w1, w2}
  None = None
  Troubles = {{"overlap"}}
INVARIANT NoFollowAcrossBlock
