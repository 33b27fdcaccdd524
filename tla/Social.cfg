SPECIFICATION FairSpec
CONSTANTS
  User = {a, b}
  Worker = {w1, w2, w3}
  None = None
  Troubles = {{}, {"overlap", "dies"}}
INVARIANTS
  TypeOK
  BlockCutsFollows
PROPERTIES
  CutOffIsStable
  BlockTakesEffect
  KeepsContacts
CHECK_DEADLOCK TRUE
