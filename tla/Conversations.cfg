SPECIFICATION Spec
CONSTANTS
  a = a  b = b  c = c
  User = {a, b, c}
  Pair <- ThreeUsers
  Blocks = {}
  Worker = {w1, w2}
  Environments <- OneTrouble
  MaxMessages = 2
  MaxTime = 3
  None = None
SYMMETRY Symmetry
INVARIANTS
  TypeOK
  MessagesInTheirConversation
  EveryConversationListed
  OneConversationPerPair
  LastMessageIsNewest
  UnreadUntilMarked
CHECK_DEADLOCK FALSE
