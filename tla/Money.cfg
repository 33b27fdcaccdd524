SPECIFICATION MoneySpec
CONSTANTS
  User = {u1, u2}
  OrderId = {o1, o2}
  Worker = {w1}
  Amount = {1, 2}
  InitialBalance = 3
  MaxTimeline = 5
  SelfOrders = FALSE
  Proof = {p1}
  Coins = 1
  Environments <- TwoEnvironments
  None = None
SYMMETRY Symmetry
INVARIANTS
  TypeOK
  StatusAsBooked
  BooksBalance
  PaidAsRecorded
PROPERTIES
  StatusMovesForward
  KeepsEscrow
CHECK_DEADLOCK FALSE
