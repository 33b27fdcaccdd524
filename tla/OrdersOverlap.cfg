SPECIFICATION Spec
CONSTANTS
  User = {u1, u2}
  OrderId = {o1}
  Worker = {w1, w2}
  Amount = {1}
  InitialBalance = 1
  MaxTimeline = 5
  SelfOrders = TRUE
  None = None
SYMMETRY Symmetry
INVARIANTS
  AcceptedBeforeShipped
  PaidBeforeDeducted
  LedgerMatchesTimeline
  NeverOverdrawn
CHECK_DEADLOCK FALSE
