SPECIFICATION Spec
CONSTANTS
  User = {u1, u2}
  OrderId = {o1}
  Worker = {w1}
  Amount = {1}
  InitialBalance = 2
  MaxTimeline = 5
  SelfOrders = TRUE
  None = None
PROPERTY CancelRaisesBalance
CHECK_DEADLOCK FALSE
