SPECIFICATION Spec
CONSTANTS
  User = {u1, u2}
  OrderId = {o1}
  Worker = {w1, w2}
  Amount = {1}
  InitialBalance = 2
  MaxTimeline = 5
  SelfOrders = FALSE
  None = None
INVARIANT RefundedOnce
CHECK_DEADLOCK FALSE
