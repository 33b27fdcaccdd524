SPECIFICATION MCSpec
CONSTANTS
  Product = {p1}
  User = {u1, u2}
  Worker = {w1, w2}
  MaxVersion = 3
  MaxVariants = 2
  MaxLikes = 2
  MaxReports = 2
  MaxCalls = 2
  Troubles <- SomeTroubles
  MaxIds = 4
  MaxKey = 3
  MaxChanges = 2
  MaxIndex = 8
  Item = {g1, g2}
  SellerAddress = {sa1, sa2}
  BuyerAddress = {ba1, ba2}
  SellerPlaces = {15, 500}
  BuyerPlaces = {0, 1}
  Prices = {1, 2}
  MaxEdits = 2
  None = None
INVARIANTS
  ShapesOK
  IndexFollowsTable
  OnSaleHasVariants
  OncePerUser
  PagesInOrder
  ChargedAsQuoted
PROPERTIES
  RemovedLeavesIndex
CHECK_DEADLOCK FALSE
