SPECIFICATION Spec
CONSTANTS
  User = {u1, u2}
  Socket = {s1, s2, s3}
  Worker = {w1, w2}
  MaxAddresses = 3
  Troubles <- AllTroubles
  MaxQuantity = 2
  MaxAsked = 3
  MaxItems = 2
  MaxRows = 4
  Product = {p1, p2}
  MaxWords = 2
  MaxNotes = 3
  Situations <- Mixes
  Image = {i1, i2}
  Url <- ImageNames
  ImageLimit = 1
  MaxPrice = 1
  None = None
SYMMETRY Symmetry
INVARIANTS
  TypeOK
  EventsArrive
  DefaultKept
  CartAddsUp
  RowsAsAsked
  OffersInOrder
  ReviewsInOrder
CHECK_DEADLOCK FALSE
