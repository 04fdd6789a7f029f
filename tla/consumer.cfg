SPECIFICATION Spec
CONSTANTS
  Consumers = {c1, c2}
  Partitions = {1, 2}
  Payloads <- OneEvent
  KnownOrders <- MCKnownOrders
  Empty = Empty
  Malformed = Malformed
  None = None
  MaxRecords = 2
  MaxMessages = 3
  MaxDisruptions = 2
  o1 = o1
  o2 = o2
  foreign = foreign
  id1 = id1
  d1 = d1
SYMMETRY Symmetry
CHECK_DEADLOCK FALSE
INVARIANTS
  TypeOK
  Accounted
PROPERTY OffsetsNeverGoBack
