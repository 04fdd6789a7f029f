SPECIFICATION FairSpec
CONSTANTS
  Consumers = {c1, c2}
  Partitions = {1, 2}
  Payloads <- AllKinds
  KnownOrders <- MCKnownOrders
  Empty = Empty
  Malformed = Malformed
  None = None
  MaxRecords = 2
  MaxMessages = 2
  MaxDisruptions = 1
  o1 = o1
  o2 = o2
  foreign = foreign
  id1 = id1
  d1 = d1
CHECK_DEADLOCK FALSE
INVARIANTS DuplicateWasApplied LossExplained
PROPERTY EveryMessageTakenUp
