SPECIFICATION FairSpec
CONSTANTS
  Requests = {r1, r2}
  Callbacks = {c1}
  Handlers = {h1, h2}
  EventIds = {e1}
  ForeignOrders = {}
  Keys = {k1}
  k1 = k1
  KeyOf <- MCKeyOf
  None = None
CHECK_DEADLOCK FALSE
PROPERTY EveryCallEnds
INVARIANTS
  UniqueKey
  OnePaymentPerKey
  AppliedOnce
  StrandedByCrashOnly
