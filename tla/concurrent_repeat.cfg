SPECIFICATION Spec
CONSTANTS
  Requests = {r1, r2}
  Callbacks = {}
  Handlers = {}
  EventIds = {}
  ForeignOrders = {}
  Keys = {k1}
  k1 = k1
  KeyOf <- MCKeyOf
  None = None
CHECK_DEADLOCK FALSE
INVARIANT RepeatGetsOrder
