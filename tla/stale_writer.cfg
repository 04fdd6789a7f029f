SPECIFICATION Spec
CONSTANTS
  Requests = {r1}
  Callbacks = {c1}
  Handlers = {}
  EventIds = {}
  ForeignOrders = {}
  Keys = {k1}
  k1 = k1
  KeyOf <- MCKeyOf
  None = None
CHECK_DEADLOCK FALSE
PROPERTY TerminalIsFinal
