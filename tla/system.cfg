SPECIFICATION SystemSpec
CONSTANTS
  Requests = {r1}
  Callbacks = {c1, c2}
  Handlers = {h1}
  EventIds = {e1}
  ForeignOrders = {f1}
  Keys = {k1}
  k1 = k1
  KeyOf <- MCKeyOf
  None = None
CHECK_DEADLOCK FALSE
INVARIANTS
  TypeOK
  StatusAnnounced
  PaidIsPublished
  PaidIsBacked
  PaymentErrorCompensated
  AnsweredCallbackRecorded
  SeenOrderExists
  HandOverIsBacked
PROPERTIES
  PaidIsHandedOver
  ImplementsOutbox
  NeverBackToNew
