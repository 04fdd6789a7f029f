SPECIFICATION FairSpec
CONSTANT Roles = {"api", "outbox-worker", "shipment-consumer"}
CHECK_DEADLOCK FALSE
INVARIANTS
  TypeOK
  OutboxLeavesNothing
  OutageEndsNobody
PROPERTY ShutdownEnds
