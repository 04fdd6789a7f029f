SPECIFICATION Spec
CONSTANT Roles = {"api", "outbox-worker", "shipment-consumer"}
CHECK_DEADLOCK FALSE
INVARIANT ConnectedMeansStarted
