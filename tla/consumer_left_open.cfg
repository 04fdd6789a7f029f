SPECIFICATION Spec
CONSTANT Roles = {"api"}
CHECK_DEADLOCK FALSE
INVARIANT ConsumerClosed
