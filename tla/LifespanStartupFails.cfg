SPECIFICATION Spec
CONSTANT MaxHandlers = 2
INVARIANT ServesOnlyStarted
CHECK_DEADLOCK FALSE
