SPECIFICATION Spec
CONSTANTS
  MaxOrders = 2
  MaxEvents = 1
  Cap = 1
  OrphanMax = 1
  Faults = {"reject"}
INVARIANT PendingIsAwaited
CHECK_DEADLOCK FALSE
