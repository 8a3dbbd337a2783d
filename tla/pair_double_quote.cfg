SPECIFICATION Spec
CONSTANTS
  MaxOrders = 3
  MaxEvents = 1
  Cap = 1
  OrphanMax = 1
  Faults = {}
INVARIANT OneQuotePerSide
CHECK_DEADLOCK FALSE
