SPECIFICATION FairSpec
CONSTANTS
  Orders = {o1}
  Threads = {t1, t2}
  Qty = 2
  ListingLags = TRUE
  ClockAhead = FALSE
INVARIANTS ActiveExact
PROPERTIES TerminalSticky SyncSound OrphanSound EventuallySettled StrayTakenOff FillsReachOrder
CHECK_DEADLOCK FALSE
