SPECIFICATION FairSpec
CONSTANTS
  Orders = {o1}
  Threads = {t1}
  Qty = 2
  ListingLags = TRUE
  ClockAhead = FALSE
PROPERTY SyncMatchesReality
CHECK_DEADLOCK FALSE
