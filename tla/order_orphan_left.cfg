SPECIFICATION FairSpec
CONSTANTS
  Orders = {o1}
  Threads = {t1}
  Qty = 2
  ListingLags = FALSE
  ClockAhead = FALSE
PROPERTY CancelledLeavesVenue
CHECK_DEADLOCK FALSE
