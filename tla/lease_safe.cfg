SPECIFICATION FairSpec
CONSTANTS
  N = 2
  Threads <- MCThreads
  Jobs <- MCJobs
  Degraded = {2}
  MaxLegs = 2
  MaxTeardowns = 1
INVARIANTS TypeOK PlaceExclusive NoLeakedLease PendingAccounted
PROPERTY TeardownEnds
CHECK_DEADLOCK FALSE
