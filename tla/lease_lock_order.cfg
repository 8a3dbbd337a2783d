SPECIFICATION FairSpec
CONSTANTS
  N = 2
  Threads <- MCThreads
  Jobs <- MCJobs
  Degraded = {2}
  MaxLegs = 1
  MaxTeardowns = 0
INVARIANT NoWaitCycle
CHECK_DEADLOCK FALSE
