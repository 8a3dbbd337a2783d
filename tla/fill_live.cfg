SPECIFICATION FillFairSpec
CONSTANTS
  Trades = {t1}
  Overlap = 2
  Lookback = 3
  Skew = 1
  PageLimit = 2
  QueueCap = 1
  MaxProcessed = 1
  MaxClears = 1
  PollerConfigs = {TRUE, FALSE}
  MayFallBack = TRUE
  MaxEnds = 1
  MaxTime = 5

PROPERTY EventuallyApplied

