SPECIFICATION FillSpec
CONSTANTS
  Trades = {t1, t2}
  Overlap = 2
  Lookback = 3
  Skew = 1
  PageLimit = 2
  QueueCap = 1
  MaxProcessed = 4
  MaxClears = 0
  PollerConfigs = {TRUE}
  MayFallBack = FALSE
  MaxEnds = 1
  MaxTime = 5

SYMMETRY Symmetry
INVARIANT NeverReplayed

