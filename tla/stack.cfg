CONSTANTS
  MaxOrders = 2
  MaxEvents = 1
  Cap = 1
  OrphanMax = 1
  Faults = {"reject", "error", "drop"}

  Callers = {"mover", "loop"}
  CallsOf <- MCCallsOf
  BatchSize = 2
  PoolSize = 3
  WarmConnections = 2

  Mids = {1, 3}
  MoveTicks = 1
  WindowSecs = 2
  PullSecs = 1
  GapSecs = 1
  SelfStale = 2
  MaxSecs = 4
  MaxTicks = 1
  MaxTodo = 2

  Trades = {t1, t2}
  Overlap = 2
  Lookback = 3
  Skew = 1
  PageLimit = 1
  QueueCap = 1
  MaxProcessed = 1
  MaxClears = 1
  PollerConfigs = {TRUE, FALSE}
  MayFallBack = TRUE
  MaxEnds = 1
  MaxTime = 5

SPECIFICATION StackSpec
SYMMETRY TradeSymmetry
INVARIANTS PendingAcceptsExact PulledIsCancelled PoolServes NothingLeftOver PausedIsDark
  NoFillSkipped AppliedOnce
PROPERTIES NoStraddle CursorMonotone
CHECK_DEADLOCK FALSE
