CONSTANTS
  Instruments = {"a", "b"}
  Posters = {"feed", "desk"}
  MaxPosts = 1
  MaxRuns = 2

  Workers = {"w1", "w2"}
  Publishers = {"p1", "p2"}
  Events = {1, 2}
  Urgent = {2}
  Handlers = {"h1", "h2"}
  Leaving = {"h2"}
  MaxQueue = 1

  FeedThreads = {"fix", "hl", "met"}
  Callbacks = {"c1", "c2"}
  Early = {"c1"}

  NeonSymbols = {"n1", "n2"}
  HlSymbols = {"h1"}
  MetSymbols = {"m1"}
  ErrorsToBlank = 2
  MaxSessions = 2

  PosLegs <- MCPosLegs
  Cap = 1
  MaxFills = 2
  MaxBodies = 2

  Theos = {13, 14}
  UnitsPerTick = 1
  WidthBps = 3000
  Resting = 0
  QuoteSnap = 3
  PricerSnap = 3
  AdjustPo = 1
  AdjustTicks = 1
  PositionCap = 2
  Positions = {1, 2}
  MinDrift = 1
  Markets <- MCMarkets

  StackIds = {"k1", "k2"}
  NameSets = {{}, {"k2"}, {"k1", "k2"}}
  MassMin = 2
  MaxWrites = 2
  MaxFreezes = 2

  DeskOrder <- MCDeskOrder
  ConvCap = 1
  QuotePrice <- MCQuotePrice
  Stray <- MCStray
  MaxIds = 3
  MaxFilled = 1

  QuotePairs <- MCQuotePairs
  MinMoveTicks = 1
  MaxRounds = 2

  MaxGen = 2

  GuardedStacks = {"g1", "g2"}
  AxOf <- MCAxOf
  SourceOf <- MCSourceOf
  LegSource <- MCLegSource
  Provider = "f2"
  MaxPlaced = 2

SPECIFICATION Spec
INVARIANTS SweptFlat Inherited NoLostWakeup Drained CallbackDrained UpIsFresh Blanked BookSound CapHeld QuoteFollows StacksFollowFile NoOwnCross DownIsDark
PROPERTIES JobsRunInOrder MarketChecked MassConfirmed SparesQuotes AdoptsCurrent
CHECK_DEADLOCK FALSE
