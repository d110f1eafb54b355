SPECIFICATION Spec
CONSTANTS
  ammPool = ammPool  barePool = barePool  curvePool = curvePool  otherPool = otherPool
  mintA = mintA  mintB = mintB  ada = ada  bob = bob
  NoPool = NoPool
  Scale = 50  FeePercent = 1  FixedCost = 1
  Launches <- History
  Trades <- Feed
  Unmapped <- Garbled
  Latency = 1
  Pages = 1  PageLimit = 2
  TxLimit = 7
  WatchCount = 2
  Skew = 1  LatencyLimit = 2
  MaxTime = 8  MaxSessions = 2
  RunupTimes = 2  RunupWindow = 2
  MinAttempts = 1  PriorStrength = 2
  MinLag = 2
  HoldWindow = 2  AppreciateTimes = 2  FloorPart = 4
  MinPostGradSwaps = 1
  Lookback = 2  MinPerHalf = 1
  RugLookback = 6  RugMinTrades = 2  MaxShare = 80  MaxDrawdown = 70
  AttrWindow = 2
  Warmup = 1  Horizon = 2  PositionUsd = 2  MinSwaps = 2
INVARIANTS
  TypeOK
  StreamLossless
  OnePositionPerPool
  DecisionsPointInTime
  FiresNotOverstated
PROPERTIES
  HistoryStable
CHECK_DEADLOCK FALSE
