SPECIFICATION Spec
CONSTANTS
  Coins <- MCCoins
  Pools <- MCPools
  Mapped = {"c1", "c2", "c3", "c4", "c5"}
  InFdvBand = {"c1", "c2", "c3", "c4", "c5", "c6"}
  Pages <- MCPages
  TokenPools <- MCTokenPools
  TokenPage = 2
  TopPools <- MCTopPools
  Flaky = {"c4", "pC"}
  Malformed = {"c3"}
  NoReserve <- MCNoReserve
  MinReserve = 100
  Markets <- MCMarkets
  OhlcvLimit = 10
  StartDay = 10
  MaxDay = 11
  MaxCommands = 3
  CutAt = {1, 6}
  Scale = 1000
  FeePercent = 1
  FixedCost = 0
  Pegged = {"pE"}
  Warmup = 2
  Horizon = 2
  Lookback = 2
  Horizons = {1, 2, 3}
  Lookbacks = {1, 2, 3}
  CapacityPart = 20
  MaxNotional = 35
  MinFires = 3
  MinSample = 3
  AlphaPart = 20
INVARIANTS
  TypeOK
  OneBadTokenCostsItself
  GatePointInTime
  UnprovenEarned
CHECK_DEADLOCK FALSE
