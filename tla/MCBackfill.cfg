SPECIFICATION FairSpec
CONSTANTS
  p1 = p1  p2 = p2  p3 = p3
  Pools = {p1, p2, p3}
  Undated = {p3}
  Unsplit = {}
  Unreadable <- UnreadableTxs
  Flaky = {p1}
  StoreFails = TRUE
  Window = 2
  MaxPools = 4
  EnumPages = 2
  PageLimit = 2
  DayLength = 2
  DayCap = 2
  MinTxs = 1
  TxPages = 2
  TxPageLimit = 1
  WithBars = TRUE
  BarLength = 1
  BatchSize = 4
  MaxTime = 2
  MaxTrades <- TradesOf
  MaxRuns = 1
INVARIANTS
  TypeOK
  Linked
  DurablePerPool
  CoverageHonest
  BarsAreFinal
PROPERTIES
  RunEnds
CHECK_DEADLOCK FALSE
