SPECIFICATION Spec
CONSTANTS
  ray1 = ray1  orca1 = orca1  ray2 = ray2  m1 = m1  m2 = m2
  x0 = x0  x1 = x1  x2 = x2  x3 = x3  x4 = x4
  Archive <- History
  Markets = {ray1, orca1, ray2}
  Mints = {m1, m2}
  MintOf <- MarketMint
  Txs = {x0, x1, x2, x3, x4}
  Windows <- ThreeWindows
  Lookback = 1
  Track = 4
  PageSize = 2
  MaxRows = 5
  WriteBatch = 3
  MaxPolls = 2
  MaxRuns = 2
INVARIANTS
  EveryTradeStored
\* the operator is not obliged to start another run
CHECK_DEADLOCK FALSE
