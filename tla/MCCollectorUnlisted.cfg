SPECIFICATION Spec
CONSTANTS
  b1 = b1  a1 = a1  b2 = b2  a2 = a2  m1 = m1  m2 = m2
  Pools = {b1, a1, b2}
  Mints = {m1, m2}
  MintOf <- ThreePoolMintOf
  PhaseOf <- ThreePoolPhaseOf
  WatchMax = 2
  GradReserved = 1
  MaxPoolAge = 0
  DiscoveryAge = 0
  EnumPages = 2
  PageLimit = 1
  TxPages = 2
  TxPageLimit = 1
  Unmapped = {b2}
  Unreadable <- FirstSwaps
  Flaky = {a1}
  Broken = {a1}
  ListingFails = FALSE
  MayDiscard = FALSE
  MaxTime = 1
  MaxTrades = 3
  MaxCrashes = 1
  TradeBound <- NoTrades
PROPERTIES
  EveryListedRecorded
