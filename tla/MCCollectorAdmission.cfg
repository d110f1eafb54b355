SPECIFICATION Spec
CONSTANTS
  b1 = b1  a1 = a1  b2 = b2  a2 = a2  m1 = m1  m2 = m2
  Pools = {b1, a1, b2, a2}
  Mints = {m1, m2}
  MintOf <- TwoTokenMintOf
  PhaseOf <- TwoTokenPhaseOf
  WatchMax = 2
  GradReserved = 1
  MaxPoolAge = 1
  DiscoveryAge = 0
  EnumPages = 2
  PageLimit = 1
  TxPages = 1
  TxPageLimit = 1
  Unmapped = {}
  Unreadable = {}
  Flaky = {}
  Broken = {b1, b2}
  ListingFails = TRUE
  MayDiscard = FALSE
  MaxTime = 2
  MaxTrades = 0
  MaxCrashes = 1
  TradeBound <- NoTrades
INVARIANTS
  TypeOK
  SlotBudget
  RetiredStaysOut
  PinsJustified
  DurablePins
PROPERTIES
  PinKept
  NeverLockedOut
  RecognisedUntilCrash
  ImplementsCohort
SYMMETRY SwapTokens
