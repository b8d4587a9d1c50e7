SPECIFICATION FairSpec
CONSTANTS
  p = p
  q = q
  a = a
  b = b
  Sessions <- MCSessions
  Keys <- MCKeys
  Thresholds <- MCKeys
  Snapshots <- MCSnapshots
  Tickers = {a}
  Contracts = {a}
  Phases <- MCPhases
  MaxOrders = 3
INVARIANTS
  TwoSellsPerArming
  StoreFollowsPortfolio
  PendingHasSale
PROPERTIES
  BreachedIsSold
\* The prices may stand still and the clock has turned for the last time.
CHECK_DEADLOCK FALSE
