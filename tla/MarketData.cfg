SPECIFICATION Spec
CONSTANTS
  aapl = aapl
  msft = msft
  ibm = ibm
  p1 = p1
  p2 = p2
  p3 = p3
  NoPortfolio = NoPortfolio
  Instruments <- MCInstruments
  Contracts <- MCUniverse
  Universe <- MCUniverse
  Kinds <- MCKinds
  Counts <- MCCounts
  Lookback = 3
  Quotes <- MCQuotes
  Portfolios <- MCPortfolios
  NoValue = NoValue
  Models <- MCModels
  GapFreq = 1
  MaxTime = 5
  MaxCrashes = 1
INVARIANTS
  CandlesAreTrue
  BanksAreTrue
  DerivedFollows
  
  RaisesOnlyRecovered
CHECK_DEADLOCK FALSE
