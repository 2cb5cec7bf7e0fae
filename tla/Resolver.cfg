SPECIFICATION FairSpec
CONSTANTS
  t1 = t1
  t2 = t2
  m1 = m1
  hourly = hourly
  manual = manual
  Key <- TwoTrades
  Market <- OneMarket
  MarketOf <- SameMarket
  SideOf <- BothSides
  Runner <- Both
  Scheduled <- Agent
  MaxCopies = 1
  MaxFaults = 2
INVARIANTS
  VerdictsTrue
  FinalRowsBounded
PROPERTIES
  ResultsReachTrades
