SPECIFICATION Spec
CONSTANTS
  Order <- Universe
  Cash = "CASH"
  Nav = 27
  Total = 10
  MaxWeight = 5
  MaxDelta = 4
  Band = 1
  Chunk = 1
  Cooldown = 2
  Freshness = 3
  Signal <- MCSignal
  Weights <- MCWeights
  Confident <- MCConfident
  Vaults <- MCVaults
  MaxTime = 4
  MaxFaults = 0
CHECK_DEADLOCK FALSE
PROPERTIES
  CashSignalServed
