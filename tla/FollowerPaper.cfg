SPECIFICATION Spec
CONSTANTS
  r1 = r1
  r2 = r2
  r3 = r3
  k1 = k1
  k2 = k2
  Row <- TwoRows
  Key <- Keys
  KeyOf <- DistinctKeys
  MaxIno = 2
  Truncates = TRUE
  MaxKeys = 1
  DryRun = TRUE
  Poison = {}
  AbortPoints = {"sleep"}
  KillUsed = TRUE
  MaxFaults = 2
INVARIANTS
  LedgerCoversSigned
  KillStopsPolling
