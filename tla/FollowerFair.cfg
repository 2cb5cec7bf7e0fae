SPECIFICATION FairSpec
CONSTANTS
  r1 = r1
  r2 = r2
  r3 = r3
  k1 = k1
  k2 = k2
  Row <- ThreeRows
  Key <- Keys
  KeyOf <- SharedKey
  MaxIno = 2
  Truncates = FALSE
  MaxKeys = 2
  DryRun = FALSE
  Poison = {r2}
  AbortPoints = {}
  KillUsed = TRUE
  MaxFaults = 1
PROPERTIES
  RowsDecided
