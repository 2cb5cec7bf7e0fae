SPECIFICATION Spec
CONSTANTS
  r1 = r1
  r2 = r2
  r3 = r3
  k1 = k1
  k2 = k2
  Row <- ThreeRows
  Key <- Keys
  KeyOf <- SharedKey
  MaxIno = 2
  Truncates = FALSE
  MaxKeys = 1
  DryRun = FALSE
  Poison = {}
  AbortPoints = {"sleep"}
  KillUsed = FALSE
  MaxFaults = 2
INVARIANTS
  TypeOK
  CursorCoversDecided
  NoIntentLost
  DedupWindow
PROPERTIES
  KeepsJournal
