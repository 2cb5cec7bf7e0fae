SPECIFICATION Spec
CONSTANTS
  p1 = p1
  p2 = p2
  s1 = s1
  s2 = s2
  s3 = s3
  s4 = s4
  None = None
  Run = {p1, p2}
  Sig = {s1, s2, s3, s4}
  Budget <- Budgets
  Lending = lending
  Spot = spot
  Wallet0 = 1
  SeedAmount = 1
  Delivery = {1, 2}
  MinOut = 1
SYMMETRY Sym
INVARIANTS TypeOK RecordCoherent DepositAccounted
PROPERTIES OrphanNeedsAck EntriesKept
CHECK_DEADLOCK FALSE
