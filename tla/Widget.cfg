SPECIFICATION Spec
CONSTANTS
  w1 = w1
  w2 = w2
  i1 = i1
  i2 = i2
  None = None
  Wallet = {w1}
  Slot = {i1, i2}
  Amount = {1}
  Rates = {1, 2}
  Par = 1
  MaxShares = 2
  AdminSets = {1}
  Wanders = TRUE
SYMMETRY Sym
INVARIANTS TypeOK LedgerMatches
CHECK_DEADLOCK FALSE
