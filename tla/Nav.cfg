SPECIFICATION Spec
CONSTANTS
  t1 = t1
  t2 = t2
  fdryVault = fdryVault
  usdcVault = usdcVault
  None = None
  Tab = {t1, t2}
  Vault = {fdryVault, usdcVault}
  Canonical = fdryVault
  MaxTx = 3
  MaxSigs = 2
SYMMETRY Sym
INVARIANTS TypeOK WholeIsTrue ChartComplete
