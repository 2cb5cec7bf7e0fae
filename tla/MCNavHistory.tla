---------------------------- MODULE MCNavHistory ----------------------------
EXTENDS NavHistory, TLC
CONSTANTS t1, t2, fdryVault, usdcVault
Sym == Permutations(Tab)
=============================================================================
