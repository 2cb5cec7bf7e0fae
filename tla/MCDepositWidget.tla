--------------------------- MODULE MCDepositWidget ---------------------------
EXTENDS DepositWidget, TLC
CONSTANTS w1, w2, i1, i2
Sym == Permutations(Wallet) \cup Permutations(Slot)
==============================================================================
