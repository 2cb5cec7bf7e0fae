SPECIFICATION FairSpec
CONSTANTS
  w1 = w1
  w2 = w2
  i1 = i1
  i2 = i2
  None = None
  Wallet = {w1}
  Slot = {i1}
  Amount = {1}
  Rates = {1}
  Par = 1
  MaxShares = 1
  AdminSets = {}
  Wanders = FALSE
PROPERTIES ConfirmingEnds EscrowComesBack
CHECK_DEADLOCK FALSE
