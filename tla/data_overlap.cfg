SPECIFICATION DataSpec
CONSTANTS
  i1 = i1  i2 = i2
  Imports = {i1, i2}
  KindOf <- BothFull
  Saves = {}
  NoCall = NoCall
  MaxDataFaults = 0
CHECK_DEADLOCK FALSE
INVARIANT ImportReplaces
