SPECIFICATION FairSpec
CONSTANTS
  c1 = c1  c2 = c2  k1 = k1
  Calls = {c1}
  Keys = {k1}
  KeyOf <- Alone
  MaxTurns = 2
  MaxToolCalls = 1
  MaxFaults = 1
CHECK_DEADLOCK FALSE
PROPERTY AuditFailureEndsRun
