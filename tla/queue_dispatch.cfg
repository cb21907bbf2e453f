SPECIFICATION FairSpec
CONSTANTS
  a = a  b = b  c = c  d = d  e = e
  Tasks = {a, b, c, d, e}
  Metered = {c}
  Prio <- Ranks
  MaxQueueDepth = 3
  Concurrency = 1
  CapCents = 1
  MaxCost = 1
  MaxCallers = 1
  MaxBypassed = 1
  MaxCrashes = 1
CHECK_DEADLOCK FALSE
INVARIANT TypeOK
INVARIANT PendingOrdered
INVARIANT SlotsWellUsed
PROPERTY Implements
PROPERTY AcceptedIsServed
