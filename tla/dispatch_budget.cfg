SPECIFICATION Spec
CONSTANTS
  a = a  b = b  c = c  d = d  e = e
  Tasks = {a, b, c, d, e}
  Metered = {a, b, c, d, e}
  Prio <- Ranks
  MaxQueueDepth = 1
  Concurrency = 2
  CapCents = 1
  MaxCost = 2
  MaxCallers = 1
  MaxBypassed = 2
  MaxCrashes = 1
CHECK_DEADLOCK FALSE
INVARIANT TypeOK
INVARIANT OverrunBounded
