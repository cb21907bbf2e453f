SPECIFICATION FairSpec
CONSTANTS
  w1 = w1  w2 = w2  s1 = s1  s2 = s2  r1 = r1  r2 = r2
  Jobs <- TwoJobs
  Workers = {w1}
  Sweeps = {s1}
  HourlySweeps = {}
  Requests = {r1}
  MaxRetries = 1
  MaxAdmin = 0
  MaxFaults = 1
  MaxCount = 2
CHECK_DEADLOCK FALSE
INVARIANT ChargedForDelivery
PROPERTY QueuedSettles
