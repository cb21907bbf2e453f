SPECIFICATION Spec
CONSTANTS
  w1 = w1  w2 = w2  s1 = s1  s2 = s2  r1 = r1  r2 = r2
  Jobs <- OneJob
  Workers = {w1, w2}
  Sweeps = {s1, s2}
  HourlySweeps = {s2}
  Requests = {r1, r2}
  MaxRetries = 2
  MaxAdmin = 1
  MaxFaults = 0
  MaxCount = 2
CHECK_DEADLOCK FALSE
SYMMETRY Symmetry
INVARIANT TypeOK
INVARIANT DeliveredIsStored
INVARIANT RetryBounded
INVARIANT ChargesBounded
PROPERTY SettledIsFinal
