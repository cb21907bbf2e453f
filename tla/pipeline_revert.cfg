SPECIFICATION Spec
CONSTANTS
  w1 = w1  w2 = w2  s1 = s1  s2 = s2  r1 = r1  r2 = r2
  Jobs <- OneJob
  Workers = {w1}
  Sweeps = {}
  HourlySweeps = {}
  Requests = {}
  MaxRetries = 1
  MaxAdmin = 0
  MaxFaults = 0
  MaxCount = 2
CHECK_DEADLOCK FALSE
PROPERTY CompleteIsKept
