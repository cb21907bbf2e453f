SPECIFICATION FairSpec
CONSTANTS
  Schedulers = {s1, s2}
  AloneScheduler = s1
  AloneTick = t1
  Ticks = {t1, t2}
  Notices = {n1, n2}
  Batch = 1
  MaxRows = 3
  MaxClock = 1
  MaxMailFaults = 1
  i1 = i1  i2 = i2  i3 = i3
  Imports = {i1, i2, i3}
  KindOf <- KindsOfImports
  Saves = {v1, v2, v3}
  NoCall = NoCall
  MaxDataFaults = 1
  Calls = {c1, c2}
  Cap = 1
  MaxSessions = 3
  MaxPasswords = 1
  MaxAuthFaults = 1
  Clients = {k1}
  Institutions = {a}
  Polls = {p1}
  Readers = {r1}
  Unknown = Unknown
  MaxRate = 1
  DemoRate = 0
  MaxMoves = 2
  MaxReads = 1
  MaxRestarts = 1
  Users = {x1, x2, x3}
  Requests = {q1, q2}
  NoRequest = NoRequest
  Writers = {w1, w2}
  Checks = {h1, h2}
  Captures = {e1, e2}
  Bands = {GREEN}
  Ungraded = Ungraded
  NoBand = NoBand
  MaxDay = 3
CHECK_DEADLOCK FALSE
INVARIANT ServicesTypeOK
INVARIANT CopiesBounded
INVARIANT RepeatsBounded
INVARIANT SheetIsLastImport
INVARIANT BaseIsNewest
INVARIANT SessionCap
INVARIANT PasswordEndsSessions
INVARIANT LittleIsLeftBehind
INVARIANT RatesAddUp
INVARIANT AlertsHaveThreshold
INVARIANT TrendIsAgainstPrior
PROPERTY DueIsRecorded
PROPERTY NewestStay
PROPERTY LastAdminStays
