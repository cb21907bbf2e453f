SPECIFICATION FairSpec
CONSTANTS
  c1 = c1  c2 = c2  k1 = k1
  Calls = {c1, c2}
  Keys = {k1}
  KeyOf <- OneKey
  MaxTurns = 2
  MaxToolCalls = 2
  MaxFaults = 2
CHECK_DEADLOCK FALSE
INVARIANT TypeOK
INVARIANT ExecutedOnce
INVARIANT ChainLinked
INVARIANT OutcomeAnchored
INVARIANT TurnsAreBilled
PROPERTY FinishedIsFinal
PROPERTY StartedFinishes
