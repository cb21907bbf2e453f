SPECIFICATION FairSpec
CONSTANTS
  d1 = d1  d2 = d2  d3 = d3  e1 = e1  e2 = e2
  Deliveries = {d1, d2, d3}
  Events = {e1, e2}
  EventOf <- Delivered
  KindsOf <- CheckoutThenAny
  Prospects = {p1}
  Provisions = {q1}
  Sweeps = {s1}
  MaxNow = 2
  MaxFaults = 1
CHECK_DEADLOCK FALSE
INVARIANT TypeOK
INVARIANT AppliedOnce
INVARIANT PaidIsKept
INVARIANT CheckoutServed
PROPERTY ExpiredSeatCloses
