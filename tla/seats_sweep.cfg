SPECIFICATION Spec
CONSTANTS
  d1 = d1  d2 = d2  d3 = d3  e1 = e1  e2 = e2
  Deliveries = {d1}
  Events = {e1}
  EventOf <- OneCheckout
  KindsOf <- Checkout
  Prospects = {p1, p2}
  Provisions = {q1}
  Sweeps = {s1}
  MaxNow = 2
  MaxFaults = 0
CHECK_DEADLOCK FALSE
PROPERTY SweepKeepsToExpiredDemos
