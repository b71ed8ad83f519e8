SPECIFICATION Spec
CONSTANTS
  t1 = t1
  t2 = t2
  d1 = d1
  d2 = d2
  c1 = c1
  e1 = e1
  Threads = {t1, t2}
  Drainers = {d1}
  Callbacks = {c1}
  DeliveryOf <- MCDeliveryOf
  MaxRequests = 3
  CanStop = FALSE
INVARIANTS
  OneInFlight
  NothingForgotten
PROPERTIES
  PageOrder
SYMMETRY ActorSymmetry
