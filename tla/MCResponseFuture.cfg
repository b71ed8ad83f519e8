SPECIFICATION Spec
CONSTANTS
  t1 = t1
  t2 = t2
  d1 = d1
  d2 = d2
  c1 = c1
  e1 = e1
  Threads = {t1, t2}
  Drainers = {d1, d2}
  Callbacks = {c1, e1}
  DeliveryOf <- MCDeliveryOf
  MaxRequests = 2
  CanStop = FALSE
INVARIANTS
  TypeOK
  OncePerPage
  OneDrainer
  DrainerCovers
  NothingForgotten
  SameRows
  CallbacksReleased
  WaiterCovered
SYMMETRY ActorSymmetry
