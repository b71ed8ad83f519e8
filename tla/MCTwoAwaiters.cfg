SPECIFICATION StartedSpec
CONSTANTS
  Threads = {t1}
  Awaiters = {a1, a2}
  c1 = c1
  c2 = c2
  Callbacks = {}
  KindOf <- MCKindOf
  Futs = {f1, f2, f3, f4}
  CanStop = FALSE
  BadLoop = FALSE
PROPERTY CancelReachesAwaiters
