SPECIFICATION FairSpec
CONSTANTS
  Threads = {t1}
  Awaiters = {}
  c1 = c1
  c2 = c2
  Callbacks = {}
  KindOf <- MCKindOf
  Futs = {f1, f2, f3, f4}
  CanStop = TRUE
  BadLoop = FALSE
PROPERTY TeardownIsTold
