SPECIFICATION FairSpec
CONSTANTS
  Threads = {t1}
  Awaiters = {a1}
  c1 = c1
  c2 = c2
  Callbacks = {c1}
  KindOf <- MCKindOf
  Futs = {f1, f2, f3}
  CanStop = TRUE
  BadLoop = FALSE
PROPERTIES WaitersReturn AwaitersResume CallbacksRun CancelStopsWork
