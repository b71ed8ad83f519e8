SPECIFICATION Spec
CONSTANTS
  Threads = {t1, t2}
  Awaiters = {a1}
  c1 = c1
  c2 = c2
  Callbacks = {c1}
  KindOf <- MCKindOf
  Futs = {f1, f2, f3}
  CanStop = TRUE
  BadLoop = TRUE
INVARIANTS TypeOK OneOutcome CallbackOnce CallbackAccounted WaiterCovered AwaiterCovered PanicIsolated LostOnlyAtShutdown
PROPERTIES TerminalIsFinal ImplementsPromise
SYMMETRY ThreadSymmetry
