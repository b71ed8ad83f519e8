SPECIFICATION Spec
CONSTANTS
  PageRows <- MCPageRows
  Tasks = {t1, t2}
  MaxTraces = 5
  SetPages <- MCSetPages
  Profiles = {"p1"}
  ProfileArgs <- MCProfileArgs
  MaxSets = 3
  BuilderProfiles = {"p1"}
  MaxCalls = 3
  Bound <- MCBound
  CacheLimit = 1
  MaxRows = 1
  Requests = {"r1", "r2"}
  PyObjects = {"o1"}
  MaxEvents = 3
VIEW View
INVARIANT StatementFactoryFirst
CHECK_DEADLOCK FALSE
