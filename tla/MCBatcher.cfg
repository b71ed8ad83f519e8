SPECIFICATION FairSpec
CONSTANTS
  Loops = {l1, l2}
  Addrs = {a1}
  AddrOf <- MCAddrOf
  Batchers = {b1, b2}
  Futs = {f1, f2, f3}
  Workers = {w1, w2}
  PipeSize = 2
INVARIANTS
  SharedBatcher
  QueueCovered
  OneDrainPerBatch
PROPERTIES
  FuturesReleased
CHECK_DEADLOCK FALSE
