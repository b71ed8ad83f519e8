\* Two addresses are too few for three versions that are all alive, so the third
\* can only be published at the address of a state that was dropped.
SPECIFICATION Spec
CONSTANTS
  Threads = {t1, t2}
  Requests = {r1}
  MaxVersion = 3
  Addrs = {a1, a2}
  Views = {o1, o2, o3}
  Keyspaces = {"k1", "k2"}
  KeyspacesOf <- MCKeyspacesOf
  Nodes = {"n1", "n2"}
  NodesOf <- MCNodesOf
  MaxPlan = 3
SYMMETRY MCSymmetry
VIEW MCView
INVARIANTS
  ViewsFaithful
  PlanFollowsPolicy
PROPERTIES
  SnapshotFresh
