--------------------------- MODULE MCClusterViews ---------------------------
(* An instance of ClusterViews: three versions of the metadata that share some *)
(* of their keyspaces and nodes.                                             *)
EXTENDS ClusterViews

MCKeyspacesOf == <<{"k1"}, {"k1", "k2"}, {"k2"}>>
MCNodesOf == <<{"n1", "n2"}, {"n1"}, {"n2"}>>

MCSymmetry == Permutations(Threads) \cup Permutations(Views) \cup Permutations(Addrs)

\* What a free view holds, where a dropped state was, and the arguments of a call
\* that has returned are never read again.
MCView ==
  <<sessionVars, policy, pc, held, requestVars, current,
    [t \in Threads |-> CASE pc[t] = "replace" -> began[t]
                         [] pc[t] = "built" -> key[t]
                         [] OTHER -> "none"],
    [v \in Versions |-> IF v \in LiveVersions THEN addr[v] ELSE "none"],
    [o \in Views |-> IF o \in LiveViews THEN <<version[o], known[o], cache[o], answers[o]>>
                     ELSE << >>]>>
=============================================================================
