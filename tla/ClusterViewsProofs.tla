------------------------- MODULE ClusterViewsProofs -------------------------
(***************************************************************************)
(* For any threads, requests, versions and addresses: comparing addresses  *)
(* tells states of the cluster apart, because whoever compares holds what  *)
(* it compares with; so nobody is given a view of another state than the   *)
(* one meant. The answers of a view are consistent whatever the            *)
(* interleaving of lookups, mappings and new views, and the plan of a      *)
(* request follows the load-balancing policy, whatever it yields.          *)
(***************************************************************************)
EXTENDS ClusterViews, SequenceTheorems, TLAPS

\* The types, and that a view knows the nodes of its state.
Types ==
  /\ current \in Versions /\ addr \in [Versions -> Addrs]
  /\ snapshot \in Views /\ policy \in Views \cup {"none"}
  /\ version \in [Views -> Versions] /\ known = [o \in Views |-> NodesOf[version[o]]]
  /\ pc \in [Threads -> {"idle", "replace", "built", "collected"}]
  /\ held \in [Threads -> Views \cup {"none"}] /\ began \in [Threads -> Versions]
  /\ stage \in [Requests -> {"idle", "planning", "running", "over"}]
  /\ cluster \in [Requests -> Versions] /\ shown \in [Requests -> Views \cup {"none"}]

\* States that are alive are at different addresses, and none is newer than the
\* published one.
AddrInv ==
  /\ \A v, w \in LiveVersions : addr[v] = addr[w] => v = w
  /\ \A v \in LiveVersions : v <= current

\* A policy is shown the state its request is planned on.
ShownInv ==
  \A r \in Requests : shown[r] # "none" =>
    stage[r] = "planning" /\ version[shown[r]] = cluster[r]

IInv == Types /\ AddrInv /\ ShownInv

\* Every step keeps the types.
LEMMA TypesStep ==
  ASSUME IInv, [Next]_vars
  PROVE  Types'
<1> USE NamesAssumption, VersionAssumption, ContentAssumption
    DEF IInv, Types, Versions, stateVars, sessionVars, viewVars, threadVars, requestVars
<1>1. ASSUME NEW a \in Addrs, Refresh(a) PROVE Types'
  BY <1>1 DEF Refresh
<1>2. ASSUME NEW t \in Threads, Compare(t) PROVE Types'
  <2>1. held' \in [Threads -> Views \cup {"none"}]
    BY <1>2, Zenon DEF Compare
  <2>2. pc' \in [Threads -> {"idle", "replace", "built", "collected"}]
    <3>1. pc' = pc \/ pc' = [pc EXCEPT ![t] = "replace"]
      BY <1>2, Zenon DEF Compare
    <3>2. pc \in [Threads -> {"idle", "replace", "built", "collected"}]
      OBVIOUS
    <3> HIDE DEF IInv, Types
    <3> QED
      BY <3>1, <3>2
  <2>3. began' \in [Threads -> Versions]
    BY <1>2, Zenon DEF Compare
  <2> QED
    BY <1>2, <2>1, <2>2, <2>3, Zenon DEF Compare
<1>3. ASSUME NEW t \in Threads, NEW o \in Views, Replace(t, o) PROVE Types'
  BY <1>3, Zenon DEF Replace, NewView, FreeViews
<1>4. ASSUME NEW t \in Threads, ReplaceFails(t) PROVE Types'
  BY <1>4, Zenon DEF ReplaceFails
<1>5. ASSUME NEW t \in Threads, Release(t) PROVE Types'
  BY <1>5 DEF Release
<1>6. ASSUME NEW t \in Threads, NEW k \in Keyspaces, GetKeyspace(t, k) PROVE Types'
  BY <1>6, Zenon DEF GetKeyspace
<1>7. ASSUME NEW t \in Threads, InsertKeyspace(t) PROVE Types'
  BY <1>7, Zenon DEF InsertKeyspace
<1>8. ASSUME NEW t \in Threads, GetKeyspaces(t) PROVE Types'
  BY <1>8, Zenon DEF GetKeyspaces
<1>9. ASSUME NEW t \in Threads, FreezeKeyspaces(t) PROVE Types'
  BY <1>9 DEF FreezeKeyspaces
<1>10. ASSUME NEW t \in Threads, BuildFails(t) PROVE Types'
  BY <1>10, Zenon DEF BuildFails
<1>11. ASSUME NEW t \in Threads, NEW ns \in SUBSET Nodes, Replicas(t, ns) PROVE Types'
  BY <1>11, Zenon DEF Replicas
<1>12. ASSUME NEW r \in Requests, StartRequest(r) PROVE Types'
  BY <1>12, Zenon DEF StartRequest
<1>13. ASSUME NEW r \in Requests, NEW o \in Views, ShowCluster(r, o) PROVE Types'
  <2>1. CASE policy # "none" /\ addr[version[policy]] = addr[cluster[r]]
    BY <1>13, <2>1, Zenon DEF ShowCluster
  <2>2. CASE ~(policy # "none" /\ addr[version[policy]] = addr[cluster[r]])
    <3>1. /\ version' = [version EXCEPT ![o] = cluster[r]]
          /\ known' = [known EXCEPT ![o] = NodesOf[cluster[r]]]
          /\ policy' = o /\ shown' = [shown EXCEPT ![r] = o]
          /\ UNCHANGED <<current, addr, snapshot, pc, held, began, stage, cluster>>
      BY <1>13, <2>2, Zenon DEF ShowCluster, NewView
    <3>2. version' \in [Views -> Versions] /\ shown' \in [Requests -> Views \cup {"none"}]
      BY <3>1, Zenon
    <3>3. known' = [p \in Views |-> NodesOf[version'[p]]]
      BY <3>1, Zenon
    <3> QED
      BY <3>1, <3>2, <3>3
  <2> QED
    BY <2>1, <2>2, Zenon
<1>14. ASSUME NEW r \in Requests, NEW s \in Yields, PickTargets(r, s) PROVE Types'
  BY <1>14, Zenon DEF PickTargets
<1>15. ASSUME NEW r \in Requests, PlanFails(r) PROVE Types'
  BY <1>15, Zenon DEF PlanFails
<1>16. ASSUME NEW r \in Requests, Advance(r) PROVE Types'
  BY <1>16, Zenon DEF Advance
<1>17. ASSUME NEW r \in Requests, EndRequest(r) PROVE Types'
  BY <1>17 DEF EndRequest
<1>18. CASE UNCHANGED vars
  BY <1>18, Zenon DEF vars
<1> HIDE DEF IInv, Types, Versions
<1> QED
  BY <1>1, <1>2, <1>3, <1>4, <1>5, <1>6, <1>7, <1>8, <1>9, <1>10, <1>11, <1>12, <1>13, <1>14,
     <1>15, <1>16, <1>17, <1>18, Zenon
  DEF Next, ThreadNext, RequestNext

\* Only a refresh makes a state live that was not.
LEMMA LiveShrinks ==
  ASSUME IInv, [Next]_vars, ~\E a \in Addrs : Refresh(a)
  PROVE  LiveVersions' \subseteq LiveVersions /\ UNCHANGED stateVars
<1> USE NamesAssumption, VersionAssumption, ContentAssumption
    DEF IInv, Types, LiveVersions, LiveViews, Range, stateVars, sessionVars, viewVars, threadVars, requestVars
<1>2. ASSUME NEW t \in Threads, Compare(t)
      PROVE  LiveVersions' \subseteq LiveVersions /\ UNCHANGED stateVars
  BY <1>2 DEF Compare
<1>3. ASSUME NEW t \in Threads, NEW o \in Views, Replace(t, o)
      PROVE  LiveVersions' \subseteq LiveVersions /\ UNCHANGED stateVars
  BY <1>3 DEF Replace, NewView, FreeViews
<1>4. ASSUME NEW t \in Threads, ReplaceFails(t)
      PROVE  LiveVersions' \subseteq LiveVersions /\ UNCHANGED stateVars
  BY <1>4 DEF ReplaceFails
<1>5. ASSUME NEW t \in Threads, Release(t)
      PROVE  LiveVersions' \subseteq LiveVersions /\ UNCHANGED stateVars
  BY <1>5 DEF Release
<1>6. ASSUME NEW t \in Threads, NEW k \in Keyspaces, GetKeyspace(t, k)
      PROVE  LiveVersions' \subseteq LiveVersions /\ UNCHANGED stateVars
  BY <1>6 DEF GetKeyspace
<1>7. ASSUME NEW t \in Threads, InsertKeyspace(t)
      PROVE  LiveVersions' \subseteq LiveVersions /\ UNCHANGED stateVars
  BY <1>7 DEF InsertKeyspace
<1>8. ASSUME NEW t \in Threads, GetKeyspaces(t)
      PROVE  LiveVersions' \subseteq LiveVersions /\ UNCHANGED stateVars
  BY <1>8 DEF GetKeyspaces
<1>9. ASSUME NEW t \in Threads, FreezeKeyspaces(t)
      PROVE  LiveVersions' \subseteq LiveVersions /\ UNCHANGED stateVars
  BY <1>9 DEF FreezeKeyspaces
<1>10. ASSUME NEW t \in Threads, BuildFails(t)
      PROVE  LiveVersions' \subseteq LiveVersions /\ UNCHANGED stateVars
  BY <1>10 DEF BuildFails
<1>11. ASSUME NEW t \in Threads, NEW ns \in SUBSET Nodes, Replicas(t, ns)
      PROVE  LiveVersions' \subseteq LiveVersions /\ UNCHANGED stateVars
  BY <1>11 DEF Replicas
<1>12. ASSUME NEW r \in Requests, StartRequest(r)
      PROVE  LiveVersions' \subseteq LiveVersions /\ UNCHANGED stateVars
  BY <1>12 DEF StartRequest
<1>13. ASSUME NEW r \in Requests, NEW o \in Views, ShowCluster(r, o)
      PROVE  LiveVersions' \subseteq LiveVersions /\ UNCHANGED stateVars
  BY <1>13 DEF ShowCluster, NewView, FreeViews
<1>14. ASSUME NEW r \in Requests, NEW s \in Yields, PickTargets(r, s)
      PROVE  LiveVersions' \subseteq LiveVersions /\ UNCHANGED stateVars
  BY <1>14 DEF PickTargets
<1>15. ASSUME NEW r \in Requests, PlanFails(r)
      PROVE  LiveVersions' \subseteq LiveVersions /\ UNCHANGED stateVars
  BY <1>15 DEF PlanFails
<1>16. ASSUME NEW r \in Requests, Advance(r)
      PROVE  LiveVersions' \subseteq LiveVersions /\ UNCHANGED stateVars
  BY <1>16 DEF Advance
<1>17. ASSUME NEW r \in Requests, EndRequest(r)
      PROVE  LiveVersions' \subseteq LiveVersions /\ UNCHANGED stateVars
  BY <1>17 DEF EndRequest
<1>18. CASE UNCHANGED vars
  BY <1>18 DEF vars
<1> HIDE DEF IInv, Types, LiveVersions, LiveViews, Range
<1> QED
  BY <1>2, <1>3, <1>4, <1>5, <1>6, <1>7, <1>8, <1>9, <1>10, <1>11, <1>12, <1>13, <1>14,
     <1>15, <1>16, <1>17, <1>18, Zenon
  DEF Next, ThreadNext, RequestNext

\* Every step keeps ShownInv.
LEMMA ShownStep ==
  ASSUME IInv, [Next]_vars
  PROVE  ShownInv'
<1> USE NamesAssumption, VersionAssumption, ContentAssumption
    DEF IInv, Types, ShownInv, LiveViews, Range, stateVars, sessionVars, viewVars, threadVars, requestVars
<1>1. ASSUME NEW a \in Addrs, Refresh(a) PROVE ShownInv'
  BY <1>1, Zenon DEF Refresh
<1>2. ASSUME NEW t \in Threads, Compare(t) PROVE ShownInv'
  BY <1>2, Zenon DEF Compare
<1>3. ASSUME NEW t \in Threads, NEW o \in Views, Replace(t, o) PROVE ShownInv'
  BY <1>3 DEF Replace, NewView, FreeViews
<1>4. ASSUME NEW t \in Threads, ReplaceFails(t) PROVE ShownInv'
  BY <1>4, Zenon DEF ReplaceFails
<1>5. ASSUME NEW t \in Threads, Release(t) PROVE ShownInv'
  BY <1>5, Zenon DEF Release
<1>6. ASSUME NEW t \in Threads, NEW k \in Keyspaces, GetKeyspace(t, k) PROVE ShownInv'
  BY <1>6, Zenon DEF GetKeyspace
<1>7. ASSUME NEW t \in Threads, InsertKeyspace(t) PROVE ShownInv'
  BY <1>7, Zenon DEF InsertKeyspace
<1>8. ASSUME NEW t \in Threads, GetKeyspaces(t) PROVE ShownInv'
  BY <1>8, Zenon DEF GetKeyspaces
<1>9. ASSUME NEW t \in Threads, FreezeKeyspaces(t) PROVE ShownInv'
  BY <1>9, Zenon DEF FreezeKeyspaces
<1>10. ASSUME NEW t \in Threads, BuildFails(t) PROVE ShownInv'
  BY <1>10, Zenon DEF BuildFails
<1>11. ASSUME NEW t \in Threads, NEW ns \in SUBSET Nodes, Replicas(t, ns) PROVE ShownInv'
  BY <1>11, Zenon DEF Replicas
<1>12. ASSUME NEW r \in Requests, StartRequest(r) PROVE ShownInv'
  BY <1>12 DEF StartRequest
<1>13. ASSUME NEW r \in Requests, NEW o \in Views, ShowCluster(r, o) PROVE ShownInv'
  <2>1. stage[r] = "planning" /\ UNCHANGED <<stage, cluster>>
    BY <1>13, Zenon DEF ShowCluster
  <2>2. shown' = [shown EXCEPT ![r] = o]
    BY <1>13, Zenon DEF ShowCluster
  <2>3. CASE policy # "none" /\ addr[version[policy]] = addr[cluster[r]]
    <3>1. o = policy /\ UNCHANGED version
      BY <1>13, <2>3, Zenon DEF ShowCluster
    <3>2. version[policy] \in LiveVersions /\ cluster[r] \in LiveVersions
      BY <2>1, <2>3, Zenon DEF LiveVersions
    <3>3. version[o] = cluster[r]
      BY <2>3, <3>1, <3>2, Zenon DEF AddrInv
    <3> QED
      BY <2>1, <2>2, <3>1, <3>3, Zenon
  <2>4. CASE ~(policy # "none" /\ addr[version[policy]] = addr[cluster[r]])
    <3>1. version' = [version EXCEPT ![o] = cluster[r]]
      BY <1>13, <2>4, Zenon DEF ShowCluster, NewView
    <3>2. \A q \in Requests : shown[q] # o
      BY <1>13, <2>4 DEF ShowCluster, FreeViews
    <3> QED
      BY <2>1, <2>2, <3>1, <3>2
  <2> QED
    BY <2>3, <2>4, Zenon
<1>14. ASSUME NEW r \in Requests, NEW s \in Yields, PickTargets(r, s) PROVE ShownInv'
  BY <1>14, Zenon DEF PickTargets
<1>15. ASSUME NEW r \in Requests, PlanFails(r) PROVE ShownInv'
  BY <1>15, Zenon DEF PlanFails
<1>16. ASSUME NEW r \in Requests, Advance(r) PROVE ShownInv'
  BY <1>16, Zenon DEF Advance
<1>17. ASSUME NEW r \in Requests, EndRequest(r) PROVE ShownInv'
  BY <1>17, Zenon DEF EndRequest
<1>18. CASE UNCHANGED vars
  BY <1>18 DEF vars
<1> HIDE DEF IInv, Types, ShownInv, LiveViews, Range
<1> QED
  BY <1>1, <1>2, <1>3, <1>4, <1>5, <1>6, <1>7, <1>8, <1>9, <1>10, <1>11, <1>12, <1>13, <1>14,
     <1>15, <1>16, <1>17, <1>18
  DEF Next, ThreadNext, RequestNext

\* Every step keeps AddrInv.
LEMMA AddrStep ==
  ASSUME IInv, [Next]_vars
  PROVE  AddrInv'
<1>1. ASSUME NEW a \in Addrs, Refresh(a) PROVE AddrInv'
  <2>1. LiveVersions' \subseteq LiveVersions \cup {current + 1}
    BY <1>1, Zenon DEF Refresh, LiveVersions, LiveViews, sessionVars, viewVars, threadVars,
       requestVars
  <2>2. /\ current' = current + 1 /\ current \in Nat
        /\ \A v \in LiveVersions : v <= current
    BY <1>1, VersionAssumption DEF Refresh, IInv, AddrInv, Types, Versions
  <2>3. LiveVersions \subseteq Versions /\ current + 1 \in Versions
    BY <1>1, VersionAssumption DEF Refresh, IInv, Types, LiveVersions, Versions, LiveViews
  <2>4. /\ addr'[current + 1] = a
        /\ \A v \in LiveVersions : addr'[v] = addr[v] /\ addr[v] # a
    BY <1>1, <2>2, <2>3 DEF Refresh, IInv, Types, Versions
  <2>5. \A v, w \in LiveVersions : addr[v] = addr[w] => v = w
    BY DEF IInv, AddrInv
  <2>6. \A v, w \in LiveVersions' : addr'[v] = addr'[w] => v = w
    BY <2>1, <2>4, <2>5
  <2>7. \A v \in LiveVersions' : v <= current'
    BY <2>1, <2>2, <2>3 DEF Versions
  <2> QED
    BY <2>6, <2>7, Zenon DEF AddrInv
<1>2. CASE ~\E a \in Addrs : Refresh(a)
  <2>1. LiveVersions' \subseteq LiveVersions /\ UNCHANGED <<current, addr>>
    BY <1>2, LiveShrinks DEF stateVars
  <2> QED
    BY <2>1 DEF IInv, AddrInv
<1> QED
  BY <1>1, <1>2

\* The initial states satisfy the invariant.
LEMMA InitInv == Init => IInv
<1> SUFFICES ASSUME Init PROVE IInv
  BY Zenon
<1>1. Types
  BY VersionAssumption, ContentAssumption DEF Init, Types, Versions
<1>2. LiveVersions \subseteq {1}
  BY DEF Init, LiveVersions
<1>3. AddrInv
  BY <1>2 DEF Init, AddrInv
<1>4. ShownInv
  BY DEF Init, ShownInv
<1> QED
  BY <1>1, <1>3, <1>4 DEF IInv

\* The invariant is one.
LEMMA Invariance == Spec => []IInv
<1>1. IInv /\ [Next]_vars => IInv'
  BY TypesStep, AddrStep, ShownStep DEF IInv
<1> QED
  BY <1>1, InitInv, PTL DEF Spec

\* SessionCore.cluster_state gives metadata at least as new as what was published when
\* it was called, for any number of threads, refreshes and addresses.
THEOREM ClusterSnapshotFresh == Spec => SnapshotFresh
<1> DEFINE Fresh(t) ==
      held'[t] \notin {held[t], "none"} \/ began'[t] # began[t] =>
        (held'[t] # "none" => version'[held'[t]] >= began'[t])
<1>1. IInv /\ [Next]_vars => [\A t \in Threads : Fresh(t)]_vars
  <2> SUFFICES ASSUME IInv, Next, NEW t \in Threads PROVE Fresh(t)
    BY Zenon
  <2>1. ASSUME NEW u \in Threads, Compare(u) PROVE Fresh(t)
    <3>1. version' = version /\ \A x \in Threads : x # u => held'[x] = held[x] /\ began'[x] = began[x]
      BY <2>1, Zenon DEF Compare, viewVars, IInv, Types
    <3>2. held'[u] = "none" \/ (held'[u] = snapshot /\ version[snapshot] = began'[u])
      <4>1. CASE addr[current] = addr[version[snapshot]]
        <5>1. current \in LiveVersions /\ version[snapshot] \in LiveVersions
          BY DEF LiveVersions, LiveViews, IInv, Types
        <5>2. version[snapshot] = current
          BY <4>1, <5>1, Zenon DEF IInv, AddrInv
        <5> QED
          BY <2>1, <4>1, <5>2, Zenon DEF Compare, IInv, Types
      <4>2. CASE addr[current] # addr[version[snapshot]]
        BY <2>1, <4>2, Zenon DEF Compare, IInv, Types
      <4> QED
        BY <4>1, <4>2, Zenon
    <3>3. version[snapshot] \in Nat
      BY VersionAssumption DEF IInv, Types, Versions
    <3> QED
      BY <3>1, <3>2, <3>3
  <2>2. ASSUME NEW u \in Threads, NEW o \in Views, Replace(u, o) PROVE Fresh(t)
    <3>1. /\ began' = began /\ version'[o] = current
          /\ held' = [held EXCEPT ![u] = o]
      BY <2>2, Zenon DEF Replace, NewView, IInv, Types
    <3>2. began[u] <= current /\ began[u] \in Nat /\ current \in Nat
      BY <2>2, VersionAssumption DEF Replace, LiveVersions, IInv, AddrInv, Types, Versions
    <3> QED
      BY <3>1, <3>2, Zenon DEF IInv, Types
  <2>3. ASSUME NEW u \in Threads, Release(u) PROVE Fresh(t)
    BY <2>3 DEF Release, IInv, Types
  <2>4. CASE UNCHANGED <<held, began>>
    BY <2>4, Zenon
  <2> HIDE DEF Fresh
  <2>5. ASSUME NEW a \in Addrs, Refresh(a) PROVE Fresh(t)
    BY <2>4, <2>5, Zenon DEF Refresh, threadVars
  <2>6. ASSUME NEW u \in Threads,
               \/ ReplaceFails(u) \/ (\E k \in Keyspaces : GetKeyspace(u, k))
               \/ InsertKeyspace(u) \/ GetKeyspaces(u) \/ FreezeKeyspaces(u) \/ BuildFails(u)
               \/ \E ns \in SUBSET Nodes : Replicas(u, ns)
        PROVE  Fresh(t)
    BY <2>4, <2>6, Zenon DEF ReplaceFails, GetKeyspace, InsertKeyspace, GetKeyspaces,
       FreezeKeyspaces,
                      BuildFails, Replicas
  <2>7. ASSUME NEW r \in Requests, RequestNext(r) PROVE Fresh(t)
    BY <2>4, <2>7, Zenon DEF RequestNext, StartRequest, ShowCluster, PickTargets,
       PlanFails, Advance,
                      EndRequest, threadVars
  <2> QED
    BY <2>1, <2>2, <2>3, <2>5, <2>6, <2>7 DEF Next, ThreadNext
<1> QED
  BY <1>1, Invariance, PTL DEF SnapshotFresh, Spec

-----------------------------------------------------------------------------
(* The answers of a cluster view: what each critical section of the cache keeps. *)

\* What a cache holds are the objects of threads, under keyspaces the state has.
CacheStates ==
  LET Maps == UNION {[ks -> Threads] : ks \in SUBSET Keyspaces}
  IN [frozen : BOOLEAN, map : Maps, view : Maps]

\* A view answered with what its cache holds and, for what it does not hold, with
\* None, and only if the state has no such keyspace.
AnswersOK(c, ks, ans) ==
  /\ DOMAIN c.map \subseteq ks
  /\ c.frozen => DOMAIN c.map = ks /\ c.view = c.map
  /\ \A k \in Keyspaces :
       /\ k \in DOMAIN c.map => ans[k] \subseteq {c.map[k]}
       /\ k \notin DOMAIN c.map => ans[k] \subseteq {"None"} /\ (k \in ks => ans[k] = {})

CacheInv ==
  /\ cache \in [Views -> CacheStates]
  /\ answers \in [Views -> [Keyspaces -> SUBSET (Threads \cup {"None"})]]
  /\ DOMAIN key = Threads
  /\ \A o \in Views : AnswersOK(cache[o], KeyspacesOf[version[o]], answers[o])
  /\ \A t \in Threads :
       /\ pc[t] \in {"built", "collected"} => held[t] \in Views
       /\ pc[t] = "built" => key[t] \in KeyspacesOf[version[held[t]]]
       /\ pc[t] # "panicked"

\* CacheState::Active(HashMap::new()).
LEMMA NewCacheOK ==
  NewCache \in CacheStates /\ DOMAIN NewCache.map = {} /\ ~NewCache.frozen
<1>1. << >> \in [{} -> Threads] /\ DOMAIN << >> = {}
  OBVIOUS
<1> QED
  BY <1>1, Zenon DEF NewCache, CacheStates

\* get_or_init changes no entry, adds at most the one asked for, and none once frozen.
LEMMA InsertOK ==
  ASSUME NEW c \in CacheStates, NEW k \in Keyspaces, NEW v \in Threads
  PROVE  /\ Insert(c, k, v) \in CacheStates
         /\ Insert(c, k, v).frozen = c.frozen /\ Insert(c, k, v).view = c.view
         /\ \A x \in DOMAIN c.map : Insert(c, k, v).map[x] = c.map[x]
         /\ DOMAIN Insert(c, k, v).map = IF c.frozen THEN DOMAIN c.map ELSE DOMAIN c.map \cup {k}
<1>1. PICK ks \in SUBSET Keyspaces : c.map \in [ks -> Threads]
  BY DEF CacheStates
<1>2. CASE c.frozen \/ k \in ks
  BY <1>1, <1>2 DEF Insert, HasKey
<1>3. CASE ~(c.frozen \/ k \in ks)
  <2> DEFINE map == [x \in ks \cup {k} |-> IF x = k THEN v ELSE c.map[x]]
  <2>1. map \in [ks \cup {k} -> Threads] /\ ks \cup {k} \in SUBSET Keyspaces
    BY <1>1
  <2>2. Insert(c, k, v) = [c EXCEPT !.map = map]
    BY <1>1, <1>3, Zenon DEF Insert, HasKey
  <2>3. /\ DOMAIN map = ks \cup {k} /\ \A x \in ks : map[x] = c.map[x]
    BY <1>1, <1>3
  <2> HIDE DEF map
  <2>4. [c EXCEPT !.map = map] \in CacheStates
    BY <2>1, Zenon DEF CacheStates
  <2> QED
    BY <1>1, <1>3, <2>2, <2>3, <2>4 DEF CacheStates
<1> QED
  BY <1>2, <1>3, Zenon

\* get_or_init_python_mapping changes no entry, adds those that are missing, and the
\* mapping it freezes is the map.
LEMMA FreezeOK ==
  ASSUME NEW c \in CacheStates, NEW ks \in SUBSET Keyspaces, NEW v \in Threads, ~c.frozen
  PROVE  /\ Freeze(c, ks, v) \in CacheStates /\ Freeze(c, ks, v).frozen
         /\ Freeze(c, ks, v).view = Freeze(c, ks, v).map
         /\ DOMAIN Freeze(c, ks, v).map = DOMAIN c.map \cup ks
         /\ \A x \in DOMAIN c.map : Freeze(c, ks, v).map[x] = c.map[x]
<1>1. PICK old \in SUBSET Keyspaces : c.map \in [old -> Threads]
  BY Zenon DEF CacheStates
<1> DEFINE map == [x \in old \cup ks |-> IF x \in old THEN c.map[x] ELSE v]
<1>2. map \in [old \cup ks -> Threads] /\ old \cup ks \in SUBSET Keyspaces
  BY <1>1, Zenon
<1>3. Freeze(c, ks, v) = [frozen |-> TRUE, map |-> map, view |-> map]
  BY <1>1, Zenon DEF Freeze, HasKey
<1>4. DOMAIN map = old \cup ks /\ \A x \in old : map[x] = c.map[x]
  BY <1>1, Zenon
<1> HIDE DEF map
<1>5. [frozen |-> TRUE, map |-> map, view |-> map] \in CacheStates
  BY <1>2, Zenon DEF CacheStates
<1> QED
  BY <1>1, <1>3, <1>4, <1>5

\* What one view answered, by keyspace.
Answers == [Keyspaces -> SUBSET (Threads \cup {"None"})]

\* Answering a lookup keeps the answers in agreement with the cache.
LEMMA LookupOK ==
  ASSUME NEW c \in CacheStates, NEW ks \in SUBSET Keyspaces, NEW ans \in Answers,
         AnswersOK(c, ks, ans), NEW k \in Keyspaces, Answered(c, k) \/ k \notin ks
  PROVE  AnswersOK(c, ks, [ans EXCEPT ![k] = @ \cup {Lookup(c, k)}])
BY DEF Answers, AnswersOK, Answered, Lookup, HasKey

\* So does answering with the whole mapping of a frozen cache.
LEMMA MappingOK ==
  ASSUME NEW c \in CacheStates, NEW ks \in SUBSET Keyspaces, NEW ans \in Answers,
         AnswersOK(c, ks, ans), c.frozen
  PROVE  AnswersOK(c, ks, [k \in Keyspaces |->
           ans[k] \cup {IF k \in DOMAIN c.view THEN c.view[k] ELSE "None"}])
BY DEF Answers, AnswersOK

\* What get_or_init inserts contradicts no earlier answer.
LEMMA InsertAnswers ==
  ASSUME NEW c \in CacheStates, NEW ks \in SUBSET Keyspaces, NEW ans \in Answers,
         AnswersOK(c, ks, ans), NEW k \in ks, NEW v \in Threads
  PROVE  AnswersOK(Insert(c, k, v), ks, ans) /\ Answered(Insert(c, k, v), k)
<1> DEFINE d == Insert(c, k, v)
<1>1. /\ d.frozen = c.frozen /\ d.view = c.view
      /\ \A x \in DOMAIN c.map : d.map[x] = c.map[x]
      /\ DOMAIN d.map = IF c.frozen THEN DOMAIN c.map ELSE DOMAIN c.map \cup {k}
  BY InsertOK, Zenon
<1>2. c.frozen => d = c
  BY DEF Insert
<1> HIDE DEF d
<1>3. AnswersOK(d, ks, ans) /\ Answered(d, k)
  BY <1>1, <1>2, Zenon DEF AnswersOK, Answered, HasKey
<1> QED
  BY <1>3, Zenon DEF d

\* Nor does what get_or_init_python_mapping freezes.
LEMMA FreezeAnswers ==
  ASSUME NEW c \in CacheStates, NEW ks \in SUBSET Keyspaces, NEW ans \in Answers,
         AnswersOK(c, ks, ans), NEW v \in Threads
  PROVE  /\ AnswersOK(Freeze(c, ks, v), ks, ans) /\ Freeze(c, ks, v).frozen
         /\ Freeze(c, ks, v) \in CacheStates
<1>1. CASE c.frozen
  BY <1>1, Zenon DEF Freeze
<1>2. CASE ~c.frozen
  <2> DEFINE d == Freeze(c, ks, v)
  <2>1. /\ d \in CacheStates /\ d.frozen /\ d.view = d.map
        /\ DOMAIN d.map = DOMAIN c.map \cup ks
        /\ \A x \in DOMAIN c.map : d.map[x] = c.map[x]
    BY <1>2, FreezeOK, Zenon
  <2> HIDE DEF d
  <2>2. AnswersOK(d, ks, ans)
    BY <2>1, Zenon DEF AnswersOK
  <2> QED
    BY <2>1, <2>2, Zenon DEF d
<1> QED
  BY <1>1, <1>2, Zenon

\* A cache and its mapping hold objects that threads made.
LEMMA EntryOK ==
  ASSUME NEW c \in CacheStates
  PROVE  /\ \A k \in DOMAIN c.map : c.map[k] \in Threads
         /\ \A k \in DOMAIN c.view : c.view[k] \in Threads
<1>1. PICK ks \in SUBSET Keyspaces : c.map \in [ks -> Threads]
  BY DEF CacheStates
<1>2. PICK vs \in SUBSET Keyspaces : c.view \in [vs -> Threads]
  BY Zenon DEF CacheStates
<1> QED
  BY <1>1, <1>2, Zenon

\* What a lookup returns is one of them, or None.
LEMMA LookupType ==
  ASSUME NEW c \in CacheStates, NEW k
  PROVE  Lookup(c, k) \in Threads \cup {"None"}
BY EntryOK, Zenon DEF Lookup, HasKey

\* Nothing was asked of a new view.
LEMMA NewViewOK ==
  ASSUME NEW ks
  PROVE  AnswersOK(NewCache, ks, [k \in Keyspaces |-> {}])
BY NewCacheOK, Zenon DEF AnswersOK

\* Every step keeps CacheInv.
LEMMA CacheStep ==
  ASSUME Types, CacheInv, [Next]_vars
  PROVE  CacheInv'
<1> USE NamesAssumption, VersionAssumption, ContentAssumption
    DEF Types, CacheInv, stateVars, sessionVars, viewVars, threadVars, requestVars
<1>1. ASSUME NEW a \in Addrs, Refresh(a) PROVE CacheInv'
  BY <1>1, Zenon DEF Refresh
<1>2. ASSUME NEW t \in Threads, Compare(t) PROVE CacheInv'
  <2>1. /\ UNCHANGED <<cache, answers, version, key>>
        /\ \A u \in Threads \ {t} : held'[u] = held[u] /\ pc'[u] = pc[u]
        /\ pc'[t] \in {"idle", "replace"}
    BY <1>2, Zenon DEF Compare
  <2> QED
    BY <2>1, Zenon
<1>3. ASSUME NEW t \in Threads, NEW o \in Views, Replace(t, o) PROVE CacheInv'
  <2>1. /\ cache' = [cache EXCEPT ![o] = NewCache]
        /\ answers' = [answers EXCEPT ![o] = [k \in Keyspaces |-> {}]]
        /\ version' = [version EXCEPT ![o] = current]
    BY <1>3, Zenon DEF Replace, NewView
  <2>2. NewCache \in CacheStates /\ DOMAIN NewCache.map = {} /\ ~NewCache.frozen
    BY NewCacheOK, Zenon
  <2> HIDE DEF NewCache
  <2>3. \A p \in Views : AnswersOK(cache'[p], KeyspacesOf[version'[p]], answers'[p])
    <3>1. \A p \in Views : AnswersOK(cache[p], KeyspacesOf[version[p]], answers[p])
      BY Zenon
    <3>2. /\ DOMAIN cache = Views /\ DOMAIN answers = Views /\ DOMAIN version = Views
      BY Zenon
    <3> HIDE DEF Types, CacheInv
    <3> QED
      BY <2>1, <3>1, <3>2, NewViewOK, Zenon
  <2>4. \A u \in Threads : held[u] # o
    BY <1>3 DEF Replace, FreeViews, LiveViews, Range
  <2>5. cache' \in [Views -> CacheStates]
    BY <2>1, <2>2, Zenon
  <2> QED
    BY <1>3, <2>1, <2>3, <2>4, <2>5, Zenon DEF Replace
<1>4. ASSUME NEW t \in Threads, ReplaceFails(t) PROVE CacheInv'
  BY <1>4, Zenon DEF ReplaceFails
<1>5. ASSUME NEW t \in Threads, Release(t) PROVE CacheInv'
  BY <1>5, Zenon DEF Release
<1>6. ASSUME NEW t \in Threads, NEW k \in Keyspaces, GetKeyspace(t, k) PROVE CacheInv'
  <2> DEFINE o == held[t]
             c == cache[o]
             ks == KeyspacesOf[version[o]]
  <2>0. /\ o \in Views /\ c \in CacheStates /\ ks \in SUBSET Keyspaces
        /\ answers[o] \in Answers /\ AnswersOK(c, ks, answers[o])
    BY <1>6, Zenon DEF GetKeyspace, Answers
  <2>1. CASE Answered(c, k) \/ k \notin ks
    <3>1. ~Answered(c, k) => Lookup(c, k) = "None"
      BY Zenon DEF Answered, Lookup
    <3>2. /\ answers' = [answers EXCEPT ![o][k] = @ \cup {Lookup(c, k)}]
          /\ UNCHANGED <<cache, version, key, pc, held>>
      BY <1>6, <2>1, <3>1, Zenon DEF GetKeyspace, Answer
    <3>3. AnswersOK(c, ks, [answers[o] EXCEPT ![k] = @ \cup {Lookup(c, k)}])
      BY <2>0, <2>1, LookupOK, Zenon
    <3>4. Lookup(c, k) \in Threads \cup {"None"}
      BY <2>0, LookupType, Zenon
    <3> HIDE DEF c, ks
    <3>5. /\ answers' \in [Views -> [Keyspaces -> SUBSET (Threads \cup {"None"})]]
          /\ answers'[o] = [answers[o] EXCEPT ![k] = @ \cup {Lookup(c, k)}]
          /\ \A p \in Views \ {o} : answers'[p] = answers[p]
      BY <2>0, <3>2, <3>4
    <3> QED
      BY <3>2, <3>3, <3>5 DEF c, ks
  <2>2. CASE ~(Answered(c, k) \/ k \notin ks)
    <3>1. /\ pc' = [pc EXCEPT ![t] = "built"] /\ key' = [key EXCEPT ![t] = k]
          /\ UNCHANGED <<answers, cache, version, held>>
      BY <1>6, <2>2, Zenon DEF GetKeyspace
    <3> QED
      BY <2>0, <2>2, <3>1, Zenon
  <2> QED
    BY <2>1, <2>2, Zenon
<1>7. ASSUME NEW t \in Threads, InsertKeyspace(t) PROVE CacheInv'
  <2> DEFINE o == held[t]
             k == key[t]
             c == Insert(cache[o], k, t)
             ks == KeyspacesOf[version[o]]
             ans == [answers[o] EXCEPT ![k] = @ \cup {Lookup(c, k)}]
  <2>0. /\ o \in Views /\ cache[o] \in CacheStates /\ ks \in SUBSET Keyspaces /\ k \in ks
        /\ answers[o] \in Answers /\ AnswersOK(cache[o], ks, answers[o])
    BY <1>7, Zenon DEF InsertKeyspace, Answers
  <2>1. c \in CacheStates
    BY <2>0, InsertOK, Zenon
  <2>2. AnswersOK(c, ks, answers[o]) /\ Answered(c, k)
    BY <2>0, InsertAnswers, Zenon
  <2>3. /\ cache' = [cache EXCEPT ![o] = c]
        /\ answers' = [answers EXCEPT ![o][k] = @ \cup {Lookup(c, k)}]
        /\ pc' = [pc EXCEPT ![t] = "idle"] /\ UNCHANGED <<version, key, held>>
    BY <1>7 DEF InsertKeyspace, Answer
  <2> HIDE DEF c
  <2>4. AnswersOK(c, ks, ans)
    BY <2>0, <2>1, <2>2, LookupOK, Zenon
  <2>5. Lookup(c, k) \in Threads \cup {"None"}
    BY <2>1, LookupType, Zenon
  <2>6. ans \in Answers
    BY <2>0, <2>5 DEF Answers
  <2>7. answers' = [answers EXCEPT ![o] = ans]
    BY <2>0, <2>3
  <2> HIDE DEF ans
  <2>8. answers' \in [Views -> Answers] /\ cache' \in [Views -> CacheStates]
    <3>1. answers \in [Views -> Answers] /\ cache \in [Views -> CacheStates]
      BY Zenon DEF Answers
    <3> HIDE DEF Types, CacheInv
    <3> QED
      BY <2>0, <2>1, <2>3, <2>6, <2>7, <3>1
  <2>9. \A p \in Views : AnswersOK(cache'[p], KeyspacesOf[version'[p]], answers'[p])
    <3>1. \A p \in Views : AnswersOK(cache[p], KeyspacesOf[version[p]], answers[p])
      BY Zenon
    <3>2. DOMAIN cache = Views /\ DOMAIN answers = Views
      BY Zenon
    <3> HIDE DEF Types, CacheInv
    <3> QED
      BY <2>3, <2>4, <2>7, <3>1, <3>2, Zenon
  <2> QED
    BY <2>3, <2>8, <2>9, Zenon DEF Answers
<1>8. ASSUME NEW t \in Threads, GetKeyspaces(t) PROVE CacheInv'
  <2> DEFINE o == held[t]
             c == cache[o]
             ks == KeyspacesOf[version[o]]
             ans == [k \in Keyspaces |->
                       answers[o][k] \cup {IF k \in DOMAIN c.view THEN c.view[k] ELSE "None"}]
  <2>0. /\ o \in Views /\ c \in CacheStates /\ ks \in SUBSET Keyspaces
        /\ answers[o] \in Answers /\ AnswersOK(c, ks, answers[o])
    BY <1>8, Zenon DEF GetKeyspaces, Answers
  <2>1. CASE c.frozen
    <3>1. answers' = [answers EXCEPT ![o] = ans] /\ UNCHANGED <<cache, version, key, pc, held>>
      BY <1>8, <2>1 DEF GetKeyspaces, AnswerAll
    <3>2. AnswersOK(c, ks, ans)
      <4> HIDE DEF c, CacheInv, Types
      <4> QED
        BY <2>0, <2>1, MappingOK, Zenon
    <3>3. ans \in Answers
      <4>1. \A k \in DOMAIN c.view : c.view[k] \in Threads
        BY <2>0, EntryOK, Zenon
      <4> HIDE DEF Types, CacheInv
      <4> QED
        BY <2>0, <4>1, Zenon DEF Answers
    <3> HIDE DEF ans
    <3>4. answers' \in [Views -> Answers]
      BY <3>1, <3>3, Zenon DEF Answers
    <3>5. \A p \in Views : AnswersOK(cache'[p], KeyspacesOf[version'[p]], answers'[p])
      BY <3>1, <3>2, Zenon
    <3> QED
      BY <3>1, <3>4, <3>5, Zenon DEF Answers
  <2>2. CASE ~c.frozen
    <3>1. /\ pc' = [pc EXCEPT ![t] = "collected"]
          /\ UNCHANGED <<answers, cache, version, key, held>>
      BY <1>8, <2>2 DEF GetKeyspaces
    <3> QED
      BY <2>0, <3>1, Zenon
  <2> QED
    BY <2>1, <2>2, Zenon
<1>9. ASSUME NEW t \in Threads, FreezeKeyspaces(t) PROVE CacheInv'
  <2> DEFINE o == held[t]
             ks == KeyspacesOf[version[o]]
             c == Freeze(cache[o], ks, t)
             ans == [k \in Keyspaces |->
                       answers[o][k] \cup {IF k \in DOMAIN c.view THEN c.view[k] ELSE "None"}]
  <2>0. /\ o \in Views /\ cache[o] \in CacheStates /\ ks \in SUBSET Keyspaces
        /\ answers[o] \in Answers /\ AnswersOK(cache[o], ks, answers[o])
    BY <1>9, Zenon DEF FreezeKeyspaces, Answers
  <2>1. AnswersOK(c, ks, answers[o]) /\ c.frozen /\ c \in CacheStates
    BY <2>0, FreezeAnswers, Zenon
  <2>2. /\ cache' = [cache EXCEPT ![o] = c] /\ answers' = [answers EXCEPT ![o] = ans]
        /\ pc' = [pc EXCEPT ![t] = "idle"] /\ UNCHANGED <<version, key, held>>
    BY <1>9 DEF FreezeKeyspaces, AnswerAll
  <2> HIDE DEF c
  <2>3. AnswersOK(c, ks, ans)
    <3> HIDE DEF Types, CacheInv
    <3> QED
      BY <2>0, <2>1, MappingOK, Zenon
  <2>4. ans \in Answers
    <3>1. \A k \in DOMAIN c.view : c.view[k] \in Threads
      BY <2>1, EntryOK, Zenon
    <3> HIDE DEF Types, CacheInv
    <3> QED
      BY <2>0, <3>1, Zenon DEF Answers
  <2> HIDE DEF ans
  <2>5. answers' \in [Views -> Answers] /\ cache' \in [Views -> CacheStates]
    BY <2>1, <2>2, <2>4, Zenon DEF Answers
  <2>6. \A p \in Views : AnswersOK(cache'[p], KeyspacesOf[version'[p]], answers'[p])
    BY <2>2, <2>3, Zenon
  <2> QED
    BY <2>2, <2>5, <2>6, Zenon DEF Answers
<1>10. ASSUME NEW t \in Threads, BuildFails(t) PROVE CacheInv'
  BY <1>10 DEF BuildFails
<1>11. ASSUME NEW t \in Threads, NEW ns \in SUBSET Nodes, Replicas(t, ns) PROVE CacheInv'
  BY <1>11 DEF Replicas
<1>12. ASSUME NEW r \in Requests, StartRequest(r) PROVE CacheInv'
  BY <1>12, Zenon DEF StartRequest
<1>13. ASSUME NEW r \in Requests, NEW o \in Views, ShowCluster(r, o) PROVE CacheInv'
  <2> SUFFICES ASSUME ~(policy # "none" /\ addr[version[policy]] = addr[cluster[r]])
               PROVE  CacheInv'
    BY <1>13, Zenon DEF ShowCluster
  <2>1. /\ cache' = [cache EXCEPT ![o] = NewCache]
        /\ answers' = [answers EXCEPT ![o] = [k \in Keyspaces |-> {}]]
        /\ version' = [version EXCEPT ![o] = cluster[r]]
    BY <1>13, Zenon DEF ShowCluster, NewView
  <2>2. NewCache \in CacheStates /\ DOMAIN NewCache.map = {} /\ ~NewCache.frozen
    BY NewCacheOK
  <2> HIDE DEF NewCache
  <2>3. \A p \in Views : AnswersOK(cache'[p], KeyspacesOf[version'[p]], answers'[p])
    <3>1. \A p \in Views : AnswersOK(cache[p], KeyspacesOf[version[p]], answers[p])
      BY Zenon
    <3>2. /\ DOMAIN cache = Views /\ DOMAIN answers = Views /\ DOMAIN version = Views
      OBVIOUS
    <3> HIDE DEF Types, CacheInv
    <3> QED
      BY <2>1, <3>1, <3>2, NewViewOK, Zenon
  <2>4. \A u \in Threads : held[u] # o
    BY <1>13 DEF ShowCluster, FreeViews, LiveViews, Range
  <2>5. cache' \in [Views -> CacheStates]
    BY <2>1, <2>2
  <2> QED
    BY <1>13, <2>1, <2>3, <2>4, <2>5, Zenon DEF ShowCluster
<1>14. ASSUME NEW r \in Requests, NEW s \in Yields, PickTargets(r, s) PROVE CacheInv'
  BY <1>14, Zenon DEF PickTargets
<1>15. ASSUME NEW r \in Requests, PlanFails(r) PROVE CacheInv'
  BY <1>15, Zenon DEF PlanFails
<1>16. ASSUME NEW r \in Requests, Advance(r) PROVE CacheInv'
  BY <1>16, Zenon DEF Advance
<1>17. ASSUME NEW r \in Requests, EndRequest(r) PROVE CacheInv'
  BY <1>17, Zenon DEF EndRequest
<1>18. CASE UNCHANGED vars
  BY <1>18 DEF vars
<1> HIDE DEF Types, CacheInv
<1> QED
  BY <1>1, <1>2, <1>3, <1>4, <1>5, <1>6, <1>7, <1>8, <1>9, <1>10, <1>11, <1>12, <1>13, <1>14,
     <1>15, <1>16, <1>17, <1>18
  DEF Next, ThreadNext, RequestNext

\* What was answered stays in agreement with the caches.
LEMMA AnswersInvariance == Spec => []CacheInv
<1>1. Init => CacheInv
  <2> SUFFICES ASSUME Init PROVE CacheInv
    OBVIOUS
  <2>1. NewCache \in CacheStates
    BY NewCacheOK, Zenon
  <2>2. \A o \in Views : /\ cache[o] = NewCache
                         /\ answers[o] = [k \in Keyspaces |-> {}]
    BY DEF Init
  <2> HIDE DEF NewCache
  <2>3. cache \in [Views -> CacheStates]
    BY <2>1 DEF Init
  <2>4. answers \in [Views -> [Keyspaces -> SUBSET (Threads \cup {"None"})]]
    BY DEF Init
  <2>5. DOMAIN key = Threads /\ \A t \in Threads : pc[t] = "idle"
    BY DEF Init
  <2>6. \A o \in Views : AnswersOK(cache[o], KeyspacesOf[version[o]], answers[o])
    BY <2>2, NewViewOK
  <2> QED
    BY <2>3, <2>4, <2>5, <2>6 DEF CacheInv
<1>2. Types /\ CacheInv /\ [Next]_vars => CacheInv'
  BY CacheStep
<1>3. IInv => Types
  BY DEF IInv
<1> QED
  BY <1>1, <1>2, <1>3, Invariance, PTL DEF Spec

\* All callers of one view agree on what they get for a keyspace, none is told None for
\* one the state has, and no node of the state is missing from its view.
THEOREM ClusterViewsFaithful == Spec => []ViewsFaithful
<1>1. CacheInv => ViewsFaithful
  <2> SUFFICES ASSUME CacheInv PROVE ViewsFaithful
    BY Zenon
  <2>1. ASSUME NEW o \in Views, NEW k \in Keyspaces
        PROVE  /\ \A v, w \in answers[o][k] : v = w
               /\ "None" \in answers[o][k] => k \notin KeyspacesOf[version[o]]
    <3>1. AnswersOK(cache[o], KeyspacesOf[version[o]], answers[o]) /\ cache[o] \in CacheStates
      BY Zenon DEF CacheInv
    <3>2. k \in DOMAIN cache[o].map => cache[o].map[k] # "None"
      BY <3>1, NamesAssumption, EntryOK, Zenon
    <3> QED
      BY <3>1, <3>2 DEF AnswersOK
  <2>2. \A t \in Threads : pc[t] # "panicked"
    BY Zenon DEF CacheInv
  <2> QED
    BY <2>1, <2>2 DEF ViewsFaithful
<1> QED
  BY <1>1, AnswersInvariance, PTL

-----------------------------------------------------------------------------
(* The plan of a request. *)

\* What the driver was given is the start of what the policy yields, the rest is still
\* in the iterator, and an exhausted iterator stopped at a target it could not use.
PlanOK(ns, st, given, rest, all) ==
  /\ given \in Seq(Nodes) /\ rest \in Seq(Nodes \cup {"bad"}) /\ all \in Seq(Nodes \cup {"bad"})
  /\ Len(given) <= Len(all)
  /\ \A i \in 1 .. Len(given) : given[i] = all[i] /\ given[i] \in ns
  /\ st \in {"idle", "planning"} => Len(all) = 0
  /\ st = "running" =>
       /\ Len(all) = Len(given) + Len(rest)
       /\ \A i \in 1 .. Len(rest) : rest[i] = all[Len(given) + i]
  /\ st = "over" /\ Len(given) < Len(all) => all[Len(given) + 1] \notin ns

PlanInv ==
  /\ DOMAIN plan = Requests /\ DOMAIN targets = Requests /\ DOMAIN asked = Requests
  /\ \A r \in Requests : PlanOK(NodesOf[cluster[r]], stage[r], plan[r], targets[r], asked[r])

\* A request without a plan has none on any other state, and may give up.
LEMMA NoPlanOK ==
  ASSUME NEW ns, NEW ms, NEW st \in {"idle", "planning"}, NEW su \in {"idle", "planning", "over"},
         NEW given, NEW rest, NEW all, PlanOK(ns, st, given, rest, all)
  PROVE  PlanOK(ms, su, given, rest, all)
<1>1. /\ given \in Seq(Nodes) /\ rest \in Seq(Nodes \cup {"bad"}) /\ all \in Seq(Nodes \cup {"bad"})
      /\ Len(given) \in Nat /\ Len(all) = 0 /\ Len(given) = 0
  BY DEF PlanOK
<1> QED
  BY <1>1 DEF PlanOK

\* Nothing asked, nothing planned.
LEMMA EmptyPlanOK ==
  ASSUME NEW ns
  PROVE  PlanOK(ns, "idle", << >>, << >>, << >>)
BY DEF PlanOK

\* pick_targets yields s and the driver takes the first target, if it can be used.
LEMMA PickOK ==
  ASSUME NEW ns \in SUBSET Nodes, NEW s \in Yields
  PROVE  IF s # << >> /\ Head(s) \in ns
           THEN PlanOK(ns, "running", <<Head(s)>>, Tail(s), s)
           ELSE PlanOK(ns, "over", << >>, << >>, s)
<1>1. s \in Seq(Nodes \cup {"bad"})
  BY DEF Yields, SeqOf
<1>2. CASE s # << >> /\ Head(s) \in ns
  <2>1. /\ Head(s) = s[1] /\ Len(s) \in Nat /\ Len(s) >= 1 /\ Tail(s) \in Seq(Nodes \cup {"bad"})
        /\ Len(Tail(s)) = Len(s) - 1 /\ \A i \in 1 .. Len(Tail(s)) : Tail(s)[i] = s[i + 1]
    BY <1>1, <1>2, EmptySeq, HeadTailProperties
  <2>2. /\ <<Head(s)>> \in Seq(Nodes) /\ Len(<<Head(s)>>) = 1 /\ <<Head(s)>>[1] = s[1]
    BY <1>2, <2>1
  <2> QED
    BY <1>1, <1>2, <2>1, <2>2 DEF PlanOK
<1>3. CASE ~(s # << >> /\ Head(s) \in ns)
  <2>1. s # << >> => Head(s) = s[1]
    BY <1>1, HeadTailProperties
  <2>2. /\ << >> \in Seq(Nodes) /\ << >> \in Seq(Nodes \cup {"bad"}) /\ Len(<< >>) = 0
        /\ Len(s) \in Nat /\ (s = << >> => Len(s) = 0)
    BY <1>1
  <2> QED
    BY <1>1, <1>3, <2>1, <2>2 DEF PlanOK
<1> QED
  BY <1>2, <1>3, Zenon

\* The driver takes one more target, or finds none that it can use.
LEMMA AdvanceOK ==
  ASSUME NEW ns \in SUBSET Nodes, NEW given, NEW rest, NEW all,
         PlanOK(ns, "running", given, rest, all)
  PROVE  IF rest # << >> /\ Head(rest) \in ns
           THEN PlanOK(ns, "running", given \o <<Head(rest)>>, Tail(rest), all)
           ELSE PlanOK(ns, "over", given, << >>, all)
<1>1. /\ given \in Seq(Nodes) /\ rest \in Seq(Nodes \cup {"bad"})
      /\ all \in Seq(Nodes \cup {"bad"})
      /\ Len(given) \in Nat /\ Len(rest) \in Nat /\ Len(all) = Len(given) + Len(rest)
      /\ \A i \in 1 .. Len(given) : given[i] = all[i] /\ given[i] \in ns
      /\ \A i \in 1 .. Len(rest) : rest[i] = all[Len(given) + i]
  BY DEF PlanOK
<1>2. CASE rest # << >> /\ Head(rest) \in ns
  <2>1. /\ Head(rest) = rest[1] /\ Len(rest) >= 1 /\ Tail(rest) \in Seq(Nodes \cup {"bad"})
        /\ Len(Tail(rest)) = Len(rest) - 1
        /\ \A i \in 1 .. Len(Tail(rest)) : Tail(rest)[i] = rest[i + 1]
    BY <1>1, <1>2, EmptySeq, HeadTailProperties
  <2> DEFINE more == given \o <<Head(rest)>>
  <2>2. /\ more \in Seq(Nodes) /\ Len(more) = Len(given) + 1
        /\ \A i \in 1 .. Len(given) : more[i] = given[i]
        /\ more[Len(given) + 1] = Head(rest)
    <3>1. <<Head(rest)>> \in Seq(Nodes) /\ Len(<<Head(rest)>>) = 1
      BY <1>2
    <3> QED
      BY <1>1, <3>1, ConcatProperties
  <2> HIDE DEF more
  <2>3. \A i \in 1 .. Len(more) : more[i] = all[i] /\ more[i] \in ns
    <3> SUFFICES ASSUME NEW i \in 1 .. Len(more) PROVE more[i] = all[i] /\ more[i] \in ns
      BY Zenon
    <3>1. CASE i \in 1 .. Len(given)
      BY <1>1, <2>2, <3>1, Zenon
    <3>2. CASE i = Len(given) + 1
      <4>1. rest[1] = all[Len(given) + 1]
        BY <1>1, <2>1
      <4> QED
        BY <1>2, <2>1, <2>2, <3>2, <4>1, Zenon
    <3> QED
      BY <1>1, <2>2, <3>1, <3>2
  <2>4. \A i \in 1 .. Len(Tail(rest)) : Tail(rest)[i] = all[Len(more) + i]
    BY <1>1, <2>1, <2>2
  <2>5. PlanOK(ns, "running", more, Tail(rest), all)
    BY <1>1, <2>1, <2>2, <2>3, <2>4 DEF PlanOK
  <2> QED
    BY <1>2, <2>5, Zenon DEF more
<1>3. CASE ~(rest # << >> /\ Head(rest) \in ns)
  <2>1. rest # << >> => Head(rest) = rest[1] /\ Len(rest) >= 1
    BY <1>1, EmptySeq, HeadTailProperties
  <2>2. << >> \in Seq(Nodes \cup {"bad"}) /\ (rest = << >> => Len(rest) = 0)
    BY <1>1
  <2>3. Len(given) < Len(all) => all[Len(given) + 1] \notin ns
    BY <1>1, <1>3, <2>1, <2>2
  <2>4. PlanOK(ns, "over", given, << >>, all)
    BY <1>1, <2>2, <2>3 DEF PlanOK
  <2> QED
    BY <1>3, <2>4, Zenon
<1> QED
  BY <1>2, <1>3, Zenon

\* Every step keeps PlanInv.
LEMMA PlanStep ==
  ASSUME Types, PlanInv, [Next]_vars
  PROVE  PlanInv'
<1> USE NamesAssumption, VersionAssumption, ContentAssumption
    DEF Types, PlanInv, stateVars, sessionVars, viewVars, threadVars, requestVars
<1>1. ASSUME NEW a \in Addrs, Refresh(a) PROVE PlanInv'
  BY <1>1, Zenon DEF Refresh
<1>2. ASSUME NEW t \in Threads, Compare(t) PROVE PlanInv'
  BY <1>2, Zenon DEF Compare
<1>3. ASSUME NEW t \in Threads, NEW o \in Views, Replace(t, o) PROVE PlanInv'
  BY <1>3, Zenon DEF Replace, NewView, FreeViews
<1>4. ASSUME NEW t \in Threads, ReplaceFails(t) PROVE PlanInv'
  BY <1>4, Zenon DEF ReplaceFails
<1>5. ASSUME NEW t \in Threads, Release(t) PROVE PlanInv'
  BY <1>5, Zenon DEF Release
<1>6. ASSUME NEW t \in Threads, NEW k \in Keyspaces, GetKeyspace(t, k) PROVE PlanInv'
  BY <1>6, Zenon DEF GetKeyspace
<1>7. ASSUME NEW t \in Threads, InsertKeyspace(t) PROVE PlanInv'
  BY <1>7, Zenon DEF InsertKeyspace
<1>8. ASSUME NEW t \in Threads, GetKeyspaces(t) PROVE PlanInv'
  BY <1>8, Zenon DEF GetKeyspaces
<1>9. ASSUME NEW t \in Threads, FreezeKeyspaces(t) PROVE PlanInv'
  BY <1>9, Zenon DEF FreezeKeyspaces
<1>10. ASSUME NEW t \in Threads, BuildFails(t) PROVE PlanInv'
  BY <1>10, Zenon DEF BuildFails
<1>11. ASSUME NEW t \in Threads, NEW ns \in SUBSET Nodes, Replicas(t, ns) PROVE PlanInv'
  BY <1>11, Zenon DEF Replicas
<1>12. ASSUME NEW r \in Requests, StartRequest(r) PROVE PlanInv'
  <2>1. /\ UNCHANGED <<plan, targets, asked>> /\ stage[r] = "idle"
        /\ stage' = [stage EXCEPT ![r] = "planning"]
        /\ cluster' = [cluster EXCEPT ![r] = current]
    BY <1>12, Zenon DEF StartRequest
  <2>2. PlanOK(NodesOf[current], "planning", plan[r], targets[r], asked[r])
    <3>1. PlanOK(NodesOf[cluster[r]], stage[r], plan[r], targets[r], asked[r])
      BY Zenon
    <3> HIDE DEF Types, PlanInv
    <3> QED
      BY <2>1, <3>1, NoPlanOK
  <2> QED
    BY <2>1, <2>2, Zenon
<1>13. ASSUME NEW r \in Requests, NEW o \in Views, ShowCluster(r, o) PROVE PlanInv'
  BY <1>13, Zenon DEF ShowCluster, NewView, FreeViews
<1>14. ASSUME NEW r \in Requests, NEW s \in Yields, PickTargets(r, s) PROVE PlanInv'
  <2> DEFINE ns == NodesOf[cluster[r]]
             ok == s # << >> /\ Head(s) \in ns
  <2>1. /\ asked' = [asked EXCEPT ![r] = s] /\ UNCHANGED cluster
        /\ plan' = [plan EXCEPT ![r] = IF ok THEN <<Head(s)>> ELSE << >>]
        /\ targets' = [targets EXCEPT ![r] = IF ok THEN Tail(s) ELSE << >>]
        /\ stage' = [stage EXCEPT ![r] = IF ok THEN "running" ELSE "over"]
    BY <1>14, Zenon DEF PickTargets, NextTarget
  <2>2. ns \in SUBSET Nodes
    OBVIOUS
  <2>3. IF ok THEN PlanOK(ns, "running", <<Head(s)>>, Tail(s), s)
              ELSE PlanOK(ns, "over", << >>, << >>, s)
    BY <2>2, PickOK, Zenon
  <2> HIDE DEF ok
  <2> QED
    BY <2>1, <2>3, Zenon
<1>15. ASSUME NEW r \in Requests, PlanFails(r) PROVE PlanInv'
  <2>1. /\ UNCHANGED <<plan, targets, asked, cluster>> /\ stage[r] = "planning"
        /\ stage' = [stage EXCEPT ![r] = "over"]
    BY <1>15 DEF PlanFails
  <2>2. PlanOK(NodesOf[cluster[r]], "over", plan[r], targets[r], asked[r])
    <3>1. PlanOK(NodesOf[cluster[r]], stage[r], plan[r], targets[r], asked[r])
      OBVIOUS
    <3> HIDE DEF Types, PlanInv
    <3> QED
      BY <2>1, <3>1, NoPlanOK, Zenon
  <2> QED
    BY <2>1, <2>2, Zenon
<1>16. ASSUME NEW r \in Requests, Advance(r) PROVE PlanInv'
  <2> DEFINE ns == NodesOf[cluster[r]]
             rest == targets[r]
             ok == rest # << >> /\ Head(rest) \in ns
             more == plan[r] \o <<Head(rest)>>
  <2>0. plan[r] \o << >> = plan[r]
    <3>1. plan[r] \in Seq(Nodes)
      BY Zenon DEF PlanOK
    <3> QED
      BY <3>1, ConcatEmptySeq, Zenon
  <2>1. /\ UNCHANGED <<asked, cluster>>
        /\ plan' = [plan EXCEPT ![r] = IF ok THEN more ELSE plan[r]]
        /\ targets' = [targets EXCEPT ![r] = IF ok THEN Tail(rest) ELSE << >>]
        /\ stage' = [stage EXCEPT ![r] = IF ok THEN "running" ELSE "over"]
    BY <1>16, <2>0, Zenon DEF Advance, NextTarget
  <2>2. ns \in SUBSET Nodes /\ PlanOK(ns, "running", plan[r], rest, asked[r])
    BY <1>16 DEF Advance
  <2>3. IF ok THEN PlanOK(ns, "running", more, Tail(rest), asked[r])
              ELSE PlanOK(ns, "over", plan[r], << >>, asked[r])
    BY <2>2, AdvanceOK, Zenon
  <2> HIDE DEF ok, more
  <2> QED
    BY <2>1, <2>3, Zenon
<1>17. ASSUME NEW r \in Requests, EndRequest(r) PROVE PlanInv'
  <2>1. /\ plan' = [plan EXCEPT ![r] = << >>] /\ targets' = [targets EXCEPT ![r] = << >>]
        /\ asked' = [asked EXCEPT ![r] = << >>] /\ stage' = [stage EXCEPT ![r] = "idle"]
        /\ cluster' = [cluster EXCEPT ![r] = 1]
    BY <1>17 DEF EndRequest
  <2>2. PlanOK(NodesOf[1], "idle", << >>, << >>, << >>)
    BY EmptyPlanOK
  <2> QED
    BY <2>1, <2>2, Zenon
<1>18. CASE UNCHANGED vars
  BY <1>18, Zenon DEF vars
<1> HIDE DEF Types, PlanInv
<1> QED
  BY <1>1, <1>2, <1>3, <1>4, <1>5, <1>6, <1>7, <1>8, <1>9, <1>10, <1>11, <1>12, <1>13, <1>14,
     <1>15, <1>16, <1>17, <1>18
  DEF Next, ThreadNext, RequestNext

\* Every plan follows what the policy yields.
LEMMA PlansInvariance == Spec => []PlanInv
<1>1. Init => PlanInv
  <2> SUFFICES ASSUME Init PROVE PlanInv
    OBVIOUS
  <2>1. \A r \in Requests : /\ stage[r] = "idle"
                            /\ plan[r] = << >> /\ targets[r] = << >> /\ asked[r] = << >>
    BY Zenon DEF Init
  <2>2. DOMAIN plan = Requests /\ DOMAIN targets = Requests /\ DOMAIN asked = Requests
    BY DEF Init
  <2> QED
    BY <2>1, <2>2, EmptyPlanOK, Zenon DEF PlanInv
<1>2. Types /\ PlanInv /\ [Next]_vars => PlanInv'
  BY PlanStep
<1>3. IInv => Types
  BY DEF IInv
<1> QED
  BY <1>1, <1>2, <1>3, Invariance, PTL DEF Spec

\* Whatever a load-balancing policy yields and however requests and refreshes
\* interleave, the driver tries the targets the policy chose for this request.
THEOREM ClusterPlanFollowsPolicy == Spec => []PlanFollowsPolicy
<1>1. ShownInv /\ PlanInv => PlanFollowsPolicy
  <2> SUFFICES ASSUME ShownInv, PlanInv, NEW r \in Requests
               PROVE  /\ shown[r] # "none" => version[shown[r]] = cluster[r]
                      /\ IsPrefix(plan[r], asked[r])
                      /\ \A i \in DOMAIN plan[r] : plan[r][i] \in NodesOf[cluster[r]]
                      /\ stage[r] = "over" /\ Len(plan[r]) < Len(asked[r]) =>
                           asked[r][Len(plan[r]) + 1] \notin NodesOf[cluster[r]]
    BY Zenon DEF PlanFollowsPolicy
  <2>1. shown[r] # "none" => version[shown[r]] = cluster[r]
    BY Zenon DEF ShownInv
  <2> DEFINE s == plan[r]
             t == asked[r]
  <2>2. PlanOK(NodesOf[cluster[r]], stage[r], s, targets[r], t)
    BY Zenon DEF PlanInv
  <2> HIDE DEF s, t
  <2>3. /\ s \in Seq(Nodes) /\ t \in Seq(Nodes \cup {"bad"}) /\ Len(s) \in Nat /\ Len(t) \in Nat
        /\ Len(s) <= Len(t) /\ DOMAIN s = 1 .. Len(s) /\ \A i \in 1 .. Len(s) : s[i] = t[i]
    BY <2>2 DEF PlanOK
  <2>4. SubSeq(s, 1, Len(s)) = SubSeq(t, 1, Len(s))
    BY <2>3
  <2>5. IsPrefix(s, t)
    BY <2>3, <2>4 DEF IsPrefix
  <2> QED
    BY <2>1, <2>2, <2>3, <2>5, Zenon DEF PlanOK, s, t
<1>2. IInv => ShownInv
  BY DEF IInv
<1> QED
  BY <1>1, <1>2, Invariance, PlansInvariance, PTL
=============================================================================
