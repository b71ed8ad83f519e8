---------------------------- MODULE ClusterViews ----------------------------
(***************************************************************************)
(* The Python views of the cluster's metadata. The Rust driver replaces    *)
(* its ClusterState whenever it refreshes; Python sees a state through a   *)
(* PyClusterState (src/src/cluster/state.rs), of which                     *)
(*   - SessionCore keeps one and replaces it when the driver's differs;    *)
(*   - a CustomLoadBalancingPolicy keeps one for the requests it plans;    *)
(*   - threads hold those they were given, however old.                    *)
(* Both decide by comparing addresses, and the allocator reuses the        *)
(* address of a state nobody holds an Arc to.                              *)
(***************************************************************************)
EXTENDS Naturals, Sequences, SequencesExt, Cache

CONSTANTS Threads,      \* Python threads reading metadata
          Requests,     \* requests the driver plans with a custom policy
          MaxVersion,   \* metadata refreshes, the first state included
          Addrs,        \* addresses of ClusterState objects
          Views,        \* identities of PyClusterState objects, reused when free
          Keyspaces,    \* keyspace names, existing or not
          KeyspacesOf,  \* the keyspaces of each version of the state
          Nodes,        \* host ids
          NodesOf,      \* the nodes of each version
          MaxPlan       \* targets a policy returns at most

Versions == 1..MaxVersion

ASSUME VersionAssumption == MaxVersion \in Nat \ {0}
ASSUME ContentAssumption == /\ KeyspacesOf \in [Versions -> SUBSET Keyspaces]
                            /\ NodesOf \in [Versions -> SUBSET Nodes]
ASSUME NamesAssumption == /\ "none" \notin Views \cup Threads
                          /\ "None" \notin Threads /\ "bad" \notin Nodes

VARIABLES
  current,   \* the version the driver publishes
  addr,      \* the address each version was allocated at
  snapshot,  \* SessionCore.cluster_state
  lock,      \* the thread that holds the snapshot's mutex, or "none"
  policy,    \* cluster_cache of the policy, or "none"
  version,   \* PyClusterState.inner of each view
  known,     \* PyClusterState.known_nodes
  cache,     \* PyClusterState.keyspaces
  pc,        \* what each thread does
  held,      \* the view each thread works with, or "none"
  began,     \* the version published when the thread called cluster_state
  key,       \* the keyspace a thread asks for
  stage,     \* each request: "idle", "planning", "running"
  cluster,   \* the version a request is planned on
  shown,     \* the view its policy was given, or "none"
  targets,   \* what pick_targets still has to yield
  plan,      \* the targets the driver took
  asked,     \* history: all that pick_targets yields
  answers    \* history: what each view returned for each keyspace

stateVars == <<current, addr>>
sessionVars == <<snapshot, lock>>
viewVars == <<version, known, cache, answers>>
threadVars == <<pc, held, began, key>>
requestVars == <<stage, cluster, shown, targets, plan, asked>>
vars == <<stateVars, sessionVars, policy, viewVars, threadVars, requestVars>>

\* PyClusterState objects somebody refers to.
LiveViews == {snapshot} \cup {policy} \cup Range(held) \cup Range(shown)
FreeViews == {o \in Views : o \notin LiveViews}

\* Mutant: what the policy caches does not keep its state alive.
LiveVersionsButPolicy ==
  {current} \cup {version[o] : o \in Views \cap ({snapshot} \cup Range(held))}
            \cup {began[t] : t \in {u \in Threads : pc[u] = "replace"}}
            \cup {cluster[r] : r \in {q \in Requests : stage[q] # "idle"}}

\* Mutant: what the session caches does not keep its state alive.
LiveVersionsButSnapshot ==
  {current} \cup {version[o] : o \in Views \cap ({policy} \cup Range(held))}
            \cup {began[t] : t \in {u \in Threads : pc[u] = "replace"}}
            \cup {cluster[r] : r \in {q \in Requests : stage[q] # "idle"}}

\* States with a strong count: published, inside a view, compared by a thread that
\* holds the mutex, or borrowed by a plan.
LiveVersions ==
  {current} \cup {version[o] : o \in Views \cap LiveViews}
            \cup {began[t] : t \in {u \in Threads : pc[u] = "replace"}}
            \cup {cluster[r] : r \in {q \in Requests : stage[q] # "idle"}}

\* PyClusterState::try_from: a fresh object o for the state v.
NewView(o, v) ==
  /\ version' = [version EXCEPT ![o] = v]
  /\ known' = [known EXCEPT ![o] = NodesOf[v]]
  /\ cache' = [cache EXCEPT ![o] = NewCache]
  /\ answers' = [answers EXCEPT ![o] = [k \in Keyspaces |-> {}]]

Init ==
  \E a \in Addrs, o \in Views :
    /\ current = 1 /\ addr = [v \in Versions |-> a]
    /\ snapshot = o /\ lock = "none" /\ policy = "none"
    /\ version = [p \in Views |-> 1]
    /\ known = [p \in Views |-> NodesOf[1]]
    /\ cache = [p \in Views |-> NewCache]
    /\ answers = [p \in Views |-> [k \in Keyspaces |-> {}]]
    /\ pc = [t \in Threads |-> "idle"] /\ held = [t \in Threads |-> "none"]
    /\ began = [t \in Threads |-> 1]
    /\ key = [t \in Threads |-> CHOOSE k \in Keyspaces : TRUE]
    /\ stage = [r \in Requests |-> "idle"] /\ cluster = [r \in Requests |-> 1]
    /\ shown = [r \in Requests |-> "none"]
    /\ targets = [r \in Requests |-> << >>]
    /\ plan = [r \in Requests |-> << >>] /\ asked = [r \in Requests |-> << >>]

\* The driver publishes a new state, allocated at an address that is free.
Refresh(a) ==
  /\ current < MaxVersion
  /\ \A v \in LiveVersions : addr[v] # a
  /\ current' = current + 1
  /\ addr' = [addr EXCEPT ![current + 1] = a]
  /\ UNCHANGED <<sessionVars, policy, viewVars, threadVars, requestVars>>

-----------------------------------------------------------------------------
(* SessionCore::cluster_state. *)

\* The mutex is taken and the published state compared with the snapshot's.
Compare(t) ==
  /\ pc[t] = "idle" /\ lock = "none"
  /\ began' = [began EXCEPT ![t] = current]
  /\ IF addr[current] = addr[version[snapshot]]
       THEN /\ held' = [held EXCEPT ![t] = snapshot]
            /\ UNCHANGED <<lock, pc>>
       ELSE /\ lock' = t
            /\ pc' = [pc EXCEPT ![t] = "replace"]
            /\ held' = [held EXCEPT ![t] = "none"]
  /\ UNCHANGED <<stateVars, snapshot, policy, viewVars, key, requestVars>>

\* It differs: read the published state again, it may be newer still, and store
\* a view of it.
Replace(t, o) ==
  /\ pc[t] = "replace" /\ o \in FreeViews
  /\ NewView(o, current)
  /\ snapshot' = o /\ lock' = "none"
  /\ pc' = [pc EXCEPT ![t] = "idle"]
  /\ held' = [held EXCEPT ![t] = o]
  /\ UNCHANGED <<stateVars, policy, began, key, requestVars>>

\* The view could not be built: the error releases the mutex, the snapshot stays.
ReplaceFails(t) ==
  /\ pc[t] = "replace"
  /\ lock' = "none"
  /\ pc' = [pc EXCEPT ![t] = "idle"]
  /\ UNCHANGED <<stateVars, snapshot, policy, viewVars, held, began, key, requestVars>>

\* The thread drops the view it holds.
Release(t) ==
  /\ pc[t] = "idle" /\ held[t] # "none"
  /\ held' = [held EXCEPT ![t] = "none"]
  /\ UNCHANGED <<stateVars, sessionVars, policy, viewVars, pc, began, key, requestVars>>

-----------------------------------------------------------------------------
(* Keyspaces of a view, through its cache. *)

\* A caller of view o gets v for the keyspace k.
Answer(o, k, v) == answers' = [answers EXCEPT ![o][k] = @ \cup {v}]

\* A caller of view o gets a whole mapping.
AnswerAll(o, c) ==
  answers' = [answers EXCEPT ![o] = [k \in Keyspaces |->
                @[k] \cup {IF k \in DOMAIN c.view THEN c.view[k] ELSE "None"}]]

\* get_keyspace, under the read lock: answered at once, or the keyspace does not
\* exist, or its object is built with the lock released.
GetKeyspace(t, k) ==
  LET o == held[t]
      c == cache[o] IN
  /\ pc[t] = "idle" /\ o # "none"
  /\ IF Answered(c, k)
       THEN Answer(o, k, Lookup(c, k)) /\ UNCHANGED <<pc, key>>
       ELSE IF k \notin KeyspacesOf[version[o]]
         THEN Answer(o, k, "None") /\ UNCHANGED <<pc, key>>
         ELSE /\ pc' = [pc EXCEPT ![t] = "built"]
              /\ key' = [key EXCEPT ![t] = k]
              /\ UNCHANGED answers
  /\ UNCHANGED <<stateVars, sessionVars, policy, version, known, cache, held, began,
                 requestVars>>

\* get_keyspace, under the write lock.
InsertKeyspace(t) ==
  LET o == held[t]
      c == Insert(cache[o], key[t], t) IN
  /\ pc[t] = "built"
  /\ cache' = [cache EXCEPT ![o] = c]
  /\ Answer(o, key[t], Lookup(c, key[t]))
  /\ pc' = [pc EXCEPT ![t] = "idle"]
  /\ UNCHANGED <<stateVars, sessionVars, policy, version, known, held, began, key,
                 requestVars>>

\* get_keyspaces, under the read lock: the view of a frozen cache, or objects
\* for all keyspaces are built with the lock released.
GetKeyspaces(t) ==
  LET o == held[t] IN
  /\ pc[t] = "idle" /\ o # "none"
  /\ IF cache[o].frozen
       THEN AnswerAll(o, cache[o]) /\ UNCHANGED pc
       ELSE pc' = [pc EXCEPT ![t] = "collected"] /\ UNCHANGED answers
  /\ UNCHANGED <<stateVars, sessionVars, policy, version, known, cache, held, began,
                 key, requestVars>>

\* get_keyspaces, under the write lock.
FreezeKeyspaces(t) ==
  LET o == held[t]
      c == Freeze(cache[o], KeyspacesOf[version[o]], t) IN
  /\ pc[t] = "collected"
  /\ cache' = [cache EXCEPT ![o] = c]
  /\ AnswerAll(o, c)
  /\ pc' = [pc EXCEPT ![t] = "idle"]
  /\ UNCHANGED <<stateVars, sessionVars, policy, version, known, held, began, key,
                 requestVars>>

\* A Python object could not be built, or the dict not filled: the error leaves
\* the cache as it was.
BuildFails(t) ==
  /\ pc[t] \in {"built", "collected"}
  /\ pc' = [pc EXCEPT ![t] = "idle"]
  /\ UNCHANGED <<stateVars, sessionVars, policy, viewVars, held, began, key, requestVars>>

\* get_endpoints, get_token_endpoints and the replica locator: nodes ns the
\* state of the view names are looked up in known_nodes; a missing one panics.
Replicas(t, ns) ==
  LET o == held[t] IN
  /\ pc[t] = "idle" /\ o # "none" /\ ns \subseteq NodesOf[version[o]]
  /\ pc' = [pc EXCEPT ![t] = IF ns \subseteq known[o] THEN "idle" ELSE "panicked"]
  /\ UNCHANGED <<stateVars, sessionVars, policy, viewVars, held, began, key, requestVars>>

-----------------------------------------------------------------------------
(* CustomLoadBalancingPolicy: pick leaves the plan to fallback. *)

\* The driver plans request r on the state it loaded. A plan borrows that state
\* until the request is over.
StartRequest(r) ==
  /\ stage[r] = "idle"
  /\ stage' = [stage EXCEPT ![r] = "planning"]
  /\ cluster' = [cluster EXCEPT ![r] = current]
  /\ UNCHANGED <<stateVars, sessionVars, policy, viewVars, threadVars, shown, targets, plan,
                 asked>>

\* get_cluster_state, under the policy's mutex: the cached view if it is of the
\* state at this address, a new one, which replaces it, otherwise.
ShowCluster(r, o) ==
  /\ stage[r] = "planning" /\ shown[r] = "none"
  /\ IF policy # "none" /\ addr[version[policy]] = addr[cluster[r]]
       THEN /\ o = policy
            /\ UNCHANGED <<policy, viewVars>>
       ELSE /\ o \in FreeViews
            /\ NewView(o, cluster[r])
            /\ policy' = o
  /\ shown' = [shown EXCEPT ![r] = o]
  /\ UNCHANGED <<stateVars, sessionVars, threadVars, stage, cluster, targets, plan, asked>>

\* What pick_targets may yield: nodes of any state, the policy may have kept them,
\* or "bad": an item that is no (Node, shard) pair, or an exception.
Yields == SeqOf(Nodes \cup {"bad"}, MaxPlan)

\* extract_next_target: the next target, unless there is none, it is bad, or its
\* node is unknown to the state of the request.
NextTarget(r, s) == IF s # << >> /\ Head(s) \in NodesOf[cluster[r]] THEN <<Head(s)>> ELSE << >>

\* fallback calls pick_targets and takes the first target eagerly.
PickTargets(r, s) ==
  /\ stage[r] = "planning" /\ shown[r] # "none"
  /\ asked' = [asked EXCEPT ![r] = s]
  /\ plan' = [plan EXCEPT ![r] = NextTarget(r, s)]
  /\ targets' = [targets EXCEPT ![r] = IF NextTarget(r, s) = << >> THEN << >> ELSE Tail(s)]
  /\ stage' = [stage EXCEPT ![r] = IF NextTarget(r, s) = << >> THEN "over" ELSE "running"]
  /\ shown' = [shown EXCEPT ![r] = "none"]
  /\ UNCHANGED <<stateVars, sessionVars, policy, viewVars, threadVars, cluster>>

\* Building the view, calling pick_targets or iterating over its result failed:
\* the plan is empty.
PlanFails(r) ==
  /\ stage[r] = "planning"
  /\ stage' = [stage EXCEPT ![r] = "over"]
  /\ shown' = [shown EXCEPT ![r] = "none"]
  /\ UNCHANGED <<stateVars, sessionVars, policy, viewVars, threadVars, cluster, targets,
                 plan, asked>>

\* PyTargetsIter::next, after the first: the driver wants another target; none
\* exhausts the iterator.
Advance(r) ==
  /\ stage[r] = "running"
  /\ LET next == NextTarget(r, targets[r]) IN
       /\ plan' = [plan EXCEPT ![r] = @ \o next]
       /\ stage' = [stage EXCEPT ![r] = IF next = << >> THEN "over" ELSE @]
       /\ targets' = [targets EXCEPT ![r] = IF next = << >> THEN << >> ELSE Tail(@)]
  /\ UNCHANGED <<stateVars, sessionVars, policy, viewVars, threadVars, cluster, shown, asked>>

\* The request is over: it needs no further target.
EndRequest(r) ==
  /\ stage[r] \in {"running", "over"}
  /\ stage' = [stage EXCEPT ![r] = "idle"]
  /\ targets' = [targets EXCEPT ![r] = << >>]
  /\ plan' = [plan EXCEPT ![r] = << >>]
  /\ asked' = [asked EXCEPT ![r] = << >>]
  /\ cluster' = [cluster EXCEPT ![r] = 1]
  /\ UNCHANGED <<stateVars, sessionVars, policy, viewVars, threadVars, shown>>

ThreadNext(t) ==
  \/ Compare(t) \/ ReplaceFails(t) \/ Release(t)
  \/ \E o \in Views : Replace(t, o)
  \/ \E k \in Keyspaces : GetKeyspace(t, k)
  \/ InsertKeyspace(t) \/ GetKeyspaces(t) \/ FreezeKeyspaces(t) \/ BuildFails(t)
  \/ \E ns \in SUBSET Nodes : Replicas(t, ns)

RequestNext(r) ==
  \/ StartRequest(r) \/ PlanFails(r) \/ Advance(r) \/ EndRequest(r)
  \/ \E o \in Views : ShowCluster(r, o)
  \/ \E s \in Yields : PickTargets(r, s)

Next ==
  \/ \E a \in Addrs : Refresh(a)
  \/ \E t \in Threads : ThreadNext(t)
  \/ \E r \in Requests : RequestNext(r)

Spec == Init /\ [][Next]_vars

-----------------------------------------------------------------------------

\* A thread that calls SessionCore.cluster_state never gets metadata older than
\* what the driver had published when it called, however often the driver
\* refreshes meanwhile and whatever addresses it reuses.
SnapshotFresh ==
  [][\A t \in Threads : held'[t] \notin {held[t], "none"} \/ began'[t] # began[t] =>
        (held'[t] # "none" => version'[held'[t]] >= began'[t])]_vars

\* Every caller who asks one view for one keyspace gets the same object, by
\* get_keyspace or through the mapping of keyspaces and in any interleaving of
\* the two; None only for a keyspace the state does not have; and every node the
\* state names is found among the view's nodes.
ViewsFaithful ==
  /\ \A o \in Views, k \in Keyspaces :
       /\ \A v, w \in answers[o][k] : v = w
       /\ "None" \in answers[o][k] => k \notin KeyspacesOf[version[o]]
  /\ \A t \in Threads : pc[t] # "panicked"

\* The policy plans a request on a view of the state the driver plans it on, and
\* the driver tries a prefix of what the policy yields, all of it up to the first
\* item that is bad or no node of that state once the plan is exhausted.
PlanFollowsPolicy ==
  \A r \in Requests :
    /\ shown[r] # "none" => version[shown[r]] = cluster[r]
    /\ IsPrefix(plan[r], asked[r])
    /\ \A i \in DOMAIN plan[r] : plan[r][i] \in NodesOf[cluster[r]]
    /\ stage[r] = "over" /\ Len(plan[r]) < Len(asked[r]) =>
         asked[r][Len(plan[r]) + 1] \notin NodesOf[cluster[r]]
=============================================================================
