------------------------------ MODULE ApiServer ------------------------------
(***************************************************************************)
(* The Kubernetes API server and the informer caches, as the controllers   *)
(* of this repository use them (external code: the API server and the      *)
(* cache of controller-runtime are not part of the repository).            *)
(*                                                                         *)
(* The API server is the list of the events it has emitted: one log for    *)
(* the vnodes, one for the module deployments.  An event holds the world   *)
(* after it, so that "what a reader saw at position i" is NodeStore(i) or  *)
(* DepStore(i).  An informer cache is a position in a log: it delivers     *)
(* the events in order and never skips one.  The two caches of a process   *)
(* are independent, so each may trail the API server by any amount.        *)
(*                                                                         *)
(* A process starts with empty caches and lists what exists; its log       *)
(* begins with one event per listed object, in any order (Listing).        *)
(***************************************************************************)
EXTENDS Integers, Sequences, FiniteSets

CONSTANTS
    Node,               \* the vnodes (every base instance is one)
    Deployment,         \* the deployments a label selector can reach
    Cluster,            \* values of the base cluster-name label
    NoCluster,          \* the label is missing or empty
    NodeCluster,        \* getClusterNameFromNode of each vnode
    DepCluster,         \* getClusterNameFromDeployment of each deployment
    EditReplicas,       \* replica counts a user may write
    Scenarios           \* bound: the worlds the process may start in, each with
                        \* the number of status changes of vnodes, edits by
                        \* users, failing calls and restarts that follow

ASSUME NodeAssumption == IsFiniteSet(Node) /\ IsFiniteSet(Deployment)
ASSUME ClusterAssumption ==
    /\ NoCluster \notin Cluster
    /\ NodeCluster \in [Node -> Cluster \cup {NoCluster}]
    /\ DepCluster \in [Deployment -> Cluster \cup {NoCluster}]
ASSUME BoundAssumption == EditReplicas \subseteq Nat

VARIABLES
    nodeLog,        \* events of vnodes since the process listed them
    depLog,         \* events of deployments since the process listed them
    listed,         \* how many of each log's events are the initial listing
    nodeCacheAt,    \* events the vnode cache has applied
    depCacheAt,     \* events the deployment cache has applied
    budget          \* what is left of each bound

apiVars == <<nodeLog, depLog, listed, nodeCacheAt, depCacheAt, budget>>

(* A vnode counts as ready when its phase is Running and its Ready         *)
(* condition is True; every other status is "notReady".                    *)
NodeStatus == {"absent", "notReady", "ready"}

(* "peer": strategy label peer; "skip": peer with the label that switches  *)
(* replica control off; "scale": any other strategy.                       *)
Mode == {"peer", "skip", "scale"}

DepState == [exists : BOOLEAN, mode : Mode, replicas : Nat]
NoDep == [exists |-> FALSE, mode |-> "scale", replicas |-> 0]
UserStates == {NoDep} \cup [exists : {TRUE}, mode : Mode, replicas : EditReplicas]

NodeWorld == [Node -> NodeStatus]
DepWorld == [Deployment -> DepState]
NodeEvent == [node : Node, world : NodeWorld]
DepEvent == [dep : Deployment, world : DepWorld]

Budget == [nodes : Nat, edits : Nat, faults : Nat, restarts : Nat]

ASSUME ScenarioAssumption ==
    Scenarios \subseteq [nodes : NodeWorld, deps : DepWorld, budget : Budget]

(* The content of a cache that has applied the first i events.             *)
NodeStore(i) == IF i = 0 THEN [n \in Node |-> "absent"] ELSE nodeLog[i].world
DepStore(i) == IF i = 0 THEN [d \in Deployment |-> NoDep] ELSE depLog[i].world

(* What the API server holds now.                                          *)
Nodes == NodeStore(Len(nodeLog))
Deps == DepStore(Len(depLog))

ReadyNodes(world, c) == {n \in Node : world[n] = "ready" /\ NodeCluster[n] = c}

(* The caches never run ahead of the server.                               *)
ApiTypeOK ==
    /\ nodeLog \in Seq(NodeEvent)
    /\ depLog \in Seq(DepEvent)
    /\ listed \in [nodes : Nat, deps : Nat]
    /\ nodeCacheAt \in 0 .. Len(nodeLog)
    /\ depCacheAt \in 0 .. Len(depLog)
    /\ budget \in Budget

-----------------------------------------------------------------------------
(* Listings: one event per existing object, in some order.                 *)
Orders(S) == {s \in [1 .. Cardinality(S) -> S] :
                \A i, j \in DOMAIN s : s[i] = s[j] => i = j}

NodeListing(world, s) ==
    [i \in 1 .. Len(s) |->
        [node |-> s[i],
         world |-> [n \in Node |->
            IF \E j \in 1 .. i : s[j] = n THEN world[n] ELSE "absent"]]]

DepListing(world, s) ==
    [i \in 1 .. Len(s) |->
        [dep |-> s[i],
         world |-> [d \in Deployment |->
            IF \E j \in 1 .. i : s[j] = d THEN world[d] ELSE NoDep]]]

NodeListings(world) ==
    {NodeListing(world, s) : s \in Orders({n \in Node : world[n] # "absent"})}
DepListings(world) ==
    {DepListing(world, s) : s \in Orders({d \in Deployment : world[d].exists})}

(* The process starts again: empty caches and fresh listings.              *)
StartFrom(nodes, deps) ==
    /\ nodeLog' = nodes
    /\ depLog' = deps
    /\ listed' = [nodes |-> Len(nodes), deps |-> Len(deps)]
    /\ nodeCacheAt' = 0
    /\ depCacheAt' = 0

ApiInit ==
    /\ \E s \in Scenarios :
          /\ nodeLog \in NodeListings(s.nodes)
          /\ depLog \in DepListings(s.deps)
          /\ budget = s.budget
    /\ listed = [nodes |-> Len(nodeLog), deps |-> Len(depLog)]
    /\ nodeCacheAt = 0
    /\ depCacheAt = 0

-----------------------------------------------------------------------------
(* A vnode appears, disappears or changes its readiness.                   *)
ChangeNode(n, status) ==
    /\ budget.nodes > 0
    /\ Nodes[n] # status
    /\ nodeLog' = Append(nodeLog,
            [node |-> n, world |-> [Nodes EXCEPT ![n] = status]])
    /\ budget' = [budget EXCEPT !.nodes = @ - 1]
    /\ UNCHANGED <<depLog, listed, nodeCacheAt, depCacheAt>>

(* A write that changes nothing produces no event.                         *)
WriteDeployment(d, state) ==
    depLog' = IF Deps[d] = state THEN depLog
              ELSE Append(depLog, [dep |-> d,
                                   world |-> [Deps EXCEPT ![d] = state]])

(* A user creates, deletes, scales or relabels a deployment.               *)
EditDeployment(d, state) ==
    /\ budget.edits > 0
    /\ Deps[d] # state
    /\ WriteDeployment(d, state)
    /\ budget' = [budget EXCEPT !.edits = @ - 1]
    /\ UNCHANGED <<nodeLog, listed, nodeCacheAt, depCacheAt>>

(* An informer applies the next event to its cache.                        *)
DeliverNodeEvent ==
    /\ nodeCacheAt < Len(nodeLog)
    /\ nodeCacheAt' = nodeCacheAt + 1
    /\ UNCHANGED <<nodeLog, depLog, listed, depCacheAt, budget>>

DeliverDepEvent ==
    /\ depCacheAt < Len(depLog)
    /\ depCacheAt' = depCacheAt + 1
    /\ UNCHANGED <<nodeLog, depLog, listed, nodeCacheAt, budget>>

(* WaitForCacheSync: every listed object is in the cache.                  *)
CachesSynced == nodeCacheAt >= listed.nodes /\ depCacheAt >= listed.deps

(* A call fails, within the bound.                                         *)
Fault == /\ budget.faults > 0
         /\ budget' = [budget EXCEPT !.faults = @ - 1]
=============================================================================
