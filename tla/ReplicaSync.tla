----------------------------- MODULE ReplicaSync -----------------------------
(***************************************************************************)
(* ModuleDeploymentController: keeps the replicas of every deployment with *)
(* the strategy label "peer" equal to the number of ready vnodes of its    *)
(* base cluster (src/controller/module_deployment_controller).             *)
(*                                                                         *)
(* Three goroutines run concurrently in one process: the initial sync of   *)
(* SetupWithManager ("init") and the informer callbacks for vnodes         *)
(* ("node") and deployments ("dep").  Each collects a snapshot of          *)
(* deployments first and only then waits for the single update token       *)
(* (updateToken, a channel of capacity one), so what it compares against   *)
(* may be old by the time it holds the token.  The vnodes are counted      *)
(* under the token, from a cache that trails the API server.               *)
(*                                                                         *)
(* A Restart loses the process: queues, snapshots and caches are gone, the *)
(* cluster is listed again.                                                *)
(***************************************************************************)
EXTENDS ApiServer

CONSTANTS
    NodeWatched,        \* does VNodePredicates let the vnode's events through
    DepManaged,         \* does ModuleDeploymentPredicates: component and env
    EnableSync,         \* ENABLE_MODULE_REPLICAS_SYNC_WITH_BASE is "true"
    Gone                \* stands for the replicas of no deployment (see Follower)

ASSUME SelectorAssumption ==
    /\ NodeWatched \in [Node -> BOOLEAN]
    /\ DepManaged \in [Deployment -> BOOLEAN]
    /\ EnableSync \in BOOLEAN
ASSUME GoneAssumption == Gone \notin Nat

VARIABLES
    token,          \* elements in updateToken
    worker,         \* the three goroutines
    nodeHandled,    \* vnode events the callback has taken
    depHandled,     \* deployment events the callback has taken
    appliedAt,      \* history: node-cache position of each one's last patch
    missed          \* history: deployments a failed call of this process hit

ctlVars == <<token, worker, nodeHandled, depHandled, appliedAt, missed>>
vars == <<apiVars, ctlVars>>

Worker == {"init", "node", "dep"}

(* idle -> waiting (snapshot taken, blocked on the token) -> holding ->    *)
(* idle; the initial sync runs once and is done.                           *)
WorkerState == [
    pc : {"idle", "waiting", "holding", "done"},
    at : Nat,                       \* deployment-cache position of the snapshot
    todo : SUBSET Deployment,       \* deployments of the snapshot not yet seen
    patching : SUBSET Deployment,   \* the one whose patch is being sent
    count : Nat,                    \* its ready-vnode count
    readAt : Nat]                   \* node-cache position of that count

Idle == [pc |-> "idle", at |-> 0, todo |-> {}, patching |-> {},
         count |-> 0, readAt |-> 0]
Done == [Idle EXCEPT !.pc = "done"]
Waiting(at, deps) == [Idle EXCEPT !.pc = "waiting", !.at = at, !.todo = deps]

Init ==
    /\ ApiInit
    /\ token = 1
    /\ worker = [w \in Worker |-> Idle]
    /\ nodeHandled = 0
    /\ depHandled = 0
    /\ appliedAt = [d \in Deployment |-> 0]
    /\ missed = {}

-----------------------------------------------------------------------------
(* Snapshots.                                                              *)

(* The initial list: own component and environment, any strategy.          *)
OwnDeployments(at) == {d \in Deployment : DepStore(at)[d].exists /\ DepManaged[d]}

(* GetRelatedDeploymentsByNode lists by the strategy label alone.          *)
RelatedDeployments(at, cluster) ==
    {d \in Deployment :
        /\ DepStore(at)[d].exists
        /\ DepStore(at)[d].mode # "scale"
        /\ DepCluster[d] = cluster
        /\ cluster # NoCluster}

InitialSync ==
    /\ worker["init"].pc = "idle"
    /\ CachesSynced
    /\ worker' = [worker EXCEPT
            !["init"] = Waiting(depCacheAt, OwnDeployments(depCacheAt))]
    /\ UNCHANGED <<apiVars, token, nodeHandled, depHandled, appliedAt, missed>>

(* A list fails: the goroutine returns and there is no initial sync.  Not  *)
(* recorded in missed: the events of the listing cover for it.             *)
InitialSyncFails ==
    /\ worker["init"].pc = "idle"
    /\ CachesSynced
    /\ Fault
    /\ worker' = [worker EXCEPT !["init"] = Done]
    /\ UNCHANGED <<nodeLog, depLog, listed, nodeCacheAt, depCacheAt>>
    /\ UNCHANGED <<token, nodeHandled, depHandled, appliedAt, missed>>

NextNode == nodeLog[nodeHandled + 1].node
NextDep == depLog[depHandled + 1].dep
NextDepState == depLog[depHandled + 1].world[NextDep]

(* The callback is free and the cache has an event it has not taken.       *)
TakeNodeEvent ==
    /\ worker["node"].pc = "idle"
    /\ nodeHandled < nodeCacheAt
    /\ nodeHandled' = nodeHandled + 1

TakeDepEvent ==
    /\ worker["dep"].pc = "idle"
    /\ depHandled < depCacheAt
    /\ depHandled' = depHandled + 1

(* VNodePredicates drops the event.                                        *)
IgnoreNodeEvent ==
    /\ TakeNodeEvent
    /\ ~NodeWatched[NextNode]
    /\ UNCHANGED <<apiVars, token, worker, depHandled, appliedAt, missed>>

(* Faulty variant: the delete handler does nothing.                        *)
HandleNodeEventNoDelete ==
    /\ TakeNodeEvent
    /\ NodeWatched[NextNode]
    /\ worker' = [worker EXCEPT !["node"] =
            IF nodeLog[nodeHandled + 1].world[NextNode] = "absent" THEN Idle
            ELSE Waiting(depCacheAt,
                         RelatedDeployments(depCacheAt, NodeCluster[NextNode]))]
    /\ UNCHANGED <<apiVars, token, depHandled, appliedAt, missed>>

(* vnodeCreateHandler, vnodeUpdateHandler and vnodeDeleteHandler.          *)
HandleNodeEvent ==
    /\ TakeNodeEvent
    /\ NodeWatched[NextNode]
    /\ worker' = [worker EXCEPT !["node"] =
            Waiting(depCacheAt, RelatedDeployments(depCacheAt, NodeCluster[NextNode]))]
    /\ UNCHANGED <<apiVars, token, depHandled, appliedAt, missed>>

(* The list of the handler fails: it goes on with no deployments.          *)
HandleNodeEventFails ==
    /\ TakeNodeEvent
    /\ NodeWatched[NextNode]
    /\ NodeCluster[NextNode] # NoCluster
    /\ Fault
    /\ worker' = [worker EXCEPT !["node"] = Waiting(depCacheAt, {})]
    /\ missed' = missed \cup {d \in Deployment : DepCluster[d] = NodeCluster[NextNode]}
    /\ UNCHANGED <<nodeLog, depLog, listed, nodeCacheAt, depCacheAt>>
    /\ UNCHANGED <<token, depHandled, appliedAt>>

(* A deletion, or ModuleDeploymentPredicates drops the event.              *)
IgnoreDepEvent ==
    /\ TakeDepEvent
    /\ ~(NextDepState.exists /\ DepManaged[NextDep])
    /\ UNCHANGED <<apiVars, token, worker, nodeHandled, appliedAt, missed>>

(* deploymentAddHandler and deploymentUpdateHandler: the snapshot is the   *)
(* object the event carries.                                               *)
HandleDepEvent ==
    /\ TakeDepEvent
    /\ NextDepState.exists
    /\ DepManaged[NextDep]
    /\ worker' = [worker EXCEPT !["dep"] = Waiting(depHandled + 1, {NextDep})]
    /\ UNCHANGED <<apiVars, token, nodeHandled, appliedAt, missed>>

-----------------------------------------------------------------------------
(* updateDeploymentReplicas, under the token.                              *)

(* Faulty variant: the goroutine does not wait for the token.              *)
AcquireUnguarded(w) ==
    /\ worker[w].pc = "waiting"
    /\ token' = token - 1
    /\ worker' = [worker EXCEPT ![w].pc = "holding"]
    /\ UNCHANGED <<apiVars, nodeHandled, depHandled, appliedAt, missed>>

Acquire(w) ==
    /\ worker[w].pc = "waiting"
    /\ token > 0
    /\ token' = token - 1
    /\ worker' = [worker EXCEPT ![w].pc = "holding"]
    /\ UNCHANGED <<apiVars, nodeHandled, depHandled, appliedAt, missed>>

(* The loop is at deployment d of w's snapshot.                            *)
AtDeployment(w, d) ==
    /\ worker[w].pc = "holding"
    /\ EnableSync
    /\ worker[w].patching = {}
    /\ d \in worker[w].todo

Snapshot(w, d) == DepStore(worker[w].at)[d]

Eligible(w, d) == Snapshot(w, d).mode = "peer" /\ DepCluster[d] # NoCluster

Passed(r, d) == [r EXCEPT !.todo = @ \ {d}]

(* Wrong strategy, replica control off, or no cluster name.                *)
SkipDeployment(w, d) ==
    /\ AtDeployment(w, d)
    /\ ~Eligible(w, d)
    /\ worker' = [worker EXCEPT ![w] = Passed(@, d)]
    /\ UNCHANGED <<apiVars, token, nodeHandled, depHandled, appliedAt, missed>>

(* getReadyNodeCount: vnodes of the cluster, whatever their environment.   *)
ReadyCount(i, d) == Cardinality(ReadyNodes(NodeStore(i), DepCluster[d]))

Counted(r, d, n, i) == [r EXCEPT !.todo = @ \ {d}, !.patching = {d},
                                 !.count = n, !.readAt = i]

CountNodes(w, d) ==
    /\ AtDeployment(w, d)
    /\ Eligible(w, d)
    /\ LET n == ReadyCount(nodeCacheAt, d) IN
       worker' = [worker EXCEPT ![w] =
            IF n = Snapshot(w, d).replicas
            THEN Passed(@, d)
            ELSE Counted(@, d, n, nodeCacheAt)]
    /\ UNCHANGED <<apiVars, token, nodeHandled, depHandled, appliedAt, missed>>

(* Faulty variant: return where the loop says continue.                    *)
CountNodesFailsReturns(w, d) ==
    /\ AtDeployment(w, d)
    /\ Eligible(w, d)
    /\ Fault
    /\ worker' = [worker EXCEPT ![w].todo = {}]
    /\ missed' = missed \cup {d}
    /\ UNCHANGED <<nodeLog, depLog, listed, nodeCacheAt, depCacheAt>>
    /\ UNCHANGED <<token, nodeHandled, depHandled, appliedAt>>

(* The vnode list fails: the loop continues with the next deployment.      *)
CountNodesFails(w, d) ==
    /\ AtDeployment(w, d)
    /\ Eligible(w, d)
    /\ Fault
    /\ worker' = [worker EXCEPT ![w] = Passed(@, d)]
    /\ missed' = missed \cup {d}
    /\ UNCHANGED <<nodeLog, depLog, listed, nodeCacheAt, depCacheAt>>
    /\ UNCHANGED <<token, nodeHandled, depHandled, appliedAt>>

PatchDone(r) == [r EXCEPT !.patching = {}, !.count = 0, !.readAt = 0]

(* Faulty variant: old and new object swapped in the merge patch.          *)
PatchSwapped(w, d) ==
    /\ worker[w].pc = "holding"
    /\ d \in worker[w].patching
    /\ IF Deps[d].exists
       THEN /\ WriteDeployment(d,
                    [Deps[d] EXCEPT !.replicas = Snapshot(w, d).replicas])
            /\ appliedAt' = [appliedAt EXCEPT ![d] = worker[w].readAt]
       ELSE UNCHANGED <<depLog, appliedAt>>
    /\ worker' = [worker EXCEPT ![w] = PatchDone(@)]
    /\ UNCHANGED <<nodeLog, listed, nodeCacheAt, depCacheAt, budget>>
    /\ UNCHANGED <<token, nodeHandled, depHandled, missed>>

(* updateDeploymentReplicasOfKubernetes: a merge patch of spec.replicas,   *)
(* without a resource version; NotFound counts as success.  An error after *)
(* the patch was applied is logged and makes no other difference.          *)
Patch(w, d) ==
    /\ worker[w].pc = "holding"
    /\ d \in worker[w].patching
    /\ IF Deps[d].exists
       THEN /\ WriteDeployment(d, [Deps[d] EXCEPT !.replicas = worker[w].count])
            /\ appliedAt' = [appliedAt EXCEPT ![d] = worker[w].readAt]
       ELSE UNCHANGED <<depLog, appliedAt>>
    /\ worker' = [worker EXCEPT ![w] = PatchDone(@)]
    /\ UNCHANGED <<nodeLog, listed, nodeCacheAt, depCacheAt, budget>>
    /\ UNCHANGED <<token, nodeHandled, depHandled, missed>>

(* Faulty variant: an error path that returns without the deferred send.   *)
PatchFailsKeepsToken(w, d) ==
    /\ worker[w].pc = "holding"
    /\ d \in worker[w].patching
    /\ Fault
    /\ worker' = [worker EXCEPT ![w] = IF w = "init" THEN Done ELSE Idle]
    /\ missed' = missed \cup {d}
    /\ UNCHANGED <<nodeLog, depLog, listed, nodeCacheAt, depCacheAt>>
    /\ UNCHANGED <<token, nodeHandled, depHandled, appliedAt>>

(* The patch is not applied; the error is logged, nothing retries it.      *)
PatchFails(w, d) ==
    /\ worker[w].pc = "holding"
    /\ d \in worker[w].patching
    /\ Fault
    /\ worker' = [worker EXCEPT ![w] = PatchDone(@)]
    /\ missed' = missed \cup {d}
    /\ UNCHANGED <<nodeLog, depLog, listed, nodeCacheAt, depCacheAt>>
    /\ UNCHANGED <<token, nodeHandled, depHandled, appliedAt>>

(* Faulty variant: the token is not given back.                            *)
ReleaseKeepsToken(w) ==
    /\ worker[w].pc = "holding"
    /\ EnableSync => worker[w].todo = {} /\ worker[w].patching = {}
    /\ worker' = [worker EXCEPT ![w] = IF w = "init" THEN Done ELSE Idle]
    /\ UNCHANGED <<apiVars, token, nodeHandled, depHandled, appliedAt, missed>>

(* The deferred send gives the token back.                                 *)
Release(w) ==
    /\ worker[w].pc = "holding"
    /\ EnableSync => worker[w].todo = {} /\ worker[w].patching = {}
    /\ token' = token + 1
    /\ worker' = [worker EXCEPT ![w] = IF w = "init" THEN Done ELSE Idle]
    /\ UNCHANGED <<apiVars, nodeHandled, depHandled, appliedAt, missed>>

(* The process dies at any point and is started again.                     *)
Restart ==
    /\ budget.restarts > 0
    /\ budget' = [budget EXCEPT !.restarts = @ - 1]
    /\ \E nodes \in NodeListings(Nodes), deps \in DepListings(Deps) :
            StartFrom(nodes, deps)
    /\ token' = 1
    /\ worker' = [w \in Worker |-> Idle]
    /\ nodeHandled' = 0
    /\ depHandled' = 0
    /\ appliedAt' = [d \in Deployment |-> 0]
    /\ missed' = {}

-----------------------------------------------------------------------------
Environment ==
    \/ \E n \in Node, s \in NodeStatus : ChangeNode(n, s) /\ UNCHANGED ctlVars
    \/ \E d \in Deployment, s \in UserStates :
            EditDeployment(d, s) /\ UNCHANGED ctlVars
    \/ Restart

NodeInformer == DeliverNodeEvent /\ UNCHANGED ctlVars
DepInformer == DeliverDepEvent /\ UNCHANGED ctlVars

InitRoutine == InitialSync \/ InitialSyncFails
NodeCallback == IgnoreNodeEvent \/ HandleNodeEvent \/ HandleNodeEventFails
DepCallback == IgnoreDepEvent \/ HandleDepEvent

Update(w) ==
    \/ Acquire(w)
    \/ \E d \in Deployment :
        \/ SkipDeployment(w, d)
        \/ CountNodes(w, d)
        \/ CountNodesFails(w, d)
        \/ Patch(w, d)
        \/ PatchFails(w, d)
    \/ Release(w)

Next ==
    \/ Environment
    \/ NodeInformer
    \/ DepInformer
    \/ InitRoutine
    \/ NodeCallback
    \/ DepCallback
    \/ \E w \in Worker : Update(w)

Spec == Init /\ [][Next]_vars

(* Informers keep delivering and goroutines keep running; users, vnodes    *)
(* and failures owe nothing.                                               *)
Fairness ==
    /\ WF_vars(NodeInformer)
    /\ WF_vars(DepInformer)
    /\ WF_vars(InitRoutine)
    /\ WF_vars(NodeCallback)
    /\ WF_vars(DepCallback)
    /\ \A w \in Worker : WF_vars(Update(w))

FairSpec == Spec /\ Fairness

-----------------------------------------------------------------------------
(* Properties.                                                             *)

(* Every variable stays in its domain; in particular the token channel     *)
(* never holds more than its capacity of one.                              *)
TypeOK ==
    /\ ApiTypeOK
    /\ token \in {0, 1}
    /\ worker \in [Worker -> WorkerState]
    /\ nodeHandled \in 0 .. nodeCacheAt
    /\ depHandled \in 0 .. depCacheAt
    /\ appliedAt \in [Deployment -> Nat]
    /\ missed \in SUBSET Deployment

Holders == {w \in Worker : worker[w].pc = "holding"}

(* The token is never lost and never doubled: it is in the channel, or     *)
(* exactly one goroutine is between the receive of updateDeploymentReplicas*)
(* and its deferred send, on every path through the loop.                  *)
TokenConserved ==
    /\ token = 1 => Holders = {}
    /\ token = 0 => \E w \in Worker : Holders = {w}

(* A vnode count is applied in the order it was read: no patch of a        *)
(* deployment overwrites the count of a newer vnode cache with an older    *)
(* one, although three goroutines count and patch without a precondition.  *)
PatchesFollowNodes ==
    [][\A d \in Deployment :
            appliedAt'[d] >= appliedAt[d] \/ budget'.restarts # budget.restarts]_vars

(* The controller manages the modules of its own environment only: it      *)
(* never writes a deployment its selector excludes.                        *)
OtherEnvironmentsUntouched ==
    [][\A d \in Deployment : ~DepManaged[d] => UNCHANGED appliedAt[d]]_vars

(* Why: nothing applied is newer than the vnode cache, and the count a     *)
(* goroutine is about to patch was read after everything applied before.   *)
CountsFresh ==
    /\ \A d \in Deployment : appliedAt[d] <= nodeCacheAt
    /\ \A w \in Holders, d \in Deployment : worker[w].patching # {} =>
            appliedAt[d] <= worker[w].readAt /\ worker[w].readAt <= nodeCacheAt
    /\ \A w \in Worker \ Holders : worker[w].patching = {}

(* The inductive invariant behind PatchesFollowNodes.                      *)
TokenInv == TypeOK /\ TokenConserved /\ CountsFresh

(* A count on its way to the API server is the count of the vnodes at the  *)
(* position it was read at.                                                *)
CountsTrue ==
    \A w \in Worker, d \in Deployment :
        d \in worker[w].patching => worker[w].count = ReadyCount(worker[w].readAt, d)

(* The inductive invariant behind FollowsNodes.                            *)
FollowInv == TokenInv /\ CountsTrue

(* What the controller is responsible for: own, existing, peer deployments *)
(* with a cluster name whose vnodes all pass VNodePredicates.              *)
Controlled(d) ==
    /\ DepManaged[d]
    /\ Deps[d].exists
    /\ Deps[d].mode = "peer"
    /\ DepCluster[d] # NoCluster
    /\ \A n \in Node : NodeCluster[n] = DepCluster[d] => NodeWatched[n]

InSync(d) == Deps[d].replicas = Cardinality(ReadyNodes(Nodes, DepCluster[d]))

Settled ==
    /\ nodeHandled = Len(nodeLog)
    /\ depHandled = Len(depLog)
    /\ \A w \in Worker : worker[w].pc \in {"idle", "done"}

(* When every event has been handled, every controlled deployment has as   *)
(* many replicas as its cluster has ready vnodes, unless a call for it     *)
(* failed: stale snapshots, late caches, racing users and failures of      *)
(* other deployments of the same batch never leave one behind.             *)
SettledMeansSynced ==
    EnableSync /\ Settled =>
        \A d \in Deployment : Controlled(d) /\ d \notin missed => InSync(d)

(* An event changes the object it is about and no other.                   *)
DepsTold ==
    \A i \in 0 .. Len(depLog), d \in Deployment :
        (\A j \in i + 1 .. Len(depLog) : depLog[j].dep # d) => DepStore(i)[d] = Deps[d]

NodesTold ==
    \A i \in 1 .. Len(nodeLog), n \in Node :
        n # nodeLog[i].node => NodeStore(i)[n] = NodeStore(i - 1)[n]

(* A snapshot is of the past, and one deployment is patched at a time.     *)
SnapshotsKept ==
    \A w \in Worker :
        /\ worker[w].at \in 0 .. depCacheAt
        /\ \A d, e \in worker[w].patching : d = e

(* The four ways a deployment is still looked after: an event of it is to  *)
(* come; a batch has it, as it is now; another count is about to be        *)
(* written; or its replicas are the count of a vnode cache whose later     *)
(* events are still to be handled.                                         *)
EventAhead(d) == \E i \in depHandled + 1 .. Len(depLog) : depLog[i].dep = d

InBatch(d) ==
    \E w \in Worker : /\ worker[w].pc \in {"waiting", "holding"}
                      /\ d \in worker[w].todo
                      /\ Snapshot(w, d) = Deps[d]

PatchAhead(d) ==
    \E w \in Worker : /\ worker[w].pc = "holding"
                      /\ d \in worker[w].patching
                      /\ worker[w].count # Deps[d].replicas

CountUpheld(d) ==
    \E i \in nodeHandled .. nodeCacheAt : ReadyCount(i, d) = Deps[d].replicas

Attended(d) == EventAhead(d) \/ InBatch(d) \/ PatchAhead(d) \/ CountUpheld(d)

NoneForgotten ==
    EnableSync => \A d \in Deployment : Controlled(d) /\ d \notin missed => Attended(d)

(* The inductive invariant behind SettledMeansSynced.                      *)
SettledInv == TokenInv /\ DepsTold /\ NodesTold /\ SnapshotsKept /\ NoneForgotten

(* Once vnodes and users stop changing, replicas of the controlled         *)
(* deployments that no failure hit become and stay right: the goroutines   *)
(* neither deadlock on the token nor patch back and forth for ever.        *)
Converges ==
    <>[](EnableSync => \A d \in Deployment :
            Controlled(d) /\ d \notin missed => InSync(d))

(* A goroutine that waits for the token gets it or dies with the process.  *)
WaitersServed ==
    \A w \in Worker : worker[w].pc = "waiting" ~> worker[w].pc # "waiting"
-----------------------------------------------------------------------------
(* Every deployment follows the counts of ready vnodes, as ReplicaFollower *)
(* says: behind the caches, stale snapshots and interleaved goroutines, a  *)
(* patch is one step that takes a point of the vnode history no older than *)
(* the point of the previous patch.                                        *)
Follower == INSTANCE ReplicaFollower WITH
    Absent <- Gone,
    wanted <- [i \in 1 .. Len(nodeLog) |-> [d \in Deployment |-> ReadyCount(i, d)]],
    replicas <- [d \in Deployment |->
                    IF Deps[d].exists THEN Deps[d].replicas ELSE Gone],
    takenAt <- appliedAt,
    edits <- budget.edits

FollowsNodes == Follower!Spec
=============================================================================
