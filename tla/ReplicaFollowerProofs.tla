------------------------ MODULE ReplicaFollowerProofs ------------------------
(* The controller implements ReplicaFollower, for every number of vnodes   *)
(* and deployments and every bound: initial states map to initial states,  *)
(* every step maps to a step of ReplicaFollower or to none.                *)
EXTENDS ReplicaSyncProofs

-----------------------------------------------------------------------------
(* The mapped variables.                                                   *)

Wanted == [i \in 1 .. Len(nodeLog) |-> [d \in Deployment |-> ReadyCount(i, d)]]
Replicas == [d \in Deployment |-> IF Deps[d].exists THEN Deps[d].replicas ELSE Gone]

(* The counts of the vnode history are a history of wanted counts, and the *)
(* empty cache wants none.                                                 *)
LEMMA WantedType ==
    ASSUME ApiTypeOK
    PROVE  /\ Wanted \in Seq([Deployment -> Nat])
           /\ Len(Wanted) = Len(nodeLog)
           /\ \A i \in 0 .. Len(nodeLog), d \in Deployment :
                Follower!WantedAt(i, d) = ReadyCount(i, d)
<1>1. Len(nodeLog) \in Nat
  BY PositionType
<1>2. \A i, d : ReadyCount(i, d) \in Nat
  BY ReadyCountType
<1>3. Wanted \in [1 .. Len(nodeLog) -> [Deployment -> Nat]]
  BY <1>2 DEF Wanted
<1>4. \A d \in Deployment : ReadyCount(0, d) = 0
  <2>1. ASSUME NEW d PROVE ReadyNodes(NodeStore(0), DepCluster[d]) = {}
    BY DEF ReadyNodes, NodeStore
  <2>2. QED
    BY <2>1, FS_EmptySet DEF ReadyCount
<1>5. QED
  BY <1>1, <1>3, <1>4 DEF Wanted, Follower!WantedAt

-----------------------------------------------------------------------------
(* Counts on their way to the API server.                                  *)

LEMMA FollowInvInit == Init => FollowInv
BY TokenInvInit DEF FollowInv, CountsTrue, Init, Idle

(* Steps that put no new count on its way.                                 *)
LEMMA CountsKept ==
    ASSUME FollowInv, TokenInv',
           UNCHANGED nodeLog \/ \E e : nodeLog' = Append(nodeLog, e),
           \A w \in Worker : \/ worker'[w].patching = {}
                             \/ /\ worker'[w].patching = worker[w].patching
                                /\ worker'[w].count = worker[w].count
                                /\ worker'[w].readAt = worker[w].readAt
    PROVE  CountsTrue'
<1> SUFFICES ASSUME NEW w \in Worker, NEW d \in Deployment, d \in worker'[w].patching
             PROVE  (worker[w].count = ReadyCount(worker[w].readAt, d))'
  BY DEF CountsTrue
<1>1. /\ worker'[w].patching = worker[w].patching
      /\ worker'[w].count = worker[w].count
      /\ worker'[w].readAt = worker[w].readAt
  OBVIOUS
<1>2. worker[w].count = ReadyCount(worker[w].readAt, d)
  BY <1>1 DEF FollowInv, CountsTrue
<1>3. ApiTypeOK /\ w \in Holders /\ worker[w] \in WorkerState
  BY <1>1 DEF FollowInv, TokenInv, TypeOK, CountsFresh
<1>4. PICK i \in Nat : i = worker[w].readAt
  BY <1>3 DEF WorkerState
<1>5. i \in 0 .. Len(nodeLog)
  BY <1>1, <1>3, <1>4, PositionType DEF FollowInv, TokenInv, CountsFresh
<1>6. ReadyCount(i, d)' = ReadyCount(i, d)
  BY <1>3, <1>5, HistoryStable
<1>7. (ReadyCount(worker[w].readAt, d))' = ReadyCount(i, d)'
  BY <1>1, <1>4 DEF ReadyCount, NodeStore
<1>8. QED
  BY <1>1, <1>2, <1>4, <1>6, <1>7

(* A new count is the count at the present position of the vnode cache.    *)
LEMMA CountNodesTrue ==
    ASSUME FollowInv, TokenInv', NEW w \in Worker, NEW d \in Deployment,
           CountNodes(w, d)
    PROVE  CountsTrue'
<1>1. /\ worker \in [Worker -> WorkerState] /\ nodeLog' = nodeLog
      /\ worker[w].patching = {}
  BY DEF FollowInv, TokenInv, TypeOK, CountNodes, AtDeployment, apiVars
<1>2. CASE worker' = [worker EXCEPT ![w] = Passed(@, d)]
  BY <1>1, <1>2, CountsKept DEF Passed, WorkerState
<1>3. CASE worker' = [worker EXCEPT ![w] =
                        Counted(@, d, ReadyCount(nodeCacheAt, d), nodeCacheAt)]
  <2>1. worker'[w] = Counted(worker[w], d, ReadyCount(nodeCacheAt, d), nodeCacheAt)
    BY <1>1, <1>3
  <2>2. /\ worker'[w].patching = {d}
        /\ worker'[w].count = ReadyCount(nodeCacheAt, d)
        /\ worker'[w].readAt = nodeCacheAt
    BY <1>1, <2>1 DEF Counted, WorkerState
  <2>3. ASSUME NEW v \in Worker, NEW e \in Deployment, e \in worker'[v].patching
        PROVE  (worker[v].count = ReadyCount(worker[v].readAt, e))'
    <3>1. CASE v = w
      BY <1>1, <2>2, <2>3, <3>1 DEF ReadyCount, NodeStore
    <3>2. CASE v # w
      <4>1. worker'[v] = worker[v]
        BY <1>1, <1>3, <3>2
      <4>2. QED
        BY <1>1, <2>3, <4>1 DEF FollowInv, CountsTrue, ReadyCount, NodeStore
    <3>3. QED
      BY <3>1, <3>2
  <2>4. QED
    BY <2>3 DEF CountsTrue
<1>4. QED
  BY <1>2, <1>3 DEF CountNodes

(* Every step keeps the counts true.                                       *)
LEMMA FollowInvNext == FollowInv /\ [Next]_vars => FollowInv'
<1> SUFFICES ASSUME FollowInv, [Next]_vars PROVE FollowInv'
  OBVIOUS
<1>1. TokenInv' /\ worker \in [Worker -> WorkerState]
  BY TokenInvNext DEF FollowInv, TokenInv, TypeOK
<1>2. CASE Restart
  BY <1>2, CountsKept, <1>1 DEF Restart, Idle, CountsTrue, FollowInv
<1>3. CASE \/ \E n \in Node, st \in NodeStatus : ChangeNode(n, st) /\ UNCHANGED ctlVars
           \/ \E d \in Deployment, st \in UserStates :
                EditDeployment(d, st) /\ UNCHANGED ctlVars
           \/ NodeInformer
           \/ DepInformer
           \/ UNCHANGED vars
  <2>1. worker' = worker
    BY <1>3 DEF ctlVars, vars, NodeInformer, DepInformer
  <2>2. UNCHANGED nodeLog \/ \E e : nodeLog' = Append(nodeLog, e)
    BY <1>3 DEF ChangeNode, EditDeployment, NodeInformer, DepInformer, vars, apiVars,
                DeliverNodeEvent, DeliverDepEvent
  <2>3. QED
    BY <1>1, <2>1, <2>2, CountsKept DEF FollowInv
<1>4. CASE InitRoutine \/ NodeCallback \/ DepCallback
  <2>1. nodeLog' = nodeLog
    BY <1>4
       DEF InitRoutine, NodeCallback, DepCallback, InitialSync, InitialSyncFails,
           IgnoreNodeEvent, HandleNodeEvent, HandleNodeEventFails, IgnoreDepEvent,
           HandleDepEvent, apiVars
  <2>2. \/ worker' = worker
        \/ \E v \in Worker : \E r : worker' = [worker EXCEPT ![v] = r] /\ r.patching = {}
    <3>1. Done.patching = {}
      BY DEF Done, Idle
    <3>2. \A at, deps : Waiting(at, deps).patching = {}
      BY DEF Waiting, Idle
    <3>3. CASE InitRoutine
      BY <3>1, <3>2, <3>3 DEF InitRoutine, InitialSync, InitialSyncFails, Worker
    <3>4. CASE NodeCallback
      BY <3>2, <3>4 DEF NodeCallback, IgnoreNodeEvent, HandleNodeEvent,
                        HandleNodeEventFails, Worker
    <3>5. CASE DepCallback
      BY <3>2, <3>5 DEF DepCallback, IgnoreDepEvent, HandleDepEvent, Worker
    <3>6. QED
      BY <1>4, <3>3, <3>4, <3>5
  <2>3. \A w \in Worker : worker'[w].patching = {} \/ worker'[w] = worker[w]
    BY <1>1, <2>2
  <2>4. QED
    BY <1>1, <2>1, <2>3, CountsKept DEF FollowInv
<1>5. ASSUME NEW w \in Worker, Update(w) PROVE FollowInv'
  <2> DEFINE Quiet(r) == \/ r.patching = {}
                         \/ /\ r.patching = worker[w].patching
                            /\ r.count = worker[w].count
                            /\ r.readAt = worker[w].readAt
  <2>1. worker[w] \in WorkerState
    BY <1>1
  <2>2. ASSUME nodeLog' = nodeLog,
               NEW r, Quiet(r), worker' = [worker EXCEPT ![w] = r]
        PROVE  FollowInv'
    <3>1. \A v \in Worker : worker'[v] = IF v = w THEN r ELSE worker[v]
      BY <1>1, <2>2
    <3>2. QED
      BY <1>1, <2>2, <3>1, CountsKept DEF FollowInv
  <2>3. CASE Acquire(w)
    <3>1. Quiet([worker[w] EXCEPT !.pc = "holding"])
      BY <2>1 DEF WorkerState
    <3>2. QED
      BY <2>2, <2>3, <3>1 DEF Acquire, apiVars
  <2>4. CASE Release(w)
    <3>1. Quiet(IF w = "init" THEN Done ELSE Idle)
      BY DEF Done, Idle
    <3>2. QED
      BY <2>2, <2>4, <3>1 DEF Release, apiVars
  <2>5. ASSUME NEW d \in Deployment, CountNodes(w, d) PROVE FollowInv'
    BY <1>1, <2>5, CountNodesTrue DEF FollowInv
  <2>6. ASSUME NEW d \in Deployment, SkipDeployment(w, d) \/ CountNodesFails(w, d)
        PROVE  FollowInv'
    <3>1. Quiet(Passed(worker[w], d))
      BY <2>1 DEF Passed, WorkerState
    <3>2. nodeLog' = nodeLog /\ worker' = [worker EXCEPT ![w] = Passed(worker[w], d)]
      BY <2>6 DEF SkipDeployment, CountNodesFails, apiVars
    <3>3. QED
      BY <2>2, <3>1, <3>2
  <2>7. ASSUME NEW d \in Deployment, Patch(w, d) \/ PatchFails(w, d)
        PROVE  FollowInv'
    <3>1. Quiet(PatchDone(worker[w]))
      BY <2>1 DEF PatchDone, WorkerState
    <3>2. nodeLog' = nodeLog /\ worker' = [worker EXCEPT ![w] = PatchDone(worker[w])]
      BY <2>7 DEF Patch, PatchFails
    <3>3. QED
      BY <2>2, <3>1, <3>2
  <2>8. QED
    BY <1>5, <2>3, <2>4, <2>5, <2>6, <2>7 DEF Update
<1>6. QED
  BY <1>2, <1>3, <1>4, <1>5 DEF Next, Environment

-----------------------------------------------------------------------------
(* Restarts forget positions, never the state of the API server.           *)

(* An order of a finite set runs through all of it.                        *)
LEMMA OrderCovers ==
    ASSUME NEW S, IsFiniteSet(S), NEW s \in Orders(S), NEW x \in S
    PROVE  \E j \in 1 .. Len(s) : s[j] = x
<1> DEFINE n == Cardinality(S)
<1>1. n \in Nat
  BY FS_CardinalityType
<1>2. IsFiniteSet(1 .. n) /\ Cardinality(1 .. n) = n
  BY <1>1, FS_Interval
<1>3. s \in Injection(1 .. n, S)
  BY DEF Orders, Injection, IsInjective
<1>4. s \in Surjection(1 .. n, S)
  BY <1>2, <1>3, FS_Injection
<1>5. Len(s) = n
  BY <1>1 DEF Orders
<1>6. QED
  BY <1>4, <1>5 DEF Surjection

(* A process that has applied its listing of the vnodes sees all of them.  *)
LEMMA ListedNodes ==
    ASSUME NEW w \in NodeWorld, nodeLog' \in NodeListings(w)
    PROVE  Nodes' = w
<1> DEFINE S == {n \in Node : w[n] # "absent"}
<1>1. IsFiniteSet(S)
  BY NodeAssumption, FS_Subset
<1>2. PICK s \in Orders(S) : nodeLog' = NodeListing(w, s)
  BY DEF NodeListings
<1>3. s \in Seq(S) /\ Len(s) \in Nat
  BY <1>1, <1>2, OrdersAreSequences
<1>4. \A n \in S : \E j \in 1 .. Len(s) : s[j] = n
  BY <1>1, <1>2, OrderCovers
<1>5. Len(nodeLog') = Len(s)
  BY <1>2, <1>3 DEF NodeListing
<1>6. CASE Len(s) = 0
  <2>1. S = {}
    BY <1>4, <1>6
  <2>2. w = [n \in Node |-> "absent"]
    BY <2>1 DEF NodeWorld
  <2>3. QED
    BY <1>5, <1>6, <2>2 DEF Nodes, NodeStore
<1>7. CASE Len(s) # 0
  <2>1. nodeLog'[Len(s)].world = [n \in Node |->
            IF \E j \in 1 .. Len(s) : s[j] = n THEN w[n] ELSE "absent"]
    BY <1>2, <1>3, <1>7 DEF NodeListing
  <2>2. \A n \in Node : (IF \E j \in 1 .. Len(s) : s[j] = n THEN w[n] ELSE "absent") = w[n]
    BY <1>4
  <2>3. nodeLog'[Len(s)].world = w
    BY <2>1, <2>2 DEF NodeWorld
  <2>4. QED
    BY <1>5, <1>7, <2>3 DEF Nodes, NodeStore
<1>8. QED
  BY <1>6, <1>7

(* The same for the deployments that exist.                                *)
LEMMA ListedDeps ==
    ASSUME NEW w \in DepWorld, depLog' \in DepListings(w), NEW d \in Deployment
    PROVE  Deps'[d] = IF w[d].exists THEN w[d] ELSE NoDep
<1> DEFINE S == {e \in Deployment : w[e].exists}
<1>1. IsFiniteSet(S)
  BY NodeAssumption, FS_Subset
<1>2. PICK s \in Orders(S) : depLog' = DepListing(w, s)
  BY DEF DepListings
<1>3. s \in Seq(S) /\ Len(s) \in Nat
  BY <1>1, <1>2, OrdersAreSequences
<1>4. w[d].exists => \E j \in 1 .. Len(s) : s[j] = d
  BY <1>1, <1>2, OrderCovers
<1>5. Len(depLog') = Len(s)
  BY <1>2, <1>3 DEF DepListing
<1>6. CASE Len(s) = 0
  <2>1. ~w[d].exists
    BY <1>4, <1>6
  <2>2. QED
    BY <1>5, <1>6, <2>1 DEF Deps, DepStore
<1>7. CASE Len(s) # 0
  <2>1. depLog'[Len(s)].world = [e \in Deployment |->
            IF \E j \in 1 .. Len(s) : s[j] = e THEN w[e] ELSE NoDep]
    BY <1>2, <1>3, <1>7 DEF DepListing
  <2>2. ~w[d].exists => ~\E j \in 1 .. Len(s) : s[j] = d
    BY <1>3
  <2>3. depLog'[Len(s)].world[d] = IF w[d].exists THEN w[d] ELSE NoDep
    BY <2>1, <2>2, <1>4
  <2>4. QED
    BY <1>5, <1>7, <2>3 DEF Deps, DepStore
<1>8. QED
  BY <1>6, <1>7

-----------------------------------------------------------------------------
(* Step by step.                                                           *)

MapsToStep == [Follower!Next]_(Follower!vars)

(* Steps that touch no history and no write map to no step.                *)
LEMMA Stutters ==
    ASSUME UNCHANGED <<nodeLog, depLog, appliedAt>>, budget'.edits = budget.edits
    PROVE  MapsToStep
BY DEF MapsToStep, Follower!vars, ReadyCount, NodeStore, Deps, DepStore

(* A vnode that changes adds a point to the history.                       *)
LEMMA ChangeNodeMaps ==
    ASSUME FollowInv, FollowInv',
           NEW n \in Node, NEW st \in NodeStatus, ChangeNode(n, st), UNCHANGED ctlVars
    PROVE  MapsToStep
<1>1. ApiTypeOK /\ ApiTypeOK' /\ budget \in Budget
  BY DEF FollowInv, TokenInv, TypeOK, ApiTypeOK
<1>2. nodeLog \in Seq(NodeEvent) /\ Len(nodeLog) \in Nat /\ Len(nodeLog') = Len(nodeLog) + 1
  BY <1>1 DEF ApiTypeOK, ChangeNode
<1>3. \A i \in 1 .. Len(nodeLog), d \in Deployment : ReadyCount(i, d)' = ReadyCount(i, d)
  <2>1. \E e : nodeLog' = Append(nodeLog, e)
    BY DEF ChangeNode
  <2>2. \A i \in 0 .. Len(nodeLog), d \in Deployment : ReadyCount(i, d)' = ReadyCount(i, d)
    BY <1>1, <2>1, HistoryStable
  <2>3. 1 .. Len(nodeLog) \subseteq 0 .. Len(nodeLog)
    BY <1>2
  <2>4. QED
    BY <2>2, <2>3
<1>4. \A i \in 1 .. Len(nodeLog) : Wanted'[i] = Wanted[i]
  BY <1>2, <1>3 DEF Wanted
<1>5. Wanted \in Seq([Deployment -> Nat]) /\ Len(Wanted) = Len(nodeLog)
  BY <1>1, WantedType
<1>6. Wanted' = [i \in 1 .. Len(nodeLog) + 1 |-> Wanted'[i]]
  BY <1>2 DEF Wanted
<1>7. Wanted' = Append(Wanted, Wanted'[Len(Wanted) + 1])
  BY <1>2, <1>4, <1>5, <1>6
<1>8. Len(Wanted') = Len(Wanted) + 1
  BY <1>2, <1>5, <1>6
<1>9. UNCHANGED <<Replicas, appliedAt>> /\ budget'.edits = budget.edits
  BY <1>1 DEF ChangeNode, ctlVars, Replicas, Deps, DepStore, Budget
<1>10. Follower!WantedChanges
  BY <1>7, <1>8, <1>9 DEF Follower!WantedChanges, Wanted, Replicas
<1>11. QED
  BY <1>10 DEF MapsToStep, Follower!Next

(* The steps of users.                                                     *)
LEMMA EditMaps ==
    ASSUME FollowInv, NEW d \in Deployment, NEW st \in UserStates,
           EditDeployment(d, st), UNCHANGED ctlVars
    PROVE  MapsToStep
<1>1. /\ depLog \in Seq(DepEvent) /\ Len(depLog) \in Nat
      /\ budget \in Budget /\ Deps \in DepWorld
  BY StoreType DEF FollowInv, TokenInv, TypeOK, ApiTypeOK, Deps
<1>2. Deps' = [Deps EXCEPT ![d] = st]
  BY <1>1 DEF EditDeployment, WriteDeployment, Deps, DepStore
<1>3. \A e \in Deployment : e # d => Replicas'[e] = Replicas[e]
  BY <1>1, <1>2 DEF Replicas, DepWorld
<1>4. Replicas' = [Replicas EXCEPT ![d] = Replicas'[d]]
  BY <1>3 DEF Replicas
<1>5. budget'.edits # budget.edits
  BY <1>1 DEF EditDeployment, Budget
<1>6. UNCHANGED <<Wanted, appliedAt>>
  BY DEF EditDeployment, ctlVars, Wanted, ReadyCount, NodeStore
<1>7. Follower!UserChanges(d)
  BY <1>4, <1>5, <1>6 DEF Follower!UserChanges, Wanted, Replicas
<1>8. QED
  BY <1>7 DEF MapsToStep, Follower!Next

(* A patch takes the point of the history its count was read at.           *)
LEMMA PatchMaps ==
    ASSUME FollowInv, NEW w \in Worker, NEW d \in Deployment, Patch(w, d)
    PROVE  MapsToStep
<1>1. CASE ~Deps[d].exists
  BY <1>1, Stutters DEF Patch
<1>2. CASE Deps[d].exists
  <2> DEFINE i == worker[w].readAt
             new == [Deps[d] EXCEPT !.replicas = worker[w].count]
  <2>1. /\ ApiTypeOK /\ worker[w] \in WorkerState /\ w \in Holders
        /\ appliedAt \in [Deployment -> Nat]
    BY DEF FollowInv, TokenInv, TypeOK, Patch, Holders
  <2>2. depLog \in Seq(DepEvent) /\ Len(depLog) \in Nat /\ Deps \in DepWorld
    BY <2>1, StoreType DEF ApiTypeOK, Deps
  <2>3. i \in Nat /\ appliedAt[d] <= i /\ i <= Len(nodeLog)
    <3>1. appliedAt[d] <= i /\ i <= nodeCacheAt
      BY <2>1 DEF Patch, FollowInv, TokenInv, CountsFresh
    <3>2. i \in Nat
      BY <2>1 DEF WorkerState
    <3>3. QED
      BY <2>1, <3>1, <3>2, PositionType
  <2>4. worker[w].count = ReadyCount(i, d)
    BY DEF Patch, FollowInv, CountsTrue
  <2>5. Deps' = [Deps EXCEPT ![d] = new]
    <3>1. WriteDeployment(d, new)
      BY <1>2 DEF Patch
    <3>2. CASE Deps[d] = new
      BY <2>2, <3>1, <3>2 DEF WriteDeployment, Deps, DepStore, DepWorld
    <3>3. CASE Deps[d] # new
      <4>1. depLog' = Append(depLog, [dep |-> d, world |-> [Deps EXCEPT ![d] = new]])
        BY <3>1, <3>3 DEF WriteDeployment
      <4>2. /\ Len(depLog') = Len(depLog) + 1
            /\ depLog'[Len(depLog) + 1].world = [Deps EXCEPT ![d] = new]
        BY <2>2, <4>1
      <4>3. QED
        BY <2>2, <4>2 DEF Deps, DepStore
    <3>4. QED
      BY <3>2, <3>3
  <2>6. new.exists /\ new.replicas = worker[w].count
    BY <1>2, <2>2 DEF DepWorld, DepState
  <2>7. Replicas' = [Replicas EXCEPT ![d] = worker[w].count]
    BY <1>2, <2>2, <2>5, <2>6 DEF Replicas, DepWorld
  <2>8. worker[w].count = Follower!WantedAt(i, d) /\ Len(Wanted) = Len(nodeLog)
    BY <2>1, <2>3, <2>4, WantedType
  <2>9. i \in appliedAt[d] .. Len(Wanted)
    BY <2>1, <2>3, <2>8
  <2>10. appliedAt' = [appliedAt EXCEPT ![d] = i]
    BY <1>2 DEF Patch
  <2>11. Replicas[d] # Gone
    BY <1>2, <2>2, GoneAssumption DEF Replicas, DepWorld, DepState
  <2>12. UNCHANGED <<Wanted, budget>>
    BY DEF Patch, Wanted, ReadyCount, NodeStore
  <2>13. Follower!Follow(d)
    BY <2>7, <2>8, <2>9, <2>10, <2>11, <2>12 DEF Follower!Follow, Wanted, Replicas
  <2>14. QED
    BY <2>13 DEF MapsToStep, Follower!Next
<1>3. QED
  BY <1>1, <1>2

(* The last point of the history is the count the vnodes have now.         *)
WantedIsNow ==
    \A d \in Deployment :
        Follower!WantedAt(Len(Wanted), d) = Cardinality(ReadyNodes(Nodes, DepCluster[d]))

LEMMA WantedNow == ApiTypeOK => WantedIsNow
BY PositionType, WantedType DEF Nodes, ReadyCount, WantedIsNow

(* A restart lists what the API server holds: the same counts are wanted.  *)
LEMMA RestartMaps ==
    ASSUME FollowInv, FollowInv', Restart
    PROVE  MapsToStep
<1>1. ApiTypeOK /\ ApiTypeOK' /\ budget \in Budget
  BY DEF FollowInv, TokenInv, TypeOK, ApiTypeOK
<1>2. Nodes \in NodeWorld /\ Deps \in DepWorld
  BY <1>1, StoreType, PositionType DEF Nodes, Deps
<1>3. nodeLog' \in NodeListings(Nodes) /\ depLog' \in DepListings(Deps)
  BY DEF Restart, StartFrom
<1>4. Nodes' = Nodes
  BY <1>2, <1>3, ListedNodes
<1>5. \A d \in Deployment : Replicas'[d] = Replicas[d]
  <2>1. ASSUME NEW d \in Deployment PROVE Replicas'[d] = Replicas[d]
    <3>1. Deps'[d] = IF Deps[d].exists THEN Deps[d] ELSE NoDep
      BY <1>2, <1>3, ListedDeps
    <3>2. QED
      BY <3>1 DEF Replicas, NoDep
  <2>2. QED
    BY <2>1
<1>6. Replicas' = Replicas
  BY <1>5 DEF Replicas
<1>7. WantedIsNow /\ WantedIsNow'
  BY <1>1, WantedNow, PTL
<1>8. \A d \in Deployment :
        Follower!WantedAt(Len(Wanted), d) = (Follower!WantedAt(Len(Wanted), d))'
  BY <1>4, <1>7 DEF WantedIsNow, ReadyNodes
<1>9. appliedAt' = [d \in Deployment |-> 0] /\ budget'.edits = budget.edits
  BY <1>1 DEF Restart, Budget
<1>10. Follower!Restart
  BY <1>6, <1>8, <1>9 DEF Follower!Restart, Wanted, Replicas
<1>11. QED
  BY <1>10 DEF MapsToStep, Follower!Next

(* Every step of the controller maps to a step of the follower or to none. *)
LEMMA NextMaps == FollowInv /\ FollowInv' /\ [Next]_vars => MapsToStep
<1> SUFFICES ASSUME FollowInv, FollowInv', [Next]_vars PROVE MapsToStep
  OBVIOUS
<1>1. ASSUME NEW n \in Node, NEW st \in NodeStatus, ChangeNode(n, st), UNCHANGED ctlVars
      PROVE  MapsToStep
  BY <1>1, ChangeNodeMaps
<1>2. ASSUME NEW d \in Deployment, NEW st \in UserStates,
             EditDeployment(d, st), UNCHANGED ctlVars
      PROVE  MapsToStep
  BY <1>2, EditMaps
<1>3. CASE Restart
  BY <1>3, RestartMaps
<1>4. ASSUME NEW w \in Worker, NEW d \in Deployment, Patch(w, d) PROVE MapsToStep
  BY <1>4, PatchMaps
<1>5. budget \in Budget
  BY DEF FollowInv, TokenInv, TypeOK, ApiTypeOK
<1>6. Fault => budget'.edits = budget.edits
  BY <1>5 DEF Fault, Budget
<1>7. CASE UNCHANGED vars \/ NodeInformer \/ DepInformer
  BY <1>7, Stutters DEF vars, apiVars, ctlVars, NodeInformer, DepInformer,
                        DeliverNodeEvent, DeliverDepEvent
<1>8. CASE InitRoutine
  BY <1>6, <1>8, Stutters DEF InitRoutine, InitialSync, InitialSyncFails, apiVars
<1>9. CASE NodeCallback
  BY <1>6, <1>9, Stutters DEF NodeCallback, IgnoreNodeEvent, HandleNodeEvent,
                              HandleNodeEventFails, apiVars
<1>10. CASE DepCallback
  BY <1>10, Stutters DEF DepCallback, IgnoreDepEvent, HandleDepEvent, apiVars
<1>11. ASSUME NEW w \in Worker, Acquire(w) \/ Release(w) PROVE MapsToStep
  BY <1>11, Stutters DEF Acquire, Release, apiVars
<1>12. ASSUME NEW w \in Worker, NEW d \in Deployment,
              \/ SkipDeployment(w, d)
              \/ CountNodes(w, d)
              \/ CountNodesFails(w, d)
              \/ PatchFails(w, d)
       PROVE  MapsToStep
  BY <1>6, <1>12, Stutters
     DEF SkipDeployment, CountNodes, CountNodesFails, PatchFails, apiVars
<1>13. ASSUME NEW w \in Worker, Update(w) PROVE MapsToStep
  BY <1>4, <1>11, <1>12, <1>13 DEF Update
<1>14. QED
  BY <1>1, <1>2, <1>3, <1>7, <1>8, <1>9, <1>10, <1>13 DEF Next, Environment

(* The states a process starts in map to initial states of the follower.   *)
LEMMA InitMaps == Init => Follower!Init
<1> SUFFICES ASSUME Init PROVE Follower!Init
  OBVIOUS
<1>1. ApiTypeOK
  BY TokenInvInit DEF TokenInv, TypeOK
<1>2. Wanted \in Seq([Deployment -> Nat])
  BY <1>1, WantedType
<1>3. Deps \in DepWorld
  BY <1>1, StoreType, PositionType DEF Deps
<1>4. Replicas \in [Deployment -> Nat \cup {Gone}]
  BY <1>3 DEF Replicas, DepWorld, DepState
<1>5. QED
  BY <1>2, <1>4 DEF Follower!Init, Wanted, Replicas, Init

-----------------------------------------------------------------------------
(* Every patch that reaches the API server carries the number of vnodes    *)
(* that were ready at the position of the cache it was read at.            *)
THEOREM FollowInvariant == Spec => []FollowInv
BY FollowInvInit, FollowInvNext, PTL DEF Spec

(* The controller with its goroutines, snapshots, caches, failures and     *)
(* restarts implements the follower: each deployment is written by one     *)
(* step that takes a point of the vnode history not older than the last.   *)
THEOREM ImplementsFollower == Spec => FollowsNodes
BY InitMaps, NextMaps, FollowInvariant, PTL
   DEF Spec, FollowsNodes, Follower!Spec, MapsToStep
=============================================================================
