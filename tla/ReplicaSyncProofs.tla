-------------------------- MODULE ReplicaSyncProofs --------------------------
(* Proofs about the module deployment controller, for every number of      *)
(* vnodes and deployments and every bound.                                 *)
EXTENDS ReplicaSync, FiniteSetTheorems, TLAPS

-----------------------------------------------------------------------------
(* Facts about the API server and the caches.                              *)

(* The orders of a finite set are sequences of its elements.               *)
LEMMA OrdersAreSequences ==
    ASSUME NEW S, IsFiniteSet(S), NEW s \in Orders(S)
    PROVE  s \in Seq(S)
BY FS_CardinalityType DEF Orders

(* A listing is a log of well-formed events.                               *)
LEMMA NodeListingType ==
    ASSUME NEW w \in NodeWorld, NEW log \in NodeListings(w)
    PROVE  log \in Seq(NodeEvent)
<1> DEFINE S == {n \in Node : w[n] # "absent"}
<1>1. IsFiniteSet(S)
  BY NodeAssumption, FS_Subset
<1>2. PICK s \in Orders(S) : log = NodeListing(w, s)
  BY DEF NodeListings
<1>3. s \in Seq(S) /\ Len(s) \in Nat /\ \A i \in 1 .. Len(s) : s[i] \in Node
  BY <1>1, <1>2, OrdersAreSequences
<1>4. \A i \in 1 .. Len(s) :
        [node |-> s[i],
         world |-> [n \in Node |->
            IF \E j \in 1 .. i : s[j] = n THEN w[n] ELSE "absent"]] \in NodeEvent
  BY <1>3 DEF NodeEvent, NodeWorld, NodeStatus
<1>5. log \in [1 .. Len(s) -> NodeEvent]
  BY <1>2, <1>4 DEF NodeListing
<1>6. QED
  BY <1>3, <1>5

LEMMA DepListingType ==
    ASSUME NEW w \in DepWorld, NEW log \in DepListings(w)
    PROVE  log \in Seq(DepEvent)
<1> DEFINE S == {d \in Deployment : w[d].exists}
<1>1. IsFiniteSet(S)
  BY NodeAssumption, FS_Subset
<1>2. PICK s \in Orders(S) : log = DepListing(w, s)
  BY DEF DepListings
<1>3. s \in Seq(S) /\ Len(s) \in Nat /\ \A i \in 1 .. Len(s) : s[i] \in Deployment
  BY <1>1, <1>2, OrdersAreSequences
<1>4. \A i \in 1 .. Len(s) :
        [dep |-> s[i],
         world |-> [d \in Deployment |->
            IF \E j \in 1 .. i : s[j] = d THEN w[d] ELSE NoDep]] \in DepEvent
  BY <1>3 DEF DepEvent, DepWorld, DepState, NoDep, Mode
<1>5. log \in [1 .. Len(s) -> DepEvent]
  BY <1>2, <1>4 DEF DepListing
<1>6. QED
  BY <1>3, <1>5

(* Spending from a bound leaves a bound.                                   *)
LEMMA BudgetType ==
    ASSUME NEW b \in Budget
    PROVE  /\ b.nodes > 0 => [b EXCEPT !.nodes = @ - 1] \in Budget
           /\ b.edits > 0 => [b EXCEPT !.edits = @ - 1] \in Budget
           /\ b.faults > 0 => [b EXCEPT !.faults = @ - 1] \in Budget
           /\ b.restarts > 0 => [b EXCEPT !.restarts = @ - 1] \in Budget
BY DEF Budget

(* Positions in the logs are numbers.                                      *)
LEMMA PositionType ==
    /\ ApiTypeOK => /\ nodeCacheAt \in Nat /\ depCacheAt \in Nat
                    /\ Len(nodeLog) \in Nat /\ Len(depLog) \in Nat
                    /\ nodeCacheAt <= Len(nodeLog) /\ depCacheAt <= Len(depLog)
    /\ ApiTypeOK' => nodeCacheAt' \in Nat /\ depCacheAt' \in Nat
BY DEF ApiTypeOK

(* What a cache holds at any position of its log is a world.               *)
LEMMA StoreType ==
    ASSUME ApiTypeOK
    PROVE  /\ \A i \in 0 .. Len(nodeLog) : NodeStore(i) \in NodeWorld
           /\ \A i \in 0 .. Len(depLog) : DepStore(i) \in DepWorld
<1>1. \A i \in 0 .. Len(nodeLog) : NodeStore(i) \in NodeWorld
  <2>1. \A i \in 1 .. Len(nodeLog) : nodeLog[i] \in NodeEvent
    BY DEF ApiTypeOK
  <2>2. QED
    BY <2>1 DEF NodeStore, NodeWorld, NodeStatus, NodeEvent
<1>2. \A i \in 0 .. Len(depLog) : DepStore(i) \in DepWorld
  <2>1. \A i \in 1 .. Len(depLog) : depLog[i] \in DepEvent
    BY DEF ApiTypeOK
  <2>2. NoDep \in DepState
    BY DEF NoDep, DepState, Mode
  <2>3. QED
    BY <2>1, <2>2 DEF DepStore, DepWorld, DepEvent
<1>3. QED
  BY <1>1, <1>2

(* Ready vnodes can be counted.                                            *)
LEMMA ReadyCountType ==
    ASSUME NEW i, NEW d
    PROVE  ReadyCount(i, d) \in Nat
<1>1. IsFiniteSet(ReadyNodes(NodeStore(i), DepCluster[d]))
  BY NodeAssumption, FS_Subset DEF ReadyNodes
<1>2. QED
  BY <1>1, FS_CardinalityType DEF ReadyCount

(* A write of a deployment is one well-formed event, or nothing.           *)
LEMMA WriteType ==
    ASSUME ApiTypeOK, NEW d \in Deployment, NEW st \in DepState,
           WriteDeployment(d, st)
    PROVE  depLog' \in Seq(DepEvent) /\ Len(depLog') >= Len(depLog)
<1>1. Deps \in DepWorld
  BY StoreType DEF Deps, ApiTypeOK
<1>2. [dep |-> d, world |-> [Deps EXCEPT ![d] = st]] \in DepEvent
  BY <1>1 DEF DepWorld, DepEvent
<1>3. QED
  BY <1>2 DEF WriteDeployment, ApiTypeOK

(* Events only add to the history.                                         *)
LEMMA HistoryStable ==
    ASSUME ApiTypeOK,
           UNCHANGED nodeLog \/ \E e : nodeLog' = Append(nodeLog, e)
    PROVE  \A i \in 0 .. Len(nodeLog), d \in Deployment :
                ReadyCount(i, d)' = ReadyCount(i, d)
<1>1. nodeLog \in Seq(NodeEvent)
  BY DEF ApiTypeOK
<1>2. \A i \in 1 .. Len(nodeLog) : nodeLog'[i] = nodeLog[i]
  <2>1. CASE UNCHANGED nodeLog
    BY <2>1
  <2>2. ASSUME NEW e, nodeLog' = Append(nodeLog, e)
        PROVE  \A i \in 1 .. Len(nodeLog) : nodeLog'[i] = nodeLog[i]
    BY <1>1, <2>2
  <2>3. QED
    BY <2>1, <2>2
<1>3. ASSUME NEW i \in 0 .. Len(nodeLog) PROVE NodeStore(i)' = NodeStore(i)
  BY <1>1, <1>2 DEF NodeStore
<1>4. ASSUME NEW i \in 0 .. Len(nodeLog), NEW d \in Deployment
      PROVE  ReadyCount(i, d)' = ReadyCount(i, d)
  BY <1>3 DEF ReadyCount, ReadyNodes
<1>5. QED
  BY <1>4

-----------------------------------------------------------------------------
(* Type correctness, the token and the order of patches: one inductive     *)
(* invariant, since the channel's capacity is kept only while the token is *)
(* with exactly one holder.                                                *)

(* The states a process starts in satisfy the invariant.                   *)
LEMMA TokenInvInit == Init => TokenInv
<1> SUFFICES ASSUME Init PROVE TokenInv
  OBVIOUS
<1>1. ApiTypeOK
  <2>1. nodeLog \in Seq(NodeEvent) /\ depLog \in Seq(DepEvent)
    BY ScenarioAssumption, NodeListingType, DepListingType DEF Init, ApiInit
  <2>2. QED
    BY <2>1, ScenarioAssumption DEF Init, ApiInit, ApiTypeOK, Budget
<1>2. TypeOK
  BY <1>1 DEF Init, ApiInit, TypeOK, WorkerState, Idle
<1>3. TokenConserved /\ CountsFresh
  BY DEF Init, ApiInit, TokenConserved, CountsFresh, Holders, Idle
<1>4. QED
  BY <1>2, <1>3 DEF TokenInv

(* Steps that leave the controller alone.                                  *)
LEMMA OutsideStep ==
    ASSUME TokenInv, UNCHANGED ctlVars,
           ApiTypeOK', nodeCacheAt' >= nodeCacheAt, depCacheAt' >= depCacheAt
    PROVE  TokenInv'
<1>1. ApiTypeOK
  BY DEF TokenInv, TypeOK
<1>2. /\ nodeCacheAt \in Nat /\ nodeCacheAt' \in Nat
      /\ depCacheAt \in Nat /\ depCacheAt' \in Nat
  BY <1>1, PositionType
<1>3. TypeOK'
  BY <1>2 DEF TokenInv, TypeOK, ctlVars
<1>4. TokenConserved'
  BY DEF TokenInv, TokenConserved, Holders, ctlVars
<1>5. CountsFresh'
  <2>1. worker \in [Worker -> WorkerState] /\ appliedAt \in [Deployment -> Nat]
    BY DEF TokenInv, TypeOK
  <2>2. worker' = worker /\ appliedAt' = appliedAt /\ Holders' = Holders
    BY DEF ctlVars, Holders
  <2>3. ASSUME NEW d \in Deployment PROVE appliedAt'[d] <= nodeCacheAt'
    BY <1>2, <2>1, <2>2, <2>3 DEF TokenInv, CountsFresh
  <2>4. ASSUME NEW w \in Holders, NEW d \in Deployment, worker[w].patching # {}
        PROVE  appliedAt'[d] <= worker'[w].readAt /\ worker'[w].readAt <= nodeCacheAt'
    <3>1. worker[w].readAt \in Nat
      BY <2>1 DEF Holders, WorkerState
    <3>2. QED
      BY <1>2, <2>1, <2>2, <2>4, <3>1 DEF TokenInv, CountsFresh
  <2>5. QED
    BY <2>2, <2>3, <2>4 DEF TokenInv, CountsFresh
<1>6. QED
  BY <1>3, <1>4, <1>5 DEF TokenInv

LEMMA ChangeNodeStep ==
    ASSUME TokenInv, NEW n \in Node, NEW st \in NodeStatus,
           ChangeNode(n, st), UNCHANGED ctlVars
    PROVE  TokenInv'
<1>1. ApiTypeOK
  BY DEF TokenInv, TypeOK
<1>2. [node |-> n, world |-> [Nodes EXCEPT ![n] = st]] \in NodeEvent
  BY <1>1, StoreType DEF Nodes, ApiTypeOK, NodeWorld, NodeEvent
<1>3. nodeLog' \in Seq(NodeEvent) /\ Len(nodeLog') = Len(nodeLog) + 1
  BY <1>1, <1>2 DEF ApiTypeOK, ChangeNode
<1>4. budget' \in Budget
  BY <1>1, BudgetType DEF ApiTypeOK, ChangeNode
<1>5. ApiTypeOK'
  BY <1>1, <1>3, <1>4, PositionType DEF ApiTypeOK, ChangeNode
<1>6. QED
  BY <1>1, <1>5, OutsideStep, PositionType DEF ChangeNode

LEMMA EditDeploymentStep ==
    ASSUME TokenInv, NEW d \in Deployment, NEW st \in UserStates,
           EditDeployment(d, st), UNCHANGED ctlVars
    PROVE  TokenInv'
<1>1. ApiTypeOK
  BY DEF TokenInv, TypeOK
<1>2. st \in DepState
  <2>1. CASE st = NoDep
    BY <2>1 DEF DepState, NoDep, Mode
  <2>2. CASE st \in [exists : {TRUE}, mode : Mode, replicas : EditReplicas]
    BY <2>2, BoundAssumption DEF DepState
  <2>3. QED
    BY <2>1, <2>2 DEF UserStates
<1>3. depLog' \in Seq(DepEvent) /\ Len(depLog') >= Len(depLog)
  BY <1>1, <1>2, WriteType DEF EditDeployment
<1>4. budget' \in Budget
  BY <1>1, BudgetType DEF ApiTypeOK, EditDeployment
<1>5. ApiTypeOK'
  BY <1>1, <1>3, <1>4, PositionType DEF ApiTypeOK, EditDeployment
<1>6. QED
  BY <1>1, <1>5, OutsideStep, PositionType DEF EditDeployment

LEMMA InformerStep ==
    ASSUME TokenInv, NodeInformer \/ DepInformer
    PROVE  TokenInv'
<1>1. ApiTypeOK
  BY DEF TokenInv, TypeOK
<1>2. ApiTypeOK'
  BY <1>1 DEF ApiTypeOK, NodeInformer, DepInformer, DeliverNodeEvent, DeliverDepEvent
<1>3. QED
  BY <1>1, <1>2, OutsideStep
     DEF ApiTypeOK, NodeInformer, DepInformer, DeliverNodeEvent, DeliverDepEvent

(* A restart begins again from a state like an initial one.                *)
LEMMA RestartStep ==
    ASSUME TokenInv, Restart
    PROVE  TokenInv'
<1>1. ApiTypeOK
  BY DEF TokenInv, TypeOK
<1>2. Nodes \in NodeWorld /\ Deps \in DepWorld
  BY <1>1, StoreType DEF Nodes, Deps, ApiTypeOK
<1>3. nodeLog' \in Seq(NodeEvent) /\ depLog' \in Seq(DepEvent)
  BY <1>2, NodeListingType, DepListingType DEF Restart, StartFrom
<1>a. budget' \in Budget
  BY <1>1, BudgetType DEF ApiTypeOK, Restart
<1>4. ApiTypeOK'
  BY <1>1, <1>3, <1>a DEF ApiTypeOK, Restart, StartFrom
<1>5. TypeOK'
  BY <1>4 DEF Restart, StartFrom, TypeOK, WorkerState, Idle
<1>6. TokenConserved' /\ CountsFresh'
  BY DEF Restart, StartFrom, TokenConserved, CountsFresh, Holders, Idle
<1>7. QED
  BY <1>5, <1>6 DEF TokenInv

(* The snapshots hold deployments.                                         *)
LEMMA SnapshotType ==
    ASSUME TokenInv, NEW at \in Nat, NEW ds \in SUBSET Deployment
    PROVE  /\ Waiting(at, ds) \in WorkerState
           /\ Waiting(at, ds).pc # "holding" /\ Waiting(at, ds).patching = {}
BY DEF Waiting, Idle, WorkerState

(* A goroutine that is not holding the token and is not given it: the      *)
(* token and the applied counts are as they were.                          *)
LEMMA SnapshotStep ==
    ASSUME TokenInv, NEW w \in Worker, worker[w].pc = "idle",
           NEW r \in WorkerState, r.pc # "holding", r.patching = {},
           worker' = [worker EXCEPT ![w] = r],
           UNCHANGED <<nodeLog, depLog, listed, nodeCacheAt, depCacheAt, token, appliedAt>>,
           UNCHANGED budget \/ Fault,
           nodeHandled' \in 0 .. nodeCacheAt, depHandled' \in 0 .. depCacheAt,
           missed' \in SUBSET Deployment
    PROVE  TokenInv'
<1>1. ApiTypeOK'
  BY BudgetType DEF TokenInv, TypeOK, ApiTypeOK, Fault
<1>2. TypeOK'
  BY <1>1 DEF TokenInv, TypeOK, ApiTypeOK
<1>3. Holders' = Holders
  BY DEF TokenInv, TypeOK, Holders, WorkerState
<1>4. TokenConserved'
  BY <1>3 DEF TokenInv, TokenConserved
<1>5. CountsFresh'
  BY <1>3 DEF TokenInv, TypeOK, CountsFresh, Holders
<1>6. QED
  BY <1>2, <1>4, <1>5 DEF TokenInv

LEMMA InitRoutineStep ==
    ASSUME TokenInv, InitRoutine
    PROVE  TokenInv'
<1>1. depCacheAt \in Nat /\ "init" \in Worker /\ worker["init"].pc = "idle"
  BY PositionType DEF TokenInv, TypeOK, Worker, InitRoutine, InitialSync, InitialSyncFails
<1>2. CASE InitialSync
  <2> DEFINE r == Waiting(depCacheAt, OwnDeployments(depCacheAt))
  <2>1. r \in WorkerState /\ r.pc # "holding" /\ r.patching = {}
    BY <1>1, SnapshotType DEF OwnDeployments
  <2>2. QED
    BY <1>1, <1>2, <2>1, SnapshotStep DEF InitialSync, apiVars, TokenInv, TypeOK
<1>3. CASE InitialSyncFails
  <2>1. Done \in WorkerState /\ Done.pc # "holding" /\ Done.patching = {}
    BY DEF Done, Idle, WorkerState
  <2>2. QED
    BY <1>1, <1>3, <2>1, SnapshotStep DEF InitialSyncFails, TokenInv, TypeOK
<1>4. QED
  BY <1>2, <1>3 DEF InitRoutine

LEMMA NodeCallbackStep ==
    ASSUME TokenInv, NodeCallback
    PROVE  TokenInv'
<1>1. TakeNodeEvent
  BY DEF NodeCallback, IgnoreNodeEvent, HandleNodeEvent, HandleNodeEventFails
<1>2. /\ depCacheAt \in Nat /\ nodeCacheAt \in Nat
      /\ "node" \in Worker /\ worker["node"].pc = "idle"
  BY <1>1, PositionType DEF TokenInv, TypeOK, Worker, TakeNodeEvent
<1>3. nodeHandled' \in 0 .. nodeCacheAt
  BY <1>1, <1>2 DEF TokenInv, TypeOK, TakeNodeEvent
<1>4. CASE IgnoreNodeEvent
  <2>1. /\ worker' = [worker EXCEPT !["node"] = worker["node"]]
        /\ worker["node"] \in WorkerState /\ worker["node"].patching = {}
    BY <1>2, <1>4 DEF IgnoreNodeEvent, TokenInv, TypeOK, CountsFresh, Holders
  <2>2. QED
    BY <1>2, <1>3, <1>4, <2>1, SnapshotStep
       DEF IgnoreNodeEvent, apiVars, TokenInv, TypeOK
<1>5. CASE HandleNodeEvent
  <2> DEFINE r == Waiting(depCacheAt,
                          RelatedDeployments(depCacheAt, NodeCluster[NextNode]))
  <2>1. r \in WorkerState /\ r.pc # "holding" /\ r.patching = {}
    BY <1>2, SnapshotType DEF RelatedDeployments
  <2>2. QED
    BY <1>2, <1>3, <1>5, <2>1, SnapshotStep
       DEF HandleNodeEvent, apiVars, TokenInv, TypeOK
<1>6. CASE HandleNodeEventFails
  <2>1. /\ Waiting(depCacheAt, {}) \in WorkerState
        /\ Waiting(depCacheAt, {}).pc # "holding"
        /\ Waiting(depCacheAt, {}).patching = {}
    BY <1>2, SnapshotType
  <2>2. QED
    BY <1>2, <1>3, <1>6, <2>1, SnapshotStep
       DEF HandleNodeEventFails, TokenInv, TypeOK
<1>7. QED
  BY <1>4, <1>5, <1>6 DEF NodeCallback

LEMMA DepCallbackStep ==
    ASSUME TokenInv, DepCallback
    PROVE  TokenInv'
<1>1. TakeDepEvent
  BY DEF DepCallback, IgnoreDepEvent, HandleDepEvent
<1>2. /\ depCacheAt \in Nat /\ depHandled \in Nat
      /\ "dep" \in Worker /\ worker["dep"].pc = "idle"
  BY <1>1, PositionType DEF TokenInv, TypeOK, Worker, TakeDepEvent
<1>3. depHandled' \in 0 .. depCacheAt
  BY <1>1, <1>2 DEF TokenInv, TypeOK, TakeDepEvent
<1>4. CASE IgnoreDepEvent
  <2>1. /\ worker' = [worker EXCEPT !["dep"] = worker["dep"]]
        /\ worker["dep"] \in WorkerState /\ worker["dep"].patching = {}
    BY <1>2, <1>4 DEF IgnoreDepEvent, TokenInv, TypeOK, CountsFresh, Holders
  <2>2. QED
    BY <1>2, <1>3, <1>4, <2>1, SnapshotStep
       DEF IgnoreDepEvent, apiVars, TokenInv, TypeOK
<1>5. CASE HandleDepEvent
  <2>1. NextDep \in Deployment
    <3>1. depHandled + 1 \in 1 .. Len(depLog)
      BY <1>1, <1>2, PositionType DEF TakeDepEvent, TokenInv, TypeOK
    <3>2. depLog[depHandled + 1] \in DepEvent
      BY <3>1 DEF TokenInv, TypeOK, ApiTypeOK
    <3>3. QED
      BY <3>2 DEF NextDep, DepEvent
  <2> DEFINE r == Waiting(depHandled + 1, {NextDep})
  <2>2. r \in WorkerState /\ r.pc # "holding" /\ r.patching = {}
    <3>1. depHandled + 1 \in Nat /\ {NextDep} \in SUBSET Deployment
      BY <1>2, <2>1
    <3>2. QED
      BY <3>1, SnapshotType
  <2>3. QED
    BY <1>2, <1>3, <1>5, <2>2, SnapshotStep
       DEF HandleDepEvent, apiVars, TokenInv, TypeOK
<1>6. QED
  BY <1>4, <1>5 DEF DepCallback

(* The holder of the token moves on in its loop and applies nothing.       *)
LEMMA HolderStep ==
    ASSUME TokenInv, NEW w \in Worker, worker[w].pc = "holding",
           NEW r \in WorkerState, r.pc = "holding",
           \/ r.patching = {}
           \/ r.readAt = nodeCacheAt
           \/ r.readAt = worker[w].readAt /\ worker[w].patching # {},
           worker' = [worker EXCEPT ![w] = r],
           UNCHANGED <<nodeLog, depLog, listed, nodeCacheAt, depCacheAt>>,
           UNCHANGED <<token, nodeHandled, depHandled, appliedAt>>,
           UNCHANGED budget \/ Fault,
           missed' \in SUBSET Deployment
    PROVE  TokenInv'
<1>1. ApiTypeOK'
  BY BudgetType DEF TokenInv, TypeOK, ApiTypeOK, Fault
<1>2. TypeOK'
  BY <1>1 DEF TokenInv, TypeOK
<1>3. Holders' = Holders
  BY DEF TokenInv, TypeOK, Holders
<1>4. TokenConserved'
  BY <1>3 DEF TokenInv, TokenConserved
<1>5. nodeCacheAt \in Nat
  BY PositionType DEF TokenInv, TypeOK
<1>6. CountsFresh'
  BY <1>3, <1>5 DEF TokenInv, TypeOK, CountsFresh, Holders
<1>7. QED
  BY <1>2, <1>4, <1>6 DEF TokenInv

(* The token is taken from the channel by one goroutine, which has counted *)
(* nothing yet.                                                            *)
LEMMA AcquireStep ==
    ASSUME TokenInv, NEW w \in Worker, Acquire(w)
    PROVE  TokenInv'
<1>1. token = 1 /\ token' = 0 /\ Holders = {}
  BY DEF TokenInv, TypeOK, TokenConserved, Acquire
<1>2. Holders' = {w}
  BY <1>1 DEF TokenInv, TypeOK, Holders, Acquire
<1>3. TypeOK'
  BY <1>1 DEF TokenInv, TypeOK, ApiTypeOK, apiVars, Acquire, WorkerState
<1>4. TokenConserved'
  BY <1>1, <1>2 DEF TokenConserved
<1>5. CountsFresh'
  <2>1. worker[w].patching = {} /\ worker'[w].patching = {}
    BY <1>1 DEF TokenInv, TypeOK, WorkerState, CountsFresh, Acquire
  <2>2. \A v \in Worker : worker'[v].patching = {}
    BY <1>1, <2>1 DEF TokenInv, TypeOK, CountsFresh, Acquire
  <2>3. nodeCacheAt' = nodeCacheAt /\ appliedAt' = appliedAt
    BY DEF Acquire, apiVars
  <2>4. QED
    BY <2>2, <2>3 DEF TokenInv, CountsFresh, Holders
<1>6. QED
  BY <1>3, <1>4, <1>5 DEF TokenInv

(* The holder gives the token back and is the only one to do so.           *)
LEMMA ReleaseStep ==
    ASSUME TokenInv, NEW w \in Worker, Release(w)
    PROVE  TokenInv'
<1>1. token = 0 /\ token' = 1 /\ Holders = {w}
  BY DEF TokenInv, TypeOK, TokenConserved, Holders, Release
<1>2. /\ Idle \in WorkerState /\ Idle.pc # "holding" /\ Idle.patching = {}
      /\ Done \in WorkerState /\ Done.pc # "holding" /\ Done.patching = {}
  BY DEF Idle, Done, WorkerState
<1>3. Holders' = {}
  BY <1>1, <1>2 DEF TokenInv, TypeOK, Holders, Release
<1>4. TypeOK'
  BY <1>1, <1>2 DEF TokenInv, TypeOK, ApiTypeOK, apiVars, Release
<1>5. TokenConserved'
  BY <1>1, <1>3 DEF TokenConserved
<1>6. CountsFresh'
  <2>1. \A v \in Worker : worker'[v].patching = {}
    BY <1>1, <1>2 DEF TokenInv, TypeOK, CountsFresh, Release
  <2>2. QED
    BY <1>3, <2>1 DEF TokenInv, CountsFresh, Release, apiVars
<1>7. QED
  BY <1>4, <1>5, <1>6 DEF TokenInv

(* A count on its way to the API server is part of a goroutine's state.    *)
LEMMA CountedType ==
    ASSUME NEW r \in WorkerState, NEW d \in Deployment, NEW n \in Nat, NEW i \in Nat
    PROVE  /\ Counted(r, d, n, i) \in WorkerState
           /\ Counted(r, d, n, i).pc = r.pc
           /\ Counted(r, d, n, i).readAt = i
BY DEF WorkerState, Counted

(* The steps of the loop that apply nothing.                               *)
LEMMA LoopStep ==
    ASSUME TokenInv, NEW w \in Worker, NEW d \in Deployment,
           \/ SkipDeployment(w, d)
           \/ CountNodes(w, d)
           \/ CountNodesFails(w, d)
           \/ PatchFails(w, d)
    PROVE  TokenInv'
<1>1. worker[w] \in WorkerState /\ worker[w].pc = "holding" /\ missed \in SUBSET Deployment
  BY DEF TokenInv, TypeOK, SkipDeployment, CountNodes, CountNodesFails, PatchFails,
         AtDeployment
<1> DEFINE skipped == Passed(worker[w], d)
<1>2. skipped \in WorkerState /\ skipped.pc = "holding" /\ skipped.patching = worker[w].patching
  BY <1>1 DEF WorkerState, Passed
<1>3. CASE SkipDeployment(w, d)
  <2>1. worker' = [worker EXCEPT ![w] = skipped]
    BY <1>3 DEF SkipDeployment
  <2>2. QED
    BY <1>1, <1>2, <1>3, <2>1, HolderStep DEF SkipDeployment, AtDeployment, apiVars
<1>4. CASE CountNodes(w, d)
  <2>1. PICK n \in Nat : n = ReadyCount(nodeCacheAt, d)
    BY ReadyCountType
  <2>2. nodeCacheAt \in Nat
    BY PositionType DEF TokenInv, TypeOK
  <2> DEFINE counted == Counted(worker[w], d, n, nodeCacheAt)
  <2>3. /\ counted \in WorkerState /\ counted.pc = "holding"
        /\ counted.readAt = nodeCacheAt
    BY <1>1, <2>2, CountedType
  <2>4. /\ worker[w].patching = {}
        /\ UNCHANGED <<apiVars, token, nodeHandled, depHandled, appliedAt, missed>>
    BY <1>4 DEF CountNodes, AtDeployment
  <2>5. CASE worker' = [worker EXCEPT ![w] = skipped]
    BY <1>1, <1>2, <2>4, <2>5, HolderStep DEF apiVars
  <2>6. CASE worker' = [worker EXCEPT ![w] = counted]
    BY <1>1, <2>3, <2>4, <2>6, HolderStep DEF apiVars
  <2>7. QED
    BY <1>4, <2>1, <2>5, <2>6 DEF CountNodes
<1>5. CASE CountNodesFails(w, d)
  <2>1. worker' = [worker EXCEPT ![w] = skipped]
    BY <1>5 DEF CountNodesFails
  <2>2. missed' \in SUBSET Deployment
    BY <1>1, <1>5 DEF CountNodesFails
  <2>3. QED
    BY <1>1, <1>2, <1>5, <2>1, <2>2, HolderStep DEF CountNodesFails, AtDeployment
<1>6. CASE PatchFails(w, d)
  <2>1. /\ PatchDone(worker[w]) \in WorkerState
        /\ PatchDone(worker[w]).pc = "holding"
        /\ PatchDone(worker[w]).patching = {}
    BY <1>1 DEF PatchDone, WorkerState
  <2>2. worker' = [worker EXCEPT ![w] = PatchDone(worker[w])]
    BY <1>6 DEF PatchFails
  <2>3. missed' \in SUBSET Deployment
    BY <1>1, <1>6 DEF PatchFails
  <2>4. QED
    BY <1>1, <1>6, <2>1, <2>2, <2>3, HolderStep DEF PatchFails
<1>7. QED
  BY <1>3, <1>4, <1>5, <1>6

(* The holder applies its count: nobody else is about to apply one, so the *)
(* position it was read at may become the newest applied.                  *)
LEMMA PatchStep ==
    ASSUME TokenInv, NEW w \in Worker, NEW d \in Deployment, Patch(w, d)
    PROVE  /\ TokenInv'
           /\ \A e \in Deployment : appliedAt'[e] >= appliedAt[e]
<1>1. /\ worker[w] \in WorkerState /\ worker[w].patching # {}
      /\ appliedAt \in [Deployment -> Nat] /\ ApiTypeOK
  BY DEF TokenInv, TypeOK, Patch
<1>2. Holders = {w}
  BY DEF TokenInv, TypeOK, TokenConserved, Holders, Patch
<1>3. /\ worker[w].readAt \in Nat /\ worker[w].readAt <= nodeCacheAt
      /\ \A e \in Deployment : appliedAt[e] <= worker[w].readAt
  BY <1>1, <1>2 DEF TokenInv, CountsFresh, WorkerState
<1>4. /\ appliedAt' \in [Deployment -> Nat]
      /\ \A e \in Deployment : appliedAt'[e] \in {appliedAt[e], worker[w].readAt}
  BY <1>1, <1>3 DEF Patch
<1>5. depLog' \in Seq(DepEvent) /\ Len(depLog') >= Len(depLog)
  <2>1. CASE Deps[d].exists
    <3>1. Deps \in DepWorld
      BY <1>1, StoreType, PositionType DEF Deps
    <3>2. [Deps[d] EXCEPT !.replicas = worker[w].count] \in DepState
      BY <1>1, <3>1 DEF DepWorld, DepState, WorkerState
    <3>3. QED
      BY <1>1, <2>1, <3>2, WriteType DEF Patch
  <2>2. CASE ~Deps[d].exists
    BY <1>1, <2>2, PositionType DEF Patch, ApiTypeOK
  <2>3. QED
    BY <2>1, <2>2
<1>6. ApiTypeOK'
  BY <1>1, <1>5, PositionType DEF ApiTypeOK, Patch
<1>7. /\ PatchDone(worker[w]) \in WorkerState
      /\ PatchDone(worker[w]).pc = worker[w].pc
      /\ PatchDone(worker[w]).patching = {}
  BY <1>1 DEF PatchDone, WorkerState
<1>8. TypeOK'
  BY <1>4, <1>6, <1>7 DEF TokenInv, TypeOK, Patch
<1>9. Holders' = Holders
  BY <1>7 DEF TokenInv, TypeOK, Holders, Patch
<1>10. TokenConserved'
  BY <1>9 DEF TokenInv, TokenConserved, Patch
<1>11. CountsFresh'
  <2>1. nodeCacheAt' = nodeCacheAt /\ nodeCacheAt \in Nat
    BY <1>1, PositionType DEF Patch
  <2>2. \A e \in Deployment : appliedAt'[e] <= nodeCacheAt
    BY <1>1, <1>3, <1>4, <2>1 DEF TokenInv, CountsFresh
  <2>3. worker'[w].patching = {}
    BY <1>7 DEF TokenInv, TypeOK, Patch
  <2>4. \A v \in Worker \ Holders : worker'[v].patching = {}
    BY <1>2 DEF TokenInv, TypeOK, CountsFresh, Patch
  <2>5. QED
    BY <1>2, <1>9, <2>1, <2>2, <2>3, <2>4 DEF CountsFresh
<1>12. \A e \in Deployment : appliedAt'[e] >= appliedAt[e]
  BY <1>1, <1>3, <1>4
<1>13. QED
  BY <1>8, <1>10, <1>11, <1>12 DEF TokenInv

(* Every step keeps the invariant, one case for each kind of step.         *)
LEMMA TokenInvNext == TokenInv /\ [Next]_vars => TokenInv'
<1> SUFFICES ASSUME TokenInv, [Next]_vars PROVE TokenInv'
  OBVIOUS
<1>1. CASE Environment
  <2>1. ASSUME NEW n \in Node, NEW st \in NodeStatus,
               ChangeNode(n, st), UNCHANGED ctlVars
        PROVE  TokenInv'
    BY <2>1, ChangeNodeStep
  <2>2. ASSUME NEW d \in Deployment, NEW st \in UserStates,
               EditDeployment(d, st), UNCHANGED ctlVars
        PROVE  TokenInv'
    BY <2>2, EditDeploymentStep
  <2>3. QED
    BY <1>1, <2>1, <2>2, RestartStep DEF Environment
<1>2. CASE NodeInformer \/ DepInformer
  BY <1>2, InformerStep
<1>3. CASE InitRoutine
  BY <1>3, InitRoutineStep
<1>4. CASE NodeCallback
  BY <1>4, NodeCallbackStep
<1>5. CASE DepCallback
  BY <1>5, DepCallbackStep
<1>6. ASSUME NEW w \in Worker, Update(w) PROVE TokenInv'
  <2>1. CASE Acquire(w)
    BY <2>1, AcquireStep
  <2>2. CASE Release(w)
    BY <2>2, ReleaseStep
  <2>3. ASSUME NEW d \in Deployment, Patch(w, d) PROVE TokenInv'
    BY <2>3, PatchStep
  <2>4. ASSUME NEW d \in Deployment,
               \/ SkipDeployment(w, d)
               \/ CountNodes(w, d)
               \/ CountNodesFails(w, d)
               \/ PatchFails(w, d)
        PROVE  TokenInv'
    BY <2>4, LoopStep
  <2>5. QED
    BY <1>6, <2>1, <2>2, <2>3, <2>4 DEF Update
<1>7. CASE UNCHANGED vars
  BY <1>7 DEF vars, apiVars, ctlVars, TokenInv, TypeOK, ApiTypeOK,
              TokenConserved, CountsFresh, Holders
<1>8. QED
  BY <1>1, <1>2, <1>3, <1>4, <1>5, <1>6, <1>7 DEF Next

(* The invariant holds in every reachable state of the controller.         *)
THEOREM TokenInvariant == Spec => []TokenInv
BY TokenInvInit, TokenInvNext, PTL DEF Spec

(* Every variable of the controller, the caches and the logs stays in its  *)
(* domain; the update token never exceeds the capacity of its channel.     *)
THEOREM TypeCorrect == Spec => []TypeOK
<1>1. TokenInv => TypeOK
  BY DEF TokenInv
<1>2. QED
  BY <1>1, TokenInvariant, PTL

(* The update token is never lost and never doubled, so at most one of the *)
(* goroutines counts vnodes and patches deployments at a time.             *)
THEOREM TokenNeverLost == Spec => []TokenConserved
<1>1. TokenInv => TokenConserved
  BY DEF TokenInv
<1>2. QED
  BY <1>1, TokenInvariant, PTL

(* No goroutine overwrites the count of a newer vnode cache with an older  *)
(* one: patches of a deployment follow the vnode history of the process.   *)
THEOREM PatchesInOrder == Spec => PatchesFollowNodes
<1> DEFINE Step == \A d \in Deployment :
        appliedAt'[d] >= appliedAt[d] \/ budget'.restarts # budget.restarts
<1>1. TokenInv /\ [Next]_vars => [Step]_vars
  <2> SUFFICES ASSUME TokenInv, Next PROVE Step
    BY DEF vars
  <2>1. \A d \in Deployment : appliedAt[d] \in Nat
    BY DEF TokenInv, TypeOK
  <2>2. CASE Restart
    <3>1. budget \in Budget
      BY DEF TokenInv, TypeOK, ApiTypeOK
    <3>2. QED
      BY <2>2, <3>1 DEF Restart, Budget
  <2>3. ASSUME NEW w \in Worker, NEW d \in Deployment, Patch(w, d) PROVE Step
    BY <2>3, PatchStep
  <2>4. CASE appliedAt' = appliedAt
    BY <2>1, <2>4
  <2>5. QED
    BY <2>2, <2>3, <2>4
       DEF Next, Environment, NodeInformer, DepInformer, InitRoutine, NodeCallback,
           DepCallback, Update, ctlVars, InitialSync, InitialSyncFails,
           IgnoreNodeEvent, HandleNodeEvent, HandleNodeEventFails, IgnoreDepEvent,
           HandleDepEvent, Acquire, Release, SkipDeployment, CountNodes,
           CountNodesFails, PatchFails
<1>2. QED
  BY <1>1, TokenInvariant, PTL DEF Spec, PatchesFollowNodes

-----------------------------------------------------------------------------
(* Nobody is forgotten: a deployment the controller is responsible for     *)
(* is attended to until its replicas are right (SettledInv).               *)

(* What a cache that follows a log holds at a position of it.              *)
DepsAt(log, i) == IF i = 0 THEN [d \in Deployment |-> NoDep] ELSE log[i].world
NodesAt(log, i) == IF i = 0 THEN [n \in Node |-> "absent"] ELSE log[i].world

(* The log of a listing tells each deployment once, by its own event.      *)
LEMMA DepListingTold ==
    ASSUME NEW w \in DepWorld, NEW log \in DepListings(w),
           NEW i \in 0 .. Len(log), NEW d \in Deployment,
           \A j \in i + 1 .. Len(log) : log[j].dep # d
    PROVE  DepsAt(log, i)[d] = DepsAt(log, Len(log))[d]
<1>1. IsFiniteSet({e \in Deployment : w[e].exists})
  BY NodeAssumption, FS_Subset
<1>2. PICK s \in Orders({e \in Deployment : w[e].exists}) : log = DepListing(w, s)
  BY DEF DepListings
<1>3. Len(s) \in Nat /\ Len(log) = Len(s)
  BY <1>1, <1>2, OrdersAreSequences DEF DepListing
<1>4. /\ \A k \in 1 .. Len(s) : /\ log[k].dep = s[k]
                                /\ log[k].world[d] =
                                    IF \E j \in 1 .. k : s[j] = d THEN w[d] ELSE NoDep
  BY <1>2 DEF DepListing
<1>5. \A k \in 0 .. Len(s) :
        DepsAt(log, k)[d] = IF \E j \in 1 .. k : s[j] = d THEN w[d] ELSE NoDep
  <2>1. ASSUME NEW k \in 0 .. Len(s), k # 0 PROVE k \in 1 .. Len(s)
    BY <1>3, <2>1
  <2>2. DepsAt(log, 0)[d] = NoDep /\ ~\E j \in 1 .. 0 : s[j] = d
    BY DEF DepsAt
  <2>3. QED
    BY <1>4, <2>1, <2>2 DEF DepsAt
<1>6. (\E j \in 1 .. i : s[j] = d) <=> \E j \in 1 .. Len(s) : s[j] = d
  BY <1>3, <1>4
<1>7. QED
  BY <1>3, <1>5, <1>6

(* The same for vnodes.                                                    *)
LEMMA NodeListingTold ==
    ASSUME NEW w \in NodeWorld, NEW log \in NodeListings(w),
           NEW i \in 1 .. Len(log), NEW n \in Node, n # log[i].node
    PROVE  NodesAt(log, i)[n] = NodesAt(log, i - 1)[n]
<1>1. IsFiniteSet({m \in Node : w[m] # "absent"})
  BY NodeAssumption, FS_Subset
<1>2. PICK s \in Orders({m \in Node : w[m] # "absent"}) : log = NodeListing(w, s)
  BY DEF NodeListings
<1>3. Len(s) \in Nat /\ Len(log) = Len(s)
  BY <1>1, <1>2, OrdersAreSequences DEF NodeListing
<1>4. \A k \in 1 .. Len(s) : /\ log[k].node = s[k]
                             /\ log[k].world[n] =
                                    IF \E j \in 1 .. k : s[j] = n THEN w[n] ELSE "absent"
  BY <1>2 DEF NodeListing
<1>5. \A k \in 0 .. Len(s) :
        NodesAt(log, k)[n] = IF \E j \in 1 .. k : s[j] = n THEN w[n] ELSE "absent"
  <2>1. ASSUME NEW k \in 0 .. Len(s), k # 0 PROVE k \in 1 .. Len(s)
    BY <1>3, <2>1
  <2>2. NodesAt(log, 0)[n] = "absent" /\ ~\E j \in 1 .. 0 : s[j] = n
    BY DEF NodesAt
  <2>3. QED
    BY <1>4, <2>1, <2>2 DEF NodesAt
<1>6. (\E j \in 1 .. i : s[j] = n) <=> \E j \in 1 .. i - 1 : s[j] = n
  BY <1>3, <1>4
<1>7. QED
  BY <1>3, <1>5, <1>6

(* The logs of a fresh listing.                                            *)
LEMMA ListingTold ==
    /\ (\E w \in DepWorld : depLog \in DepListings(w)) => DepsTold
    /\ (\E w \in DepWorld : depLog' \in DepListings(w)) => DepsTold'
    /\ (\E w \in NodeWorld : nodeLog \in NodeListings(w)) => NodesTold
    /\ (\E w \in NodeWorld : nodeLog' \in NodeListings(w)) => NodesTold'
<1>1. ASSUME NEW w \in DepWorld, depLog \in DepListings(w) PROVE DepsTold
  BY <1>1, DepListingTold DEF DepsTold, Deps, DepStore, DepsAt
<1>2. ASSUME NEW w \in DepWorld, depLog' \in DepListings(w) PROVE DepsTold'
  BY <1>2, DepListingTold DEF DepsTold, Deps, DepStore, DepsAt
<1>3. ASSUME NEW w \in NodeWorld, nodeLog \in NodeListings(w) PROVE NodesTold
  BY <1>3, NodeListingTold DEF NodesTold, NodeStore, NodesAt
<1>4. ASSUME NEW w \in NodeWorld, nodeLog' \in NodeListings(w) PROVE NodesTold'
  BY <1>4, NodeListingTold DEF NodesTold, NodeStore, NodesAt
<1>5. QED
  BY <1>1, <1>2, <1>3, <1>4

(* Writes and status changes are told as well.                             *)
LEMMA WriteTold ==
    ASSUME ApiTypeOK, DepsTold, NEW e \in Deployment, NEW st \in DepState,
           WriteDeployment(e, st)
    PROVE  /\ DepsTold'
           /\ UNCHANGED depLog \/ \E ev : depLog' = Append(depLog, ev)
           /\ \A d \in Deployment \ {e} : Deps'[d] = Deps[d]
           /\ Deps[e] # st =>
                /\ Len(depLog') = Len(depLog) + 1
                /\ depLog'[Len(depLog) + 1].dep = e
<1>1. depLog \in Seq(DepEvent) /\ Len(depLog) \in Nat /\ Deps \in DepWorld
  BY StoreType DEF ApiTypeOK, Deps
<1>2. CASE Deps[e] = st
  BY <1>2 DEF WriteDeployment, DepsTold, Deps, DepStore
<1>3. CASE Deps[e] # st
  <2> DEFINE ev == [dep |-> e, world |-> [Deps EXCEPT ![e] = st]]
             n == Len(depLog)
  <2>1. depLog' = Append(depLog, ev)
    BY <1>3 DEF WriteDeployment
  <2>2. /\ Len(depLog') = n + 1 /\ depLog'[n + 1] = ev
        /\ \A i \in 1 .. n : depLog'[i] = depLog[i]
    BY <1>1, <2>1
  <2>3. Deps' = [Deps EXCEPT ![e] = st]
    BY <1>1, <2>2 DEF Deps, DepStore
  <2>4. \A d \in Deployment \ {e} : Deps'[d] = Deps[d]
    BY <1>1, <2>3 DEF DepWorld
  <2>5. ASSUME NEW i \in 0 .. n + 1, NEW d \in Deployment,
               \A j \in i + 1 .. n + 1 : depLog'[j].dep # d
        PROVE  DepStore(i)'[d] = Deps'[d]
    <3>1. CASE i = n + 1
      BY <1>1, <2>2, <3>1 DEF Deps, DepStore
    <3>2. CASE i # n + 1
      <4>1. i \in 0 .. n /\ d # e
        BY <1>1, <2>2, <2>5, <3>2
      <4>2. \A j \in i + 1 .. n : depLog[j].dep # d
        BY <1>1, <2>2, <2>5
      <4>3. DepStore(i)[d] = Deps[d]
        BY <4>1, <4>2 DEF DepsTold
      <4>4. DepStore(i)' = DepStore(i)
        BY <1>1, <2>2, <4>1 DEF DepStore
      <4>5. QED
        BY <2>4, <4>1, <4>3, <4>4
    <3>3. QED
      BY <3>1, <3>2
  <2>6. DepsTold'
    BY <2>2, <2>5 DEF DepsTold
  <2>7. QED
    BY <2>1, <2>2, <2>4, <2>6
<1>4. QED
  BY <1>2, <1>3

(* The same for vnodes.                                                    *)
LEMMA ChangeTold ==
    ASSUME ApiTypeOK, NodesTold, NEW m \in Node, NEW st \in NodeStatus, ChangeNode(m, st)
    PROVE  NodesTold'
<1> DEFINE ev == [node |-> m, world |-> [Nodes EXCEPT ![m] = st]]
           k == Len(nodeLog)
<1>1. /\ nodeLog \in Seq(NodeEvent) /\ k \in Nat /\ Nodes \in NodeWorld
  BY StoreType DEF ApiTypeOK, Nodes
<1>2. /\ Len(nodeLog') = k + 1 /\ nodeLog'[k + 1] = ev
      /\ \A i \in 1 .. k : nodeLog'[i] = nodeLog[i]
  BY <1>1 DEF ChangeNode
<1>3. \A i \in 0 .. k : NodeStore(i)' = NodeStore(i)
  BY <1>1, <1>2 DEF NodeStore
<1>4. ASSUME NEW i \in 1 .. k + 1, NEW n \in Node, n # nodeLog'[i].node
      PROVE  NodeStore(i)'[n] = NodeStore(i - 1)'[n]
  <2>1. CASE i = k + 1
    <3>1. NodeStore(i)' = [Nodes EXCEPT ![m] = st] /\ NodeStore(i - 1)' = Nodes
      BY <1>1, <1>2, <1>3, <2>1 DEF NodeStore, Nodes
    <3>2. n # m
      BY <1>2, <1>4, <2>1
    <3>3. [Nodes EXCEPT ![m] = st][n] = Nodes[n]
      BY <1>1, <3>2 DEF NodeWorld
    <3>4. QED
      BY <3>1, <3>3
  <2>2. CASE i # k + 1
    <3>1. i \in 1 .. k /\ i - 1 \in 0 .. k
      BY <1>1, <2>2
    <3>2. NodeStore(i)[n] = NodeStore(i - 1)[n]
      BY <1>2, <1>4, <3>1 DEF NodesTold
    <3>3. QED
      BY <1>1, <1>3, <3>1, <3>2
  <2>3. QED
    BY <2>1, <2>2
<1>5. QED
  BY <1>2, <1>4 DEF NodesTold

(* What a step leaves of the reasons.                                      *)
DepsKept(d) == /\ UNCHANGED depLog \/ \E ev : depLog' = Append(depLog, ev)
               /\ Deps'[d] = Deps[d]

(* The batches and patches of d are kept, whatever else the goroutines do. *)
BatchesKept(d) ==
    \A w \in Worker :
        /\ worker[w].pc \in {"waiting", "holding"} /\ d \in worker[w].todo
              /\ Snapshot(w, d) = Deps[d] =>
            /\ worker'[w].pc \in {"waiting", "holding"}
            /\ d \in worker'[w].todo
            /\ worker'[w].at = worker[w].at
        /\ worker[w].pc = "holding" /\ d \in worker[w].patching
              /\ worker[w].count # Deps[d].replicas =>
            /\ worker'[w].pc = "holding"
            /\ worker'[w].patching = worker[w].patching
            /\ worker'[w].count = worker[w].count

(* What a cache has seen does not change.                                  *)
LEMMA StoresKept ==
    ASSUME ApiTypeOK, UNCHANGED depLog \/ \E ev : depLog' = Append(depLog, ev)
    PROVE  /\ \A i \in 0 .. Len(depLog) : DepStore(i)' = DepStore(i)
           /\ \A i \in 1 .. Len(depLog) : depLog'[i] = depLog[i]
           /\ Len(depLog') \in Nat /\ Len(depLog') >= Len(depLog)
<1>1. depLog \in Seq(DepEvent) /\ Len(depLog) \in Nat
  BY DEF ApiTypeOK
<1>2. /\ \A i \in 1 .. Len(depLog) : depLog'[i] = depLog[i]
      /\ Len(depLog') \in Nat /\ Len(depLog') >= Len(depLog)
  <2>1. CASE UNCHANGED depLog
    BY <1>1, <2>1
  <2>2. ASSUME NEW ev, depLog' = Append(depLog, ev)
        PROVE  /\ \A i \in 1 .. Len(depLog) : depLog'[i] = depLog[i]
               /\ Len(depLog') = Len(depLog) + 1
    BY <1>1, <2>2
  <2>3. QED
    BY <1>1, <2>1, <2>2
<1>3. \A i \in 0 .. Len(depLog) : DepStore(i)' = DepStore(i)
  BY <1>1, <1>2 DEF DepStore
<1>4. QED
  BY <1>2, <1>3

(* A batch or a patch that goes on is still a reason.                      *)
LEMMA BatchStays ==
    ASSUME TokenInv, SnapshotsKept, NEW d \in Deployment, DepsKept(d), BatchesKept(d)
    PROVE  /\ InBatch(d) => InBatch(d)'
           /\ PatchAhead(d) => PatchAhead(d)'
<1>1. ApiTypeOK
  BY DEF TokenInv, TypeOK
<1>2. \A i \in 0 .. depCacheAt : DepStore(i)' = DepStore(i)
  BY <1>1, StoresKept, PositionType DEF DepsKept
<1>3. ASSUME InBatch(d) PROVE InBatch(d)'
  <2>1. PICK w \in Worker : /\ worker[w].pc \in {"waiting", "holding"}
                            /\ d \in worker[w].todo
                            /\ Snapshot(w, d) = Deps[d]
    BY <1>3 DEF InBatch
  <2>2. PICK i \in 0 .. depCacheAt : i = worker[w].at
    BY DEF SnapshotsKept
  <2>3. worker'[w].at = i
    BY <2>1, <2>2 DEF BatchesKept
  <2>4. Snapshot(w, d)' = DepStore(i)'[d]
    BY <2>3 DEF Snapshot, DepStore
  <2>5. Snapshot(w, d)' = Deps'[d]
    BY <1>2, <2>1, <2>2, <2>4 DEF Snapshot, DepsKept
  <2>6. QED
    BY <2>1, <2>5 DEF InBatch, BatchesKept
<1>4. ASSUME PatchAhead(d) PROVE PatchAhead(d)'
  BY <1>4 DEF PatchAhead, BatchesKept, DepsKept
<1>5. QED
  BY <1>3, <1>4

(* An event that is not handled yet is still to come.                      *)
LEMMA AheadStays ==
    ASSUME TokenInv, NEW d \in Deployment, EventAhead(d),
           UNCHANGED depLog \/ \E ev : depLog' = Append(depLog, ev),
           UNCHANGED depHandled
    PROVE  EventAhead(d)'
<1>1. ApiTypeOK /\ depHandled \in Nat
  BY PositionType DEF TokenInv, TypeOK
<1>2. PICK i \in depHandled + 1 .. Len(depLog) : depLog[i].dep = d
  BY DEF EventAhead
<1>3. /\ \A j \in 1 .. Len(depLog) : depLog'[j] = depLog[j]
      /\ Len(depLog') \in Nat /\ Len(depLog') >= Len(depLog) /\ Len(depLog) \in Nat
  BY <1>1, StoresKept, PositionType
<1>4. depLog'[i].dep = d /\ i \in depHandled' + 1 .. Len(depLog')
  BY <1>1, <1>2, <1>3
<1>5. QED
  BY <1>4 DEF EventAhead

(* Vnodes that change add events, they do not change an earlier count.     *)
LEMMA CountStays ==
    ASSUME TokenInv, TokenInv', NEW d \in Deployment, CountUpheld(d),
           Deps'[d] = Deps[d],
           UNCHANGED nodeLog \/ \E ev : nodeLog' = Append(nodeLog, ev),
           nodeCacheAt' >= nodeCacheAt,
           UNCHANGED nodeHandled
    PROVE  CountUpheld(d)'
<1>1. /\ ApiTypeOK /\ nodeHandled \in Nat /\ nodeCacheAt \in Nat /\ nodeCacheAt' \in Nat
      /\ Len(nodeLog) \in Nat /\ nodeCacheAt <= Len(nodeLog)
  BY PositionType DEF TokenInv, TypeOK
<1>2. PICK i \in nodeHandled .. nodeCacheAt : ReadyCount(i, d) = Deps[d].replicas
  BY DEF CountUpheld
<1>3. i \in 0 .. Len(nodeLog) /\ i \in nodeHandled' .. nodeCacheAt'
  BY <1>1, <1>2
<1>4. ReadyCount(i, d)' = ReadyCount(i, d)
  BY <1>1, <1>3, HistoryStable
<1>5. (ReadyCount(i, d) = Deps[d].replicas)'
  BY <1>2, <1>4
<1>6. QED
  BY <1>3, <1>5 DEF CountUpheld

(* Together: a step that neither handles an event nor reaches d.           *)
LEMMA AttendedStays ==
    ASSUME SettledInv, TokenInv', NEW d \in Deployment, Attended(d),
           DepsKept(d), BatchesKept(d),
           UNCHANGED <<depHandled, nodeHandled>>,
           UNCHANGED nodeLog \/ \E ev : nodeLog' = Append(nodeLog, ev),
           nodeCacheAt' >= nodeCacheAt
    PROVE  Attended(d)'
BY BatchStays, AheadStays, CountStays DEF SettledInv, Attended, DepsKept

-----------------------------------------------------------------------------
(* Snapshots are of the past as long as the new one is.                    *)
LEMMA SnapshotsStay ==
    ASSUME TokenInv, SnapshotsKept, depCacheAt' \in Nat, depCacheAt' >= depCacheAt,
           \/ worker' = worker
           \/ \E w \in Worker : \E r :
                /\ worker' = [worker EXCEPT ![w] = r]
                /\ r.at \in 0 .. depCacheAt
                /\ \A d, e \in r.patching : d = e
    PROVE  SnapshotsKept'
<1>1. worker \in [Worker -> WorkerState] /\ depCacheAt \in Nat
  BY PositionType DEF TokenInv, TypeOK
<1>2. \A w \in Worker : /\ worker'[w].at \in 0 .. depCacheAt
                        /\ \A d, e \in worker'[w].patching : d = e
  BY <1>1 DEF SnapshotsKept
<1>3. 0 .. depCacheAt \subseteq 0 .. depCacheAt'
  BY <1>1
<1>4. QED
  BY <1>2, <1>3 DEF SnapshotsKept

(* A process that has handled nothing has an event to come for every       *)
(* deployment: the listing has one.                                        *)
LEMMA FreshAhead ==
    ApiTypeOK /\ DepsTold /\ depHandled = 0 =>
        \A d \in Deployment : Deps[d].exists => EventAhead(d)
<1> SUFFICES ASSUME ApiTypeOK, DepsTold, depHandled = 0,
                    NEW d \in Deployment, Deps[d].exists
             PROVE  EventAhead(d)
  OBVIOUS
<1>1. DepStore(0)[d] # Deps[d]
  BY DEF DepStore, NoDep
<1>2. 0 \in 0 .. Len(depLog)
  BY PositionType
<1>3. QED
  BY <1>1, <1>2 DEF DepsTold, EventAhead

(* A process that starts has forgotten nobody.                             *)
LEMMA SettledInvInit == Init => SettledInv
<1> SUFFICES ASSUME Init PROVE SettledInv
  OBVIOUS
<1>1. TokenInv /\ ApiTypeOK
  BY TokenInvInit DEF TokenInv, TypeOK
<1>2. DepsTold /\ NodesTold
  BY ScenarioAssumption, ListingTold DEF Init, ApiInit
<1>3. SnapshotsKept
  BY DEF SnapshotsKept, Init, ApiInit, Idle
<1>4. NoneForgotten
  BY <1>1, <1>2, FreshAhead DEF NoneForgotten, Controlled, Attended, Init
<1>5. QED
  BY <1>1, <1>2, <1>3, <1>4 DEF SettledInv

(* Nor has one that starts again: the new listing covers all of them.      *)
LEMMA RestartSettles ==
    ASSUME SettledInv, TokenInv', Restart
    PROVE  SettledInv'
<1>1. ApiTypeOK /\ ApiTypeOK'
  BY DEF SettledInv, TokenInv, TypeOK
<1>2. Nodes \in NodeWorld /\ Deps \in DepWorld
  BY <1>1, StoreType, PositionType DEF Nodes, Deps
<1>3. DepsTold' /\ NodesTold'
  BY <1>2, ListingTold DEF Restart, StartFrom
<1>4. SnapshotsKept'
  BY DEF SnapshotsKept, Restart, StartFrom, Idle
<1>5. (\A d \in Deployment : Deps[d].exists => EventAhead(d))'
  <2>1. (depHandled = 0)'
    BY DEF Restart
  <2>2. QED
    BY <1>1, <1>3, <2>1, FreshAhead, PTL
<1>6. NoneForgotten'
  BY <1>5 DEF NoneForgotten, Controlled, Attended
<1>7. QED
  BY <1>3, <1>4, <1>6 DEF SettledInv

(* The event of a vnode's change is still to be handled.                   *)
LEMMA ChangeNodeSettles ==
    ASSUME SettledInv, TokenInv', NEW n \in Node, NEW st \in NodeStatus,
           ChangeNode(n, st), UNCHANGED ctlVars
    PROVE  SettledInv'
<1>1. ApiTypeOK /\ nodeCacheAt \in Nat /\ depCacheAt \in Nat
  BY PositionType DEF SettledInv, TokenInv, TypeOK
<1>2. /\ UNCHANGED <<depLog, depHandled, nodeHandled, worker, missed>>
      /\ UNCHANGED <<nodeCacheAt, depCacheAt>>
      /\ \E ev : nodeLog' = Append(nodeLog, ev)
  BY DEF ChangeNode, ctlVars
<1>3. DepsTold'
  BY <1>2 DEF SettledInv, DepsTold, Deps, DepStore
<1>4. NodesTold'
  BY <1>1, ChangeTold DEF SettledInv
<1>5. SnapshotsKept'
  BY <1>1, <1>2, SnapshotsStay DEF SettledInv
<1>6. Deps' = Deps
  BY <1>2 DEF Deps, DepStore
<1>7. NoneForgotten'
  <2> SUFFICES ASSUME EnableSync, NEW d \in Deployment, Controlled(d)', d \notin missed'
               PROVE  Attended(d)'
    BY DEF NoneForgotten
  <2>1. Controlled(d) /\ d \notin missed
    BY <1>2, <1>6 DEF Controlled
  <2>2. Attended(d)
    BY <2>1 DEF SettledInv, NoneForgotten
  <2>3. DepsKept(d) /\ BatchesKept(d)
    BY <1>2, <1>6 DEF DepsKept, BatchesKept
  <2>4. QED
    BY <1>1, <1>2, <2>2, <2>3, AttendedStays
<1>8. QED
  BY <1>3, <1>4, <1>5, <1>7 DEF SettledInv

(* So is the event of a user's edit.                                       *)
LEMMA EditSettles ==
    ASSUME SettledInv, TokenInv', NEW e \in Deployment, NEW st \in UserStates,
           EditDeployment(e, st), UNCHANGED ctlVars
    PROVE  SettledInv'
<1>1. /\ ApiTypeOK /\ nodeCacheAt \in Nat /\ depCacheAt \in Nat
      /\ depHandled \in Nat /\ depHandled <= Len(depLog) /\ Len(depLog) \in Nat
  BY PositionType DEF SettledInv, TokenInv, TypeOK
<1>2. /\ UNCHANGED <<nodeLog, depHandled, nodeHandled, worker, missed>>
      /\ UNCHANGED <<nodeCacheAt, depCacheAt>>
  BY DEF EditDeployment, ctlVars
<1>3. st \in DepState
  <2>1. NoDep \in DepState
    BY DEF DepState, NoDep, Mode
  <2>2. QED
    BY <2>1, BoundAssumption DEF UserStates, DepState
<1>4. /\ DepsTold'
      /\ UNCHANGED depLog \/ \E ev : depLog' = Append(depLog, ev)
      /\ \A d \in Deployment \ {e} : Deps'[d] = Deps[d]
      /\ Len(depLog') = Len(depLog) + 1
      /\ depLog'[Len(depLog) + 1].dep = e
  BY <1>1, <1>3, WriteTold DEF SettledInv, EditDeployment
<1>5. NodesTold'
  BY <1>2 DEF SettledInv, NodesTold, NodeStore
<1>6. SnapshotsKept'
  BY <1>1, <1>2, SnapshotsStay DEF SettledInv
<1>7. NoneForgotten'
  <2> SUFFICES ASSUME EnableSync, NEW d \in Deployment, Controlled(d)', d \notin missed'
               PROVE  Attended(d)'
    BY DEF NoneForgotten
  <2>1. CASE d = e
    <3>1. Len(depLog) + 1 \in depHandled' + 1 .. Len(depLog')
      BY <1>1, <1>2, <1>4
    <3>2. QED
      BY <1>4, <2>1, <3>1 DEF Attended, EventAhead
  <2>2. CASE d # e
    <3>1. Controlled(d) /\ d \notin missed
      BY <1>2, <1>4, <2>2 DEF Controlled
    <3>2. Attended(d)
      BY <3>1 DEF SettledInv, NoneForgotten
    <3>3. DepsKept(d) /\ BatchesKept(d)
      BY <1>2, <1>4, <2>2 DEF DepsKept, BatchesKept
    <3>4. QED
      BY <1>1, <1>2, <3>2, <3>3, AttendedStays
  <2>3. QED
    BY <2>1, <2>2
<1>8. QED
  BY <1>4, <1>5, <1>6, <1>7 DEF SettledInv

(* Caches that catch up.                                                   *)
LEMMA InformerSettles ==
    ASSUME SettledInv, TokenInv', NodeInformer \/ DepInformer
    PROVE  SettledInv'
<1>1. ApiTypeOK /\ nodeCacheAt \in Nat /\ depCacheAt \in Nat
  BY PositionType DEF SettledInv, TokenInv, TypeOK
<1>2. /\ UNCHANGED <<depLog, nodeLog, depHandled, nodeHandled, worker, missed>>
      /\ nodeCacheAt' \in Nat /\ depCacheAt' \in Nat
      /\ nodeCacheAt' >= nodeCacheAt /\ depCacheAt' >= depCacheAt
  BY <1>1 DEF NodeInformer, DepInformer, DeliverNodeEvent, DeliverDepEvent, ctlVars
<1>3. DepsTold' /\ NodesTold'
  BY <1>2 DEF SettledInv, DepsTold, Deps, DepStore, NodesTold, NodeStore
<1>4. SnapshotsKept'
  BY <1>1, <1>2, SnapshotsStay DEF SettledInv
<1>5. Deps' = Deps
  BY <1>2 DEF Deps, DepStore
<1>6. NoneForgotten'
  <2> SUFFICES ASSUME EnableSync, NEW d \in Deployment, Controlled(d)', d \notin missed'
               PROVE  Attended(d)'
    BY DEF NoneForgotten
  <2>1. Controlled(d) /\ d \notin missed
    BY <1>2, <1>5 DEF Controlled
  <2>2. Attended(d)
    BY <2>1 DEF SettledInv, NoneForgotten
  <2>3. DepsKept(d) /\ BatchesKept(d)
    BY <1>2, <1>5 DEF DepsKept, BatchesKept
  <2>4. QED
    BY <1>2, <2>2, <2>3, AttendedStays
<1>7. QED
  BY <1>3, <1>4, <1>6 DEF SettledInv

(* One goroutine moves, no event is handled and nothing is written.        *)
LEMMA MoveSettles ==
    ASSUME SettledInv, TokenInv', NEW w \in Worker, NEW r,
           worker' = [worker EXCEPT ![w] = r],
           r.at \in 0 .. depCacheAt, \A d, e \in r.patching : d = e,
           UNCHANGED <<nodeLog, depLog, nodeCacheAt, depCacheAt, nodeHandled, depHandled>>,
           missed \subseteq missed',
           \A d \in Deployment :
                EnableSync /\ Controlled(d) /\ d \notin missed' /\ Attended(d) =>
                    BatchesKept(d) \/ Attended(d)'
    PROVE  SettledInv'
<1>1. nodeCacheAt \in Nat /\ depCacheAt \in Nat
  BY PositionType DEF SettledInv, TokenInv, TypeOK
<1>2. DepsTold' /\ NodesTold'
  BY DEF SettledInv, DepsTold, Deps, DepStore, NodesTold, NodeStore
<1>3. SnapshotsKept'
  <2>1. \E v \in Worker : \E q : /\ worker' = [worker EXCEPT ![v] = q]
                                 /\ q.at \in 0 .. depCacheAt
                                 /\ \A d, e \in q.patching : d = e
    OBVIOUS
  <2>2. TokenInv /\ SnapshotsKept /\ depCacheAt' \in Nat /\ depCacheAt' >= depCacheAt
    BY <1>1 DEF SettledInv
  <2>3. QED
    BY <2>1, <2>2, SnapshotsStay
<1>4. Deps' = Deps
  BY DEF Deps, DepStore
<1>5. NoneForgotten'
  <2> SUFFICES ASSUME EnableSync, NEW d \in Deployment, Controlled(d)', d \notin missed'
               PROVE  Attended(d)'
    BY DEF NoneForgotten
  <2>1. Controlled(d) /\ d \notin missed
    BY <1>4 DEF Controlled
  <2>2. Attended(d)
    BY <2>1 DEF SettledInv, NoneForgotten
  <2>3. DepsKept(d)
    BY <1>4 DEF DepsKept
  <2>4. CASE BatchesKept(d)
    BY <1>1, <2>2, <2>3, <2>4, AttendedStays
  <2>5. QED
    BY <2>1, <2>2, <2>4
<1>6. QED
  BY <1>2, <1>3, <1>5 DEF SettledInv

(* What the goroutine that moves keeps, all keep.                          *)
LEMMA OneMoves ==
    ASSUME TokenInv, NEW w \in Worker, NEW r, worker' = [worker EXCEPT ![w] = r],
           NEW d \in Deployment,
           worker[w].pc \in {"waiting", "holding"} /\ d \in worker[w].todo
              /\ Snapshot(w, d) = Deps[d] =>
                r.pc \in {"waiting", "holding"} /\ d \in r.todo /\ r.at = worker[w].at,
           worker[w].pc = "holding" /\ d \in worker[w].patching
              /\ worker[w].count # Deps[d].replicas =>
                /\ r.pc = "holding"
                /\ r.patching = worker[w].patching
                /\ r.count = worker[w].count
    PROVE  BatchesKept(d)
<1>1. \A v \in Worker : worker'[v] = IF v = w THEN r ELSE worker[v]
  BY DEF TokenInv, TypeOK
<1>2. QED
  BY <1>1 DEF BatchesKept

(* An idle goroutine has nothing to lose.                                  *)
LEMMA IdleMoves ==
    ASSUME TokenInv, NEW w \in Worker, NEW r, worker' = [worker EXCEPT ![w] = r],
           worker[w].pc = "idle", NEW d \in Deployment
    PROVE  BatchesKept(d)
BY OneMoves

(* The fields of a snapshot.                                               *)
LEMMA SnapshotFields ==
    ASSUME NEW at, NEW deps
    PROVE  /\ Waiting(at, deps).pc = "waiting"
           /\ Waiting(at, deps).at = at
           /\ Waiting(at, deps).todo = deps
           /\ Waiting(at, deps).patching = {}
           /\ Idle.at = 0 /\ Idle.patching = {} /\ Done.at = 0 /\ Done.patching = {}
BY DEF Waiting, Idle, Done

(* The initial sync takes its snapshot, or fails to.                       *)
LEMMA InitRoutineSettles ==
    ASSUME SettledInv, TokenInv', InitRoutine
    PROVE  SettledInv'
<1>1. depCacheAt \in Nat /\ "init" \in Worker /\ worker["init"].pc = "idle" /\ TokenInv
  BY PositionType DEF SettledInv, TokenInv, TypeOK, Worker, InitRoutine, InitialSync,
                      InitialSyncFails
<1>2. PICK r : /\ worker' = [worker EXCEPT !["init"] = r]
               /\ r.at \in 0 .. depCacheAt /\ r.patching = {}
  BY <1>1, SnapshotFields DEF InitRoutine, InitialSync, InitialSyncFails
<1>3. /\ UNCHANGED <<nodeLog, depLog, nodeCacheAt, depCacheAt, nodeHandled, depHandled>>
      /\ missed' = missed
  BY DEF InitRoutine, InitialSync, InitialSyncFails, apiVars
<1>4. \A d \in Deployment : BatchesKept(d)
  BY <1>1, <1>2, IdleMoves
<1>5. QED
  BY <1>1, <1>2, <1>3, <1>4, MoveSettles

(* An event of a vnode of another cluster leaves the count alone.          *)
LEMMA OtherCluster ==
    ASSUME ApiTypeOK, NodesTold, NEW i \in 1 .. Len(nodeLog), NEW d \in Deployment,
           NodeCluster[nodeLog[i].node] # DepCluster[d]
    PROVE  ReadyCount(i, d) = ReadyCount(i - 1, d)
<1>1. ASSUME NEW n \in Node, NodeCluster[n] = DepCluster[d]
      PROVE  NodeStore(i)[n] = NodeStore(i - 1)[n]
  BY <1>1 DEF NodesTold
<1>2. ReadyNodes(NodeStore(i), DepCluster[d]) = ReadyNodes(NodeStore(i - 1), DepCluster[d])
  BY <1>1 DEF ReadyNodes
<1>3. QED
  BY <1>2 DEF ReadyCount

(* A vnode event is taken: either the counts of d are as they were, or the *)
(* batch of the event has d, as the deployment cache shows it now.         *)
LEMMA NodeCallbackSettles ==
    ASSUME SettledInv, TokenInv', NodeCallback
    PROVE  SettledInv'
<1> DEFINE h == nodeHandled + 1
<1>1. /\ TokenInv /\ ApiTypeOK /\ "node" \in Worker
      /\ nodeHandled \in Nat /\ nodeCacheAt \in Nat /\ depCacheAt \in Nat
      /\ Len(depLog) \in Nat /\ depCacheAt <= Len(depLog)
      /\ Len(nodeLog) \in Nat /\ nodeCacheAt <= Len(nodeLog)
      /\ depHandled \in Nat /\ depHandled <= depCacheAt
  BY PositionType DEF SettledInv, TokenInv, TypeOK, Worker
<1>2. worker["node"].pc = "idle" /\ h <= nodeCacheAt /\ nodeHandled' = h
  BY <1>1 DEF NodeCallback, IgnoreNodeEvent, HandleNodeEvent, HandleNodeEventFails,
              TakeNodeEvent
<1>3. /\ UNCHANGED <<nodeLog, depLog, nodeCacheAt, depCacheAt, depHandled>>
      /\ missed \subseteq missed'
  BY DEF NodeCallback, IgnoreNodeEvent, HandleNodeEvent, HandleNodeEventFails, apiVars
<1>4. \/ worker' = worker
      \/ \E r : /\ worker' = [worker EXCEPT !["node"] = r]
                /\ r.at \in 0 .. depCacheAt
                /\ \A d, e \in r.patching : d = e
  <2>1. \A deps : /\ Waiting(depCacheAt, deps).at \in 0 .. depCacheAt
                  /\ Waiting(depCacheAt, deps).patching = {}
    BY <1>1, SnapshotFields
  <2>2. QED
    BY <2>1 DEF NodeCallback, IgnoreNodeEvent, HandleNodeEvent, HandleNodeEventFails
<1>5. DepsTold' /\ NodesTold'
  BY <1>3 DEF SettledInv, DepsTold, Deps, DepStore, NodesTold, NodeStore
<1>6. SnapshotsKept'
  BY <1>1, <1>3, <1>4, SnapshotsStay DEF SettledInv
<1>7. Deps' = Deps
  BY <1>3 DEF Deps, DepStore
<1>8. NoneForgotten'
  <2> SUFFICES ASSUME EnableSync, NEW d \in Deployment, Controlled(d)', d \notin missed'
               PROVE  Attended(d)'
    BY DEF NoneForgotten
  <2>1. Controlled(d) /\ d \notin missed
    BY <1>3, <1>7 DEF Controlled
  <2>2. Attended(d)
    BY <2>1 DEF SettledInv, NoneForgotten
  <2>3. BatchesKept(d)
    BY <1>1, <1>2, <1>4, IdleMoves DEF BatchesKept
  <2>4. CASE EventAhead(d)
    BY <1>1, <1>3, <2>4, AheadStays DEF Attended
  <2>5. CASE InBatch(d) \/ PatchAhead(d)
    BY <1>1, <1>3, <1>7, <2>3, <2>5, BatchStays DEF Attended, DepsKept, SettledInv
  <2>6. CASE CountUpheld(d) /\ ~EventAhead(d)
    <3>1. PICK i \in nodeHandled .. nodeCacheAt : ReadyCount(i, d) = Deps[d].replicas
      BY <2>6 DEF CountUpheld
    <3>2. \A j : ReadyCount(j, d)' = ReadyCount(j, d)
      BY <1>3 DEF ReadyCount, NodeStore
    <3>3. ASSUME NEW j \in h .. nodeCacheAt, ReadyCount(j, d) = Deps[d].replicas
          PROVE  Attended(d)'
      BY <1>2, <1>3, <1>7, <3>2, <3>3 DEF Attended, CountUpheld
    <3>4. CASE i # nodeHandled
      BY <1>1, <3>1, <3>3, <3>4
    <3>5. CASE i = nodeHandled /\ NodeCluster[NextNode] # DepCluster[d]
      <4>1. h \in 1 .. Len(nodeLog) /\ h - 1 = i /\ h \in h .. nodeCacheAt
        BY <1>1, <1>2, <3>5
      <4>2. ReadyCount(h, d) = ReadyCount(i, d)
        BY <1>1, <3>5, <4>1, OtherCluster DEF NextNode, SettledInv
      <4>3. QED
        BY <3>1, <3>3, <4>1, <4>2
    <3>6. CASE NodeCluster[NextNode] = DepCluster[d]
      <4>1. NextNode \in Node
        <5>1. h \in 1 .. Len(nodeLog)
          BY <1>1, <1>2
        <5>2. nodeLog[h] \in NodeEvent
          BY <1>1, <5>1 DEF ApiTypeOK
        <5>3. QED
          BY <5>2 DEF NextNode, NodeEvent
      <4>2. HandleNodeEvent
        BY <2>1, <3>6, <4>1
           DEF NodeCallback, IgnoreNodeEvent, HandleNodeEventFails, Controlled
      <4>3. DepStore(depCacheAt)[d] = Deps[d]
        <5>1. \A j \in depCacheAt + 1 .. Len(depLog) : depLog[j].dep # d
          BY <1>1, <2>6 DEF EventAhead
        <5>2. QED
          BY <1>1, <5>1 DEF SettledInv, DepsTold
      <4>4. d \in RelatedDeployments(depCacheAt, NodeCluster[NextNode])
        BY <2>1, <3>6, <4>3 DEF RelatedDeployments, Controlled
      <4> DEFINE r == Waiting(depCacheAt,
                              RelatedDeployments(depCacheAt, NodeCluster[NextNode]))
      <4>5. worker'["node"] = r
        BY <1>1, <4>2 DEF HandleNodeEvent, TokenInv, TypeOK
      <4>6. r.pc = "waiting" /\ d \in r.todo /\ r.at = depCacheAt
        BY <4>4, SnapshotFields
      <4>7. Snapshot("node", d)' = Deps'[d]
        BY <1>3, <1>7, <4>3, <4>5, <4>6 DEF Snapshot, DepStore
      <4>8. QED
        BY <1>1, <4>5, <4>6, <4>7 DEF Attended, InBatch
    <3>7. QED
      BY <3>4, <3>5, <3>6
  <2>7. QED
    BY <2>2, <2>4, <2>5, <2>6 DEF Attended
<1>9. QED
  BY <1>5, <1>6, <1>8 DEF SettledInv

(* The last event of d is taken: its batch has d as it is now.             *)
LEMMA DepCallbackSettles ==
    ASSUME SettledInv, TokenInv', DepCallback
    PROVE  SettledInv'
<1> DEFINE h == depHandled + 1
           r == Waiting(h, {NextDep})
<1>1. /\ TokenInv /\ ApiTypeOK /\ "dep" \in Worker
      /\ depHandled \in Nat /\ nodeCacheAt \in Nat /\ depCacheAt \in Nat
      /\ Len(depLog) \in Nat /\ depCacheAt <= Len(depLog)
  BY PositionType DEF SettledInv, TokenInv, TypeOK, Worker
<1>2. worker["dep"].pc = "idle" /\ h <= depCacheAt /\ depHandled' = h
  BY <1>1 DEF DepCallback, IgnoreDepEvent, HandleDepEvent, TakeDepEvent
<1>3. UNCHANGED <<nodeLog, depLog, nodeCacheAt, depCacheAt, nodeHandled, missed>>
  BY DEF DepCallback, IgnoreDepEvent, HandleDepEvent, apiVars
<1>4. worker' = worker \/ worker' = [worker EXCEPT !["dep"] = r]
  BY DEF DepCallback, IgnoreDepEvent, HandleDepEvent
<1>5. DepsTold' /\ NodesTold'
  BY <1>3 DEF SettledInv, DepsTold, Deps, DepStore, NodesTold, NodeStore
<1>6. SnapshotsKept'
  <2>1. r.at \in 0 .. depCacheAt /\ r.patching = {}
    BY <1>1, <1>2, SnapshotFields
  <2>2. \/ worker' = worker
        \/ \E v \in Worker : \E q : /\ worker' = [worker EXCEPT ![v] = q]
                                   /\ q.at \in 0 .. depCacheAt
                                   /\ \A d, e \in q.patching : d = e
    BY <1>1, <1>4, <2>1
  <2>3. depCacheAt' \in Nat /\ depCacheAt' >= depCacheAt
    BY <1>1, <1>3
  <2>4. QED
    BY <1>1, <2>2, <2>3, SnapshotsStay DEF SettledInv
<1>7. Deps' = Deps
  BY <1>3 DEF Deps, DepStore
<1>8. NoneForgotten'
  <2> SUFFICES ASSUME EnableSync, NEW d \in Deployment, Controlled(d)', d \notin missed'
               PROVE  Attended(d)'
    BY DEF NoneForgotten
  <2>1. Controlled(d) /\ d \notin missed
    BY <1>3, <1>7 DEF Controlled
  <2>2. Attended(d)
    BY <2>1 DEF SettledInv, NoneForgotten
  <2>3. BatchesKept(d)
    BY <1>1, <1>2, <1>4, IdleMoves DEF BatchesKept
  <2>4. CASE InBatch(d) \/ PatchAhead(d)
    BY <1>1, <1>3, <1>7, <2>3, <2>4, BatchStays DEF Attended, DepsKept, SettledInv
  <2>5. CASE CountUpheld(d)
    <3>1. nodeCacheAt' >= nodeCacheAt
      BY <1>1, <1>3
    <3>2. QED
      BY <1>1, <1>3, <1>7, <2>5, <3>1, CountStays DEF Attended
  <2>6. ASSUME NEW i \in h + 1 .. Len(depLog), depLog[i].dep = d PROVE Attended(d)'
    BY <1>2, <1>3, <2>6 DEF Attended, EventAhead
  <2>7. CASE EventAhead(d) /\ \A i \in h + 1 .. Len(depLog) : depLog[i].dep # d
    <3>1. NextDep = d
      <4>1. PICK i \in h .. Len(depLog) : depLog[i].dep = d
        BY <2>7 DEF EventAhead
      <4>2. i = h
        BY <1>1, <2>7, <4>1
      <4>3. QED
        BY <4>1, <4>2 DEF NextDep
    <3>2. h \in 0 .. Len(depLog) /\ h # 0
      BY <1>1, <1>2
    <3>3. DepStore(h)[d] = Deps[d]
      BY <2>7, <3>2 DEF SettledInv, DepsTold
    <3>4. NextDepState = Deps[d]
      BY <3>1, <3>2, <3>3 DEF NextDepState, DepStore
    <3>5. HandleDepEvent
      BY <2>1, <3>1, <3>4 DEF DepCallback, IgnoreDepEvent, Controlled
    <3>6. worker'["dep"] = r
      BY <1>1, <3>5 DEF HandleDepEvent, TokenInv, TypeOK
    <3>7. r.pc = "waiting" /\ d \in r.todo /\ r.at = h
      BY <3>1, SnapshotFields
    <3>8. Snapshot("dep", d)' = Deps'[d]
      BY <1>3, <1>7, <3>3, <3>6, <3>7 DEF Snapshot, DepStore
    <3>9. QED
      BY <1>1, <3>6, <3>7, <3>8 DEF Attended, InBatch
  <2>8. QED
    BY <2>2, <2>4, <2>5, <2>6, <2>7 DEF Attended
<1>9. QED
  BY <1>5, <1>6, <1>8 DEF SettledInv

(* The goroutine that gets the token, or gives it back.                    *)
LEMMA TokenSettles ==
    ASSUME SettledInv, TokenInv', NEW w \in Worker, Acquire(w) \/ Release(w)
    PROVE  SettledInv'
<1>1. /\ TokenInv /\ worker[w] \in WorkerState /\ depCacheAt \in Nat
      /\ worker[w].at \in 0 .. depCacheAt
      /\ \A d, e \in worker[w].patching : d = e
  BY PositionType DEF SettledInv, TokenInv, TypeOK, SnapshotsKept
<1>2. /\ UNCHANGED <<nodeLog, depLog, nodeCacheAt, depCacheAt, nodeHandled, depHandled>>
      /\ missed \subseteq missed'
  BY DEF Acquire, Release, apiVars
<1>3. CASE Acquire(w)
  <2> DEFINE r == [worker[w] EXCEPT !.pc = "holding"]
  <2>1. /\ r.pc = "holding" /\ r.at = worker[w].at /\ r.todo = worker[w].todo
        /\ r.patching = worker[w].patching /\ r.count = worker[w].count
    BY <1>1 DEF WorkerState
  <2>2. worker' = [worker EXCEPT ![w] = r]
    BY <1>3 DEF Acquire
  <2> HIDE DEF r
  <2>3. \A d, e \in r.patching : d = e
    BY <1>1, <2>1
  <2>4. \A d \in Deployment : BatchesKept(d)
    BY <1>1, <2>1, <2>2, OneMoves
  <2>5. QED
    BY <1>1, <1>2, <2>1, <2>2, <2>3, <2>4, MoveSettles
<1>4. CASE Release(w)
  <2> DEFINE r == IF w = "init" THEN Done ELSE Idle
  <2>1. r.at \in 0 .. depCacheAt /\ r.patching = {}
    BY <1>1, SnapshotFields
  <2>2. worker' = [worker EXCEPT ![w] = r]
    BY <1>4 DEF Release
  <2> HIDE DEF r
  <2>3. ASSUME EnableSync, NEW d \in Deployment PROVE BatchesKept(d)
    <3>1. worker[w].todo = {} /\ worker[w].patching = {}
      BY <1>4, <2>3 DEF Release
    <3>2. QED
      BY <1>1, <2>2, <3>1, OneMoves
  <2>4. QED
    BY <1>1, <1>2, <2>1, <2>2, <2>3, MoveSettles
<1>5. QED
  BY <1>3, <1>4

(* The holder passes over a deployment, or fails to count or patch it.     *)
LEMMA PassSettles ==
    ASSUME SettledInv, TokenInv', NEW w \in Worker, NEW e \in Deployment,
           SkipDeployment(w, e) \/ CountNodesFails(w, e) \/ PatchFails(w, e)
    PROVE  SettledInv'
<1>1. /\ TokenInv /\ worker[w] \in WorkerState
      /\ worker[w].at \in 0 .. depCacheAt
      /\ \A d, f \in worker[w].patching : d = f
  BY DEF SettledInv, TokenInv, TypeOK, SnapshotsKept
<1>2. /\ UNCHANGED <<nodeLog, depLog, nodeCacheAt, depCacheAt, nodeHandled, depHandled>>
      /\ missed \subseteq missed'
      /\ worker[w].pc = "holding"
  BY DEF SkipDeployment, CountNodesFails, PatchFails, apiVars, AtDeployment
<1>3. CASE SkipDeployment(w, e) \/ CountNodesFails(w, e)
  <2> DEFINE r == Passed(worker[w], e)
  <2>1. /\ r.pc = "holding" /\ r.at = worker[w].at
        /\ r.todo = worker[w].todo \ {e}
        /\ r.patching = worker[w].patching /\ r.count = worker[w].count
    BY <1>1, <1>2 DEF WorkerState, Passed
  <2>2. worker' = [worker EXCEPT ![w] = r]
    BY <1>3 DEF SkipDeployment, CountNodesFails
  <2> HIDE DEF r
  <2>3. ASSUME NEW d \in Deployment, Controlled(d), d \notin missed'
        PROVE  BatchesKept(d)
    <3>1. CASE d # e
      BY <1>1, <2>1, <2>2, <3>1, OneMoves
    <3>2. CASE d = e
      <4>1. SkipDeployment(w, e)
        BY <1>3, <2>3, <3>2 DEF CountNodesFails
      <4>2. Snapshot(w, d) # Deps[d]
        BY <2>3, <3>2, <4>1 DEF SkipDeployment, Eligible, Controlled
      <4>3. QED
        BY <1>1, <2>1, <2>2, <4>2, OneMoves
    <3>3. QED
      BY <3>1, <3>2
  <2>4. \A d, f \in r.patching : d = f
    BY <1>1, <2>1
  <2>5. QED
    BY <1>1, <1>2, <2>1, <2>2, <2>3, <2>4, MoveSettles
<1>4. CASE PatchFails(w, e)
  <2> DEFINE r == PatchDone(worker[w])
  <2>1. /\ r.pc = "holding" /\ r.at = worker[w].at
        /\ r.todo = worker[w].todo /\ r.patching = {}
    BY <1>1, <1>2 DEF WorkerState, PatchDone
  <2>2. worker' = [worker EXCEPT ![w] = r]
    BY <1>4 DEF PatchFails
  <2> HIDE DEF r
  <2>3. ASSUME NEW d \in Deployment, d \notin missed' PROVE BatchesKept(d)
    <3>1. d \notin worker[w].patching
      BY <1>1, <1>4, <2>3 DEF PatchFails
    <3>2. QED
      BY <1>1, <2>1, <2>2, <3>1, OneMoves
  <2>4. QED
    BY <1>1, <1>2, <2>1, <2>2, <2>3, MoveSettles
<1>5. QED
  BY <1>3, <1>4

(* The holder counts: it finds the replicas right for now, or a patch is   *)
(* to follow.                                                              *)
LEMMA CountSettles ==
    ASSUME SettledInv, TokenInv', NEW w \in Worker, NEW e \in Deployment,
           CountNodes(w, e)
    PROVE  SettledInv'
<1>1. /\ TokenInv /\ worker[w] \in WorkerState
      /\ worker[w].at \in 0 .. depCacheAt
      /\ nodeCacheAt \in Nat /\ nodeHandled \in 0 .. nodeCacheAt
  BY PositionType DEF SettledInv, TokenInv, TypeOK, SnapshotsKept
<1>2. /\ UNCHANGED <<nodeLog, depLog, nodeCacheAt, depCacheAt, nodeHandled, depHandled>>
      /\ missed \subseteq missed'
      /\ worker[w].pc = "holding" /\ worker[w].patching = {}
  BY DEF CountNodes, apiVars, AtDeployment
<1>3. PICK n \in Nat : n = ReadyCount(nodeCacheAt, e)
  BY ReadyCountType
<1>4. Deps' = Deps /\ \A i, d : ReadyCount(i, d)' = ReadyCount(i, d)
  BY <1>2 DEF Deps, DepStore, ReadyCount, NodeStore
<1>5. CASE n = Snapshot(w, e).replicas
  <2> DEFINE r == Passed(worker[w], e)
  <2>1. /\ r.pc = "holding" /\ r.at = worker[w].at
        /\ r.todo = worker[w].todo \ {e} /\ r.patching = {}
    BY <1>1, <1>2 DEF WorkerState, Passed
  <2>2. worker' = [worker EXCEPT ![w] = r]
    BY <1>3, <1>5 DEF CountNodes
  <2> HIDE DEF r
  <2>3. ASSUME NEW d \in Deployment PROVE BatchesKept(d) \/ Attended(d)'
    <3>1. CASE d # e \/ Snapshot(w, d) # Deps[d]
      BY <1>1, <1>2, <2>1, <2>2, <3>1, OneMoves
    <3>2. CASE d = e /\ Snapshot(w, d) = Deps[d]
      <4>1. ReadyCount(nodeCacheAt, d)' = Deps'[d].replicas
        BY <1>2, <1>3, <1>4, <1>5, <3>2
      <4>2. nodeCacheAt \in nodeHandled' .. nodeCacheAt'
        BY <1>1, <1>2
      <4>3. QED
        BY <1>2, <1>4, <4>1, <4>2 DEF Attended, CountUpheld
    <3>3. QED
      BY <3>1, <3>2
  <2>4. QED
    BY <1>1, <1>2, <2>1, <2>2, <2>3, MoveSettles
<1>6. CASE n # Snapshot(w, e).replicas
  <2> DEFINE r == Counted(worker[w], e, n, nodeCacheAt)
  <2>1. /\ r.pc = "holding" /\ r.at = worker[w].at
        /\ r.todo = worker[w].todo \ {e} /\ r.patching = {e} /\ r.count = n
    BY <1>1, <1>2 DEF WorkerState, Counted
  <2>2. worker' = [worker EXCEPT ![w] = r]
    BY <1>3, <1>6 DEF CountNodes
  <2>3. worker'[w] = r
    BY <1>1, <2>2 DEF TokenInv, TypeOK
  <2> HIDE DEF r
  <2>4. ASSUME NEW d \in Deployment PROVE BatchesKept(d) \/ Attended(d)'
    <3>1. CASE d # e \/ Snapshot(w, d) # Deps[d]
      BY <1>1, <1>2, <2>1, <2>2, <3>1, OneMoves
    <3>2. CASE d = e /\ Snapshot(w, d) = Deps[d]
      BY <1>4, <1>6, <2>1, <2>3, <3>2 DEF Attended, PatchAhead
    <3>3. QED
      BY <3>1, <3>2
  <2>5. QED
    BY <1>1, <1>2, <2>1, <2>2, <2>4, MoveSettles
<1>7. QED
  BY <1>5, <1>6

(* A patch that changes the deployment tells so by an event; one that      *)
(* changes nothing had the count right.                                    *)
LEMMA PatchSettles ==
    ASSUME SettledInv, TokenInv', NEW w \in Worker, NEW e \in Deployment, Patch(w, e)
    PROVE  SettledInv'
<1> DEFINE r == PatchDone(worker[w])
           new == [Deps[e] EXCEPT !.replicas = worker[w].count]
<1>1. /\ TokenInv /\ ApiTypeOK /\ worker[w] \in WorkerState
      /\ worker[w].at \in 0 .. depCacheAt
      /\ \A d, f \in worker[w].patching : d = f
      /\ nodeCacheAt \in Nat /\ depCacheAt \in Nat /\ depHandled \in 0 .. depCacheAt
      /\ Len(depLog) \in Nat /\ depCacheAt <= Len(depLog)
      /\ Deps \in DepWorld
  BY PositionType, StoreType DEF SettledInv, TokenInv, TypeOK, SnapshotsKept, Deps
<1>2. /\ UNCHANGED <<nodeLog, nodeCacheAt, depCacheAt, nodeHandled, depHandled, missed>>
      /\ worker[w].pc = "holding" /\ e \in worker[w].patching
      /\ worker' = [worker EXCEPT ![w] = r]
  BY DEF Patch
<1>3. /\ r.pc = "holding" /\ r.at = worker[w].at
      /\ r.todo = worker[w].todo /\ r.patching = {}
  BY <1>1, <1>2 DEF WorkerState, PatchDone
<1> HIDE DEF r
<1>4. new \in DepState /\ new.replicas = worker[w].count
  BY <1>1 DEF DepWorld, DepState, WorkerState
<1>5. Deps[e].exists => WriteDeployment(e, new)
  BY DEF Patch
<1>6. /\ DepsTold'
      /\ UNCHANGED depLog \/ \E ev : depLog' = Append(depLog, ev)
      /\ \A d \in Deployment \ {e} : Deps'[d] = Deps[d]
  <2>1. CASE Deps[e].exists
    BY <1>1, <1>4, <1>5, <2>1, WriteTold DEF SettledInv
  <2>2. CASE ~Deps[e].exists
    BY <2>2 DEF Patch, SettledInv, DepsTold, Deps, DepStore
  <2>3. QED
    BY <2>1, <2>2
<1>7. NodesTold'
  BY <1>2 DEF SettledInv, NodesTold, NodeStore
<1>8. SnapshotsKept'
  <2>1. \E v \in Worker : \E q : /\ worker' = [worker EXCEPT ![v] = q]
                                 /\ q.at \in 0 .. depCacheAt
                                 /\ \A d, f \in q.patching : d = f
    BY <1>1, <1>2, <1>3
  <2>2. depCacheAt' \in Nat /\ depCacheAt' >= depCacheAt
    BY <1>1, <1>2
  <2>3. QED
    BY <1>1, <2>1, <2>2, SnapshotsStay DEF SettledInv
<1>9. NoneForgotten'
  <2> SUFFICES ASSUME EnableSync, NEW d \in Deployment, Controlled(d)', d \notin missed'
               PROVE  Attended(d)'
    BY DEF NoneForgotten
  <2>1. ASSUME Deps'[d] = Deps[d],
               d # e \/ worker[w].count = Deps[d].replicas
        PROVE  Attended(d)'
    <3>1. Controlled(d) /\ d \notin missed
      BY <1>2, <2>1 DEF Controlled
    <3>2. Attended(d)
      BY <3>1 DEF SettledInv, NoneForgotten
    <3>3. BatchesKept(d)
      BY <1>1, <1>2, <1>3, <2>1, OneMoves
    <3>4. DepsKept(d) /\ nodeCacheAt' >= nodeCacheAt
      BY <1>1, <1>2, <1>6, <2>1 DEF DepsKept
    <3>5. QED
      BY <1>2, <3>2, <3>3, <3>4, AttendedStays
  <2>2. CASE d # e
    BY <1>6, <2>1, <2>2
  <2>3. CASE d = e /\ Deps[e].exists /\ Deps[e] # new
    <3>1. /\ Len(depLog') = Len(depLog) + 1
          /\ depLog'[Len(depLog) + 1].dep = e
      BY <1>1, <1>4, <1>5, <2>3, WriteTold DEF SettledInv
    <3>2. Len(depLog) + 1 \in depHandled' + 1 .. Len(depLog')
      BY <1>1, <1>2, <3>1
    <3>3. QED
      BY <2>3, <3>1, <3>2 DEF Attended, EventAhead
  <2>4. CASE d = e /\ Deps[e].exists /\ Deps[e] = new
    <3>1. depLog' = depLog
      BY <1>5, <2>4 DEF WriteDeployment
    <3>2. Deps' = Deps
      BY <3>1 DEF Deps, DepStore
    <3>3. QED
      BY <1>4, <2>1, <2>4, <3>2
  <2>5. CASE d = e /\ ~Deps[e].exists
    <3>1. Deps' = Deps
      BY <2>5 DEF Patch, Deps, DepStore
    <3>2. QED
      BY <2>5, <3>1 DEF Controlled
  <2>6. QED
    BY <2>2, <2>3, <2>4, <2>5
<1>10. QED
  BY <1>6, <1>7, <1>8, <1>9 DEF SettledInv

(* Every step keeps the invariant, one case for each kind of step.         *)
LEMMA SettledInvNext == SettledInv /\ [Next]_vars => SettledInv'
<1> SUFFICES ASSUME SettledInv, [Next]_vars PROVE SettledInv'
  OBVIOUS
<1>1. TokenInv'
  BY TokenInvNext DEF SettledInv
<1>2. CASE Environment
  <2>1. ASSUME NEW n \in Node, NEW st \in NodeStatus,
               ChangeNode(n, st), UNCHANGED ctlVars
        PROVE  SettledInv'
    BY <1>1, <2>1, ChangeNodeSettles
  <2>2. ASSUME NEW d \in Deployment, NEW st \in UserStates,
               EditDeployment(d, st), UNCHANGED ctlVars
        PROVE  SettledInv'
    BY <1>1, <2>2, EditSettles
  <2>3. QED
    BY <1>1, <1>2, <2>1, <2>2, RestartSettles DEF Environment
<1>3. CASE NodeInformer \/ DepInformer
  BY <1>1, <1>3, InformerSettles
<1>4. CASE InitRoutine
  BY <1>1, <1>4, InitRoutineSettles
<1>5. CASE NodeCallback
  BY <1>1, <1>5, NodeCallbackSettles
<1>6. CASE DepCallback
  BY <1>1, <1>6, DepCallbackSettles
<1>7. ASSUME NEW w \in Worker, Update(w) PROVE SettledInv'
  <2>1. CASE Acquire(w) \/ Release(w)
    BY <1>1, <2>1, TokenSettles
  <2>2. ASSUME NEW d \in Deployment,
               SkipDeployment(w, d) \/ CountNodesFails(w, d) \/ PatchFails(w, d)
        PROVE  SettledInv'
    BY <1>1, <2>2, PassSettles
  <2>3. ASSUME NEW d \in Deployment, CountNodes(w, d) PROVE SettledInv'
    BY <1>1, <2>3, CountSettles
  <2>4. ASSUME NEW d \in Deployment, Patch(w, d) PROVE SettledInv'
    BY <1>1, <2>4, PatchSettles
  <2>5. QED
    BY <1>7, <2>1, <2>2, <2>3, <2>4 DEF Update
<1>8. CASE UNCHANGED vars
  BY <1>1, <1>8 DEF vars, apiVars, ctlVars, SettledInv, DepsTold, NodesTold, SnapshotsKept,
       NoneForgotten, Attended, EventAhead, InBatch, PatchAhead, CountUpheld, Controlled,
       Snapshot, ReadyCount, Deps, DepStore, NodeStore
<1>9. QED
  BY <1>2, <1>3, <1>4, <1>5, <1>6, <1>7, <1>8 DEF Next

(* In every reachable state each controlled deployment that no failure hit *)
(* has a reason to become, or to stay, right.                              *)
THEOREM SettledInvariant == Spec => []SettledInv
BY SettledInvInit, SettledInvNext, PTL DEF Spec

(* When every event is handled and no goroutine runs, every controlled     *)
(* deployment that no failure hit has as many replicas as its cluster has  *)
(* ready vnodes.                                                           *)
THEOREM SettledSynced == Spec => []SettledMeansSynced
<1>1. SettledInv => SettledMeansSynced
  <2> SUFFICES ASSUME SettledInv, EnableSync, Settled,
                      NEW d \in Deployment, Controlled(d), d \notin missed
               PROVE  InSync(d)
    BY DEF SettledMeansSynced
  <2>1. /\ nodeCacheAt \in Nat /\ Len(nodeLog) \in Nat /\ Len(depLog) \in Nat
        /\ nodeCacheAt <= Len(nodeLog)
        /\ nodeHandled \in 0 .. nodeCacheAt
    BY PositionType DEF SettledInv, TokenInv, TypeOK
  <2>2. Attended(d)
    BY DEF SettledInv, NoneForgotten
  <2>3. ~EventAhead(d) /\ ~InBatch(d) /\ ~PatchAhead(d)
    BY <2>1 DEF Settled, EventAhead, InBatch, PatchAhead
  <2>4. PICK i \in nodeHandled .. nodeCacheAt : ReadyCount(i, d) = Deps[d].replicas
    BY <2>2, <2>3 DEF Attended, CountUpheld
  <2>5. i = Len(nodeLog)
    BY <2>1, <2>4 DEF Settled
  <2>6. QED
    BY <2>4, <2>5 DEF InSync, ReadyCount, Nodes
<1>2. QED
  BY <1>1, SettledInvariant, PTL
=============================================================================
