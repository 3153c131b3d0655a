# Verification of koupleless/module-controller

The module controller makes every *base* (a JVM that can load modules) appear in
Kubernetes as a *vnode*, sends install and uninstall commands to bases through
*tunnels* (HTTP or MQTT), and keeps the replicas of module deployments equal to the
number of ready bases. This directory holds TLA+ models of that code, TLC instances
that check them, and proofs checked by TLAPS. Paths below are relative to the
repository (`src/`).

## Inventory of the system

| Component | State | Operations | Interacts with |
|---|---|---|---|
| Module deployment controller, `controller/module_deployment_controller` | `updateToken` (a channel of capacity one), the manager's cache | `SetupWithManager` (initial sync), vnode create/update/delete handlers, deployment add/update handlers, `updateDeploymentReplicas`, `QueryContainerBaseline` | informer caches (reads), API server (merge patches), both tunnels (baseline) |
| API server and informer caches (external) | objects, one cache per kind | lists, watches, patches | the controller, users, the vnode controller |
| HTTP tunnel, `module_tunnels/koupleless_http_tunnel` | `nodeIdToBaseStatusMap` under a mutex, `queryAllBizLock`, `queryAllBizDataOutdated`, four callbacks | `RegisterNode`, `UnRegisterNode`, `/heartbeat`, `/queryBaseline`, `FetchHealthData`, `QueryAllBizStatusData`, `StartBiz`, `StopBiz`, `OnNodeNotReady` | bases (HTTP calls through `ark_service`), vnode controller (callbacks) |
| MQTT tunnel, `module_tunnels/koupleless_mqtt_tunnel` | broker subscriptions, callbacks, the connection | `Start`, `RegisterNode`, `UnRegisterNode`, seven message callbacks, commands as publications | broker, bases, vnode controller |
| Conversions and unreachable bases, `common/utils`, `common/model` | none | conversions of statuses and health data, `Expired`, `OnBaseUnreachable` | both tunnels, API server |
| Controller main, `cmd/module-controller` | the list of tunnels | `startTunnels`, construction of manager and controllers | everything |
| Log proxy, `staging/kubelet_proxy` | none | `StartKubeletProxy`, `lookupBasePod`, streaming | API server |
| Self test, `cmd/self-test` | four maps of times, the file of results | rounds of `test`, two event handlers, `cleanResources` | API server, informers |
| Report server, logger | none | an HTTP post, a wrapper | outside |
| Mock bases, `suite/mqtt`, `suite/http` | the modules of a base | commands, heartbeats, baseline | both tunnels |

What is hard in this code:

* **Three goroutines and one token.** The initial sync and the two informer callbacks
  take a snapshot of deployments, *then* wait for the token, then count vnodes in a
  cache that trails the API server, and patch without a resource version. Nothing
  retries a failed call. Correct means: whenever all events are handled the replicas
  are right, no old count overwrites a newer one, and the token is never lost.
* **One lock for all bases.** `QueryAllBizStatusData` does not wait for the lock; it
  leaves a mark outside the lock. Correct means: one query at a time, lists arrive in
  order, every call returns, a request that is put off is served later.
* **Calls to addresses read earlier.** Every command of the HTTP tunnel reads an
  address under a mutex and uses it after the unlock; heartbeats race with
  (un)registrations, and callbacks run outside the mutex.
* **Message delivery.** The MQTT tunnel depends on retained commands, clean sessions,
  expiry of ten seconds, and per-node subscriptions.
* **Ordering at start.** Servers run before callbacks are registered, only the first
  tunnel gets them, and a signal may come before anybody but `main` listens for it.
* **Read, then act.** A vnode is deleted after a lookup, logs are opened after three
  reads, and each object may be another one by then.
* **Measurements over restarts.** The self test counts events of deployments that have the
  same names in every round, and must not lose or repeat a round when it exits.

`PROJECT.json` lists every hazard at its line with the properties that cover it, or the
reason why none does.

## Modules

| Module | Models | Correspondence |
|---|---|---|
| `ApiServer` | API server, caches, users (external) | `nodeLog`, `depLog`: the events emitted so far, each with the world after it; `nodeCacheAt`, `depCacheAt`: how far each cache has come; `listed`: how much of the logs is the initial list; `budget`: what is left of the bounds |
| `ReplicaSync` | `module_deployment_controller.go`, `predicates.go` | `token`: elements in `updateToken`; `worker`: the three goroutines with snapshot, position in the loop and the count about to be patched; `nodeHandled`, `depHandled`: events each callback has taken; `appliedAt`, `missed`: history |
| `ReplicaFollower` | what the controller promises, abstractly | a count per deployment that follows a history of wanted counts |
| `BizStatusQuery` | `QueryAllBizStatusData`, `allBizMsgCallback`, `ark_service.QueryAllBiz` | one action per access to shared state: `TryLock`, `MarkOutdated`, `ResetOutdated`, `Lookup`, `BaseAnswers`/`BaseFails`, `Deliver`, `Unlock`, `CheckOutdated` |
| `HttpTunnel` | the rest of `http_tunnel.go`, `ark_service.go` | `address`: `nodeIdToBaseStatusMap`; `holder`: the tunnel's mutex; `task`: heartbeats and method calls under way, one action per critical section, HTTP call and callback; `discovered`, `reported`: what the callbacks were last given; `incarnation`, `up`, `installed`: the bases; `owed`, `carried`: history, the commands that have told nothing yet and those the base carried out |
| `HttpModules` | `StartBiz`, `StopBiz`, `QueryAllBizStatusData` over the modules of `suite/http/mock_http_base.go` | `command`: calls under way; `query`: the one query that has the lock, reading module by module; `installed`: the base's `BizInfos`; `told`: what the vnode controller was last told; `since`: history, what each module was since each call began |
| `MqttTunnel` | `mqtt_tunnel.go` and `mqtt/mqtt.go`: connection, subscriptions, the seven callbacks | `retained`, `subs`: the broker; `routes`, `inbox`, `handling`: the client library; `greeting`: what the connect handler has yet to subscribe; `call`: `RegisterNode` and `UnRegisterNode` between two topics; `report`, `known`: what was passed on; `registered`, `intact`, `owed`: history |
| `MqttCommands` | `StartBiz`, `StopBiz`, both queries, `bizOperationResponseCallback`, and the commands of `suite/mqtt/mock_mqtt_base.go` | `retained`: the last command of each kind and the last baseline; `job`: the base's goroutines; `installed`: `BizInfos`; `answering`: the response being published by whoever holds the base's mutex; `responses`, `told`: outcomes on their way and told; `silent`: history, modules that the base changed since without an answer |
| `Baseline` | `QueryContainerBaseline`, `getClusterNameFromDeployment`, `processBaseline` of the mock base | `ClusterName`, `Related`, `Sorted`, `Concatenated` are the parts of the query; `answer`: the containers sent |
| `Conversions` | `common/utils/utils.go` | `NodeInfo`, `BaseStatus`, `NodeMemory`, `LatestState`, `ContainerStatus`: one operator per conversion; `bizState`, `records`: the state a base lists a module with and the records of its states, which need not agree |
| `BaseNodes` | `OnBaseUnreachable`, `lookupBasePod` | `removal`, `lookup`: calls under way, one action per request to the API server; `vnode`, `basePods`: its objects, a pod being a name in a namespace; `bound`: the namespaces in which the request's pod is bound to the vnode; `hosts`: history |
| `Startup` | `cmd/module-controller/main.go`, `Start` of both tunnels, `StartKubeletProxy` | `pc`: the next step of main; `mqtt`, `discovery`, `proxy`, `cache`: what has been started; `tunnel`: who gets the callbacks; `beat`: each heartbeat under way, stored, told or answered; `signal`, `cancelled`: who has heard a signal |
| `SelfTest` | `cmd/self-test/main.go` | `round`, `created`, `res`: memory; `deploymentTimes`, `podTimes`: which names have which time; `dir`, `exists`, `file`, `torn`: the directory and the file of results; `events`: what the informers have yet to deliver; `saved`, `gen`: history |
| `MC...` | instances for TLC | |
| `...Proofs` (eight) | proofs | |

`HttpTunnel` and `BizStatusQuery` are two parts of one Go type. They meet in the map of
addresses, which `BizStatusQuery` sees as the set `known` that changes at any time
(`KnownChanges`): every change `HttpTunnel` can make to the map is such a change, so
what is shown of `BizStatusQuery` holds beside `HttpTunnel`.

`HttpModules` composes the commands of `HttpTunnel` with the query of `BizStatusQuery` over
one base and looks at the content that the other two leave out: which module is installed,
and what is told of it. `MqttTunnel` and `MqttCommands` are the two directions of the
other tunnel: what comes in through the callbacks, and what goes out as retained commands
until its outcome comes back. `Baseline` is what both tunnels answer a base that asks for
its modules, `BaseNodes.OnNodeNotReady` what both do with a base that is gone.

Granularity: one action per step between which another goroutine can run and be
noticed. In `ReplicaSync` these are taking the snapshot, receiving the token, deciding
about one deployment (the count is one list of the cache), the patch at the API
server, and the deferred send. The order of the loop over deployments is left open.
Operators marked *Faulty variant* are not part of the specification: each is an action
with a plausible bug, kept to show that the property it is paired with would notice.

Assumptions of the models, all about code outside the repository or labels:

* an informer delivers every event of its kind in order, never skips one, and starts
  with one event per existing object (`NodeListing`, `DepListing`);
* environment, component and cluster name of an object do not change while it exists;
  replicas, strategy and the skip label do;
* a merge patch writes `spec.replicas` only; `NotFound` counts as success;
* a restart loses all memory of the process and nothing of the API server;
* the MQTT client hands one message at a time to its callbacks in the order the broker sent
  them, the broker keeps the last retained message of a topic and repeats it to each new
  subscription, and a lost connection ends a clean session (`MqttTunnel`); the session of a
  base is its own, and a base that connects again gets what is retained (`MqttCommands`);
* the clocks of bases and controller agree, as `Expired` compares them;
* an informer's lag in `SelfTest` is shorter than the program's sleeps of five seconds, except
  in the behaviours whose budget says `late`: the properties about measurements are stated for
  the others, those about the file of results for all.

## Runs

| Run | Instance | What it shows |
|---|---|---|
| `replicas` | up to 3 vnodes and 2 deployments in five scenarios: 2 status changes; 1 change, 1 failing call and 1 restart; 1 failing call in batches of two deployments with a vnode of another cluster; 1 change and 1 edit of a deployment that exists, or that is created | `TokenConserved`, `PatchesFollowNodes`, `SettledMeansSynced` (when all events are handled and no call failed, the replicas are right), and `FollowsNodes` (the controller implements `ReplicaFollower`), against caches that trail by any amount |
| `replicas_live` | 2 vnodes, 1 deployment, 1 change, 1 edit, fairness | `Converges`: replicas settle; `WaitersServed`: nobody waits for the token for ever |
| `replicas_environment` | 2 deployments, one of another environment | **finding**: a vnode event makes the controller patch a deployment its selector excludes |
| `biz_query` | 2 bases, 2 overlapping calls, 3 requests, 2 changes of modules, 1 (un)registration, fairness | `LockedWhileQuerying`, `DeliveriesInOrder`, `CallsReturn`; `MarkedRequestServed`: a mark set while the same node is queried leads to another query |
| `biz_query_lost` | 2 bases, 2 calls | **finding**: a request refused by the lock may never be served, with no error |
| `tunnel` | 1 base, 2 heartbeats at once, 2 calls, 1 restart, fairness | `MutexHeld`, `HeartbeatWins`; `OutcomesReported`: a command that found the base returns with an outcome told, or is a stop that succeeded (`http_tunnel.go:251` tells nothing then); `HeartbeatsServed`: heartbeats do not depend on bases that answer; `BasesFollowed`: after the last restart the present address becomes known to the tunnel and to the vnode controller |
| `mqtt_messages` | `MqttTunnel`: 1 base, a lifetime of 1, five budgets (one tick of the clock with a message, a loss and a call; two ticks with a message and a call; two lives of the base and a loss; two overlapping calls with a loss, or with a message); `Conversions`: 3 ports, 3 spellings of a state, every memory figure around -1, two states of a module and up to 2 records; `Baseline`: 2 deployments with every label, selector, affinity and time | `DeadStaySilent`: however long messages are retained, a dead base falls silent; `HeartbeatsInOrder`, `RegisteredHears`, `UnregisteredSilent`; `ContentKept`: addresses, memory and modules are told as the base sent them, a module's state also where its latest record says another; `BaselineOrdered`: containers of deployments that name the cluster, the newest last |
| `mqtt_live` | 1 base, 1 restart of it, 1 loss or restart of the controller, 1 call, fairness | `BasesDiscovered` |
| `mqtt_qos` | 1 base, 1 loss, 1 response | **finding**: node topics are not subscribed again after a reconnect |
| `commands` | `HttpModules`: 2 modules, 2 overlapping commands, the query, 1 failure, 1 restart of the base; `MqttCommands`: 1 module, 2 goroutines of the base, 3 commands or baselines, 1 crash, lost connection or broken module; fairness | `ToldWasTrue`: what is told of a module over HTTP was so during the call that tells it; `ReportsRepaired`: later lists correct what was told in the wrong order; `OutcomesAgree`: what was told over MQTT agrees with the base when no answer is under way, unless the base restarted or changed the module since without an answer; `LastCommandRuns`: commands and baselines reach a base that was away |
| `startup` | `Startup`: every configuration, 2 heartbeats, a failure at any step, a signal; `BaseNodes`: 1 lookup and 1 removal, 2 base pods, 2 namespaces, 2 moves (of pods, or pods of the other namespace that have the name of a base), 1 error; fairness | `RunsWithItsTunnels`, `ProxyServesOrDies`, `ContextClosesServers`; `AcknowledgedMeansTold`: SUCCESS follows the callback, and only without the MQTT tunnel; `LogsOfOwnBase`, `UnreachableRemoved` |
| `selftest` | 4 rounds (1 or 2 bases and modules), 1 exit, with 1 lost vnode and 1 late update, 1 failing read, or informers of any lag, with and without the directory of the file; fairness | `RoundsComplete`, `OwnPodsMeasured`, `SavedRoundsKept`, `SavedRoundsNotRepeated`; `AllRoundsMeasured`: every round has a result in the end, if there is the directory, the base deployment can be read and no death leaves the file empty or cut off |

Three runs check several modules that share no state: `MCMqttMessages`, `MCCommands` and
`MCStartup` instantiate them side by side, and a behaviour is one of one part while the others
rest where they began. What is checked of each is what a run of its own would check.

Bounds. Every cache lag, interleaving of the three goroutines and order of a listing is
explored inside the bounds; what is bounded is how often the environment moves. The bounds are
sets of records (`Scenarios` in `ApiServer`, `Budgets` in `MqttTunnel` and `SelfTest`): a
behaviour starts with one of them and uses it up, so that each combination of events that
belong together is explored in full without the product of all of them.

In `ReplicaSync` one status change and one edit make a snapshot stale while another goroutine
holds the token; two changes let an old and a new count be on their way together; one
failure hits each call of a batch of two deployments in turn, so that the other
deployment of the batch shows whether the loop goes on; one restart may fall between any
two steps. In `BizStatusQuery` three requests let a mark be set, reset and set again. One base
is enough for the address map of `HttpTunnel`, whose entries do not depend on each other; two
heartbeats and a call bring every pair of them into every order, and one restart makes an
address, a heartbeat and a registration stale. Heartbeats are not bounded.

In `MqttTunnel` bases do not disturb each other (a topic belongs to one node), so one base
is enough; its two lives give the broker an older heartbeat to repeat. One loss or restart falls
between any two steps of a registration; a second one brings nothing that a longer outage does
not. A clock of two ticks and a lifetime of one give every message the ages new, just expired
and long expired. `MaxInbox` only keeps bases from flooding the client while its callback runs.
In `MqttCommands` three publications are an install, its uninstall and a baseline, or any
other three, in any two goroutines, around an outage; modules meet only in the queue of
responses and in the mutex, so one is enough. Calls and deployments are interchangeable in `mqtt_messages`
(symmetry; it checks no liveness).

`CHECK_DEADLOCK FALSE` is set in every run, as the environment is bounded: when the bounds are
used up and all work is done, the system really stops (and `main` and the self test really
end). That nobody waits for ever is checked as a liveness property instead.

Fairness. Informers and goroutines that can run go on running (weak fairness of
`NodeInformer`, `DepInformer`, the callbacks, the initial sync and each
`Update(w)`): the Go scheduler is fair to runnable goroutines, and calls of the API
server end because the client has a request timeout, in a patch or in an error. Users,
vnodes, failures and restarts owe nothing. Bases owe nothing either: the HTTP client of
`ark_service.go:20` has no timeout, so the liveness properties of `BizStatusQuery` state
what they need as a premise, `BasesAnswer`. In `HttpTunnel` no HTTP call need ever end;
assumed are a `sync.Mutex` that lets nobody starve (strong fairness of `Lock`: Go hands it
over in order once a waiter is late), that main goes on to register the callbacks, and that
a running base repeats its heartbeat, as the mock base does every ten seconds
(`suite/http/mock_http_base.go:127`). In `HttpModules` commands, reports and queries go on, as the
vnode controller repeats its query by a timer; restarts and failures are bounded. In
`MqttTunnel` the client reconnects (`SetAutoReconnect(true)`), messages are dispatched,
callbacks and calls go on, and a running base beats (`mock_mqtt_base.go:77`). In `MqttCommands` the
base starts and connects again as often as it must, and its goroutines run. In `Startup` main,
the servers' goroutines and the handlers of signals run; a heartbeat owes nothing. In `BaseNodes`
removals go on, the vnode controller reports a vnode that stays not ready again, and the cache
catches up. In `SelfTest` main, the handlers and the cluster go on and the test is started
again after an exit.

## Proofs

Every safety invariant and every action property that a run checks is also a theorem, as is
the refinement, for every number of vnodes, deployments, bases, modules and calls, and every
bound. Eight modules hold the proofs. Each theorem follows from an inductive invariant that
TLC checked on the run's instance before it was proved.

* `TypeCorrect`, `TokenNeverLost`, `PatchesInOrder` (`ReplicaSyncProofs`). The
  inductive invariant is `TokenInv == TypeOK /\ TokenConserved /\ CountsFresh`. Type
  correctness is not inductive alone: the channel holds at most one element only because
  exactly one holder gives the token back. The order of patches needs `CountsFresh`:
  nothing applied is newer than the vnode cache, and a count that is about to be patched
  was read after everything applied before, because the reader has held the token since.
* `SettledSynced` (`ReplicaSyncProofs`): replicas are right once nothing is left to do. The
  invariant, `SettledInv`, has to speak of everything still on its way in three goroutines:
  each controlled deployment is *attended* (`NoneForgotten`), by an event still to be handled,
  by a batch that has it as it is now, by a count about to change it, or because its
  replicas are the count at some position whose later vnode events are still to be handled.
  When all is settled only the last way remains, and it says what the property says. It
  needs `DepsTold` and `NodesTold` (an event changes its own object only) for an object
  whose events are all handled to be what the snapshot holds.
* `ImplementsFollower` (`ReplicaFollowerProofs`): `Spec => Follower!Spec`. `FollowInv` adds
  `CountsTrue`: a count on its way is the count at the position it was read at, which
  stays true because events only append to the log (`HistoryStable`). Then each action
  maps to a step or to none: a vnode change to `WantedChanges`, an edit to
  `UserChanges`, a patch to `Follow` at the position its count was read at, a restart to
  `Restart`, since a fresh listing ends in the world of the API server (`ListedNodes`,
  `ListedDeps`), everything else to no step.
* `LockNeverLeft`, `ListsInOrder` (`BizStatusQueryProofs`): from
  `QueryInv == TypeOK /\ LockedWhileQuerying /\ SeenIsFresh`. A list is delivered while
  the lock is held, so what a call has seen is at least what was delivered before.
* `MutexNeverLeft`, `HeartbeatsWin`, `NoSilentReturn` (`HttpTunnelProofs`): from `TunnelInv`,
  which adds to the three properties and `TypeOK` that only commands owe a report, so that
  no other return can forget one, and that a stop which is about to return with SUCCESS was
  carried out (`SuccessIsCarried`). The steps fall into those outside the mutex
  (`OutsideMutex`), those that enter it (`LockStep`) and those that leave it (`LeaveMutex`).
* `ToldTheTruth` (`HttpModulesProofs`): an action property, from an invariant that ties each
  call to its history: a command that was answered, and each module of a list already read,
  was so at a moment since the call began.
* `OutcomesToldAgree` (`HttpModulesProofs`, about `MqttCommands` in `MCCommands`). What was told
  is of a response that has left the queue, so `OutcomeInv` speaks of the responses still in it:
  of those about one module and of the present life, the last agrees with the base
  (`LastAgrees`), and none is of a later life (`LivesPast`). A response that is told is the last
  about its module, or another is awaited and the property promises nothing. A base changes a
  module first and publishes the answer later, connected again if need be; the mutex that it
  keeps until then is what keeps responses in the order of the changes.
* `RunsWithTunnels`, `AcknowledgedWasTold` (`StartupProofs`). `RunsWithItsTunnels` speaks of the
  last step of main only; `Settled` says what each earlier step has settled about the tunnels
  that were started and failed. `AcknowledgedMeansTold` speaks of a heartbeat that is answered;
  `Heard` says what the steps before settle: it is called only with callbacks, which the HTTP
  tunnel has when it is the one that is chosen, and a choice is never changed.
* `LogsComeFromOwnBase` (`StartupProofs`, about `BaseNodes` in `MCStartup`): `LookupInv` follows
  the name and the namespace from read to read; the name is a host that was noted in `hosts` when
  it was true, the namespace that of the request.
* `MqttTypes`, `DeadSilent` (`MqttTunnelProofs`). `AgeInv` follows messages from their
  publication: wherever one is kept (by the broker, in the client, in a callback), it is no
  younger than the end of a base that no longer runs. Then a message that is not expired
  cannot be of a base that ended a lifetime ago.
* `RegisteredAreHeard`, `UnregisteredAreSilent` (`MqttTunnelProofs`): both properties speak of
  calls that have returned, `CalmInv` of calls under way: an undisturbed call is the only one of
  its node (`Alone`) and has done what its position in the list of topics says (`SoFar`).
* `HeartbeatsStayInOrder` (`MqttTunnelProofs`): `BeatsInv` ranks every heartbeat by the life of
  its base and by its state. The client's queue is in order of rank, nothing in it comes before
  what was told or is in the callback, and what the broker retains comes after all of these, so
  that a retained message repeated to a new subscription cannot overtake.
* `ContentIsKept`, `BaselineIsOrdered` (`MqttTunnelProofs`, about `Conversions` and `Baseline` in
  `MCMqttMessages`). `LatestState` is a fold and `Concatenated` a recursive function, so both need
  induction over lists of any length. The library states induction for an operator
  parameter, which the provers cannot instantiate; here it is stated for a set
  (`AllNumbers`) and follows from the least element of a set of numbers (`LeastNumber`).
  With it the recursive function is shown to exist (`FoldExists`, `ConcatExists`), as
  a `CHOOSE` says nothing otherwise, and then to have its meaning at each position: the
  latest record so far (`Decides`), the containers gathered so far (`Gathered`).
* `SelfTestTypeCorrect`, `ResultsNeverLost`, `NoRoundTwice`, `RoundsMeasuredWhole`,
  `OwnPodsOnly` (`SelfTestProofs`), all from `RoundInv`. The file is right because of what is in
  memory at each step (`ResultsKept`): a new file is made only if nothing was ever saved, the
  results are loaded before they are written back, and the round under way is not among them. The measurements are right because a round starts in a
  clean cluster (`CleanStart`) and the maps and the events still to be delivered together have
  the times of this round's pods and of no others (`OwnRound`).

The theorems rest on the named assumptions about constants and on nothing else: finite sets of
vnodes and deployments and the shape of scenarios (`NodeAssumption`, `ClusterAssumption`,
`BoundAssumption`, `ScenarioAssumption` of `ApiServer`; `SelectorAssumption`, `GoneAssumption`
of `ReplicaSync`), handlers that are not callers (`SlotAssumption` of `HttpTunnel`), numbers and
budgets that are numbers (`NumberAssumption`, `BudgetAssumption` of `SelfTest`), a size of
memory that is a number or -1 and times that are numbers (`ContentAssumption`), finitely many
deployments with at most one label of a key (`DeploymentAssumption`, as a Kubernetes label has
one value; both of `MCMqttMessages`). TLC evaluates each of them in a passing run.

Only model-checked: the liveness properties (`Converges`, `WaitersServed`, `CallsReturn`,
`MarkedRequestServed`, `HeartbeatsServed`, `BasesFollowed`, `ReportsRepaired`, `BasesDiscovered`,
`LastCommandRuns`, `ProxyServesOrDies`, `ContextClosesServers`, `UnreachableRemoved`,
`AllRoundsMeasured`), which rest on fairness and with it on `ENABLED`, out of the prover's reach.
The three findings are counterexamples of TLC and need no proof.

## Where code and documents differ

Three differences have a run that shows them, listed in `PROJECT.json` with the line quoted:

* `GetRelatedDeploymentsByNode` and `getReadyNodeCount` do not restrict themselves to the
  controller's environment (`replicas_environment`).
* A request for the list of modules that finds the lock taken may never be served
  (`biz_query_lost`).
* After a reconnect only the discovery topics are subscribed again (`mqtt_qos`).

Others follow from the models and limit what the properties above promise:

* `QueryContainerBaseline` appends the containers of every related deployment; the comment at
  `module_deployment_controller.go:177` speaks of the last version of each name.
  `BaselineOrdered` says the newest comes last, not that it is the only one.
* Commands are published retained (`mqtt/mqtt.go:156`), so a base receives one again each time
  it subscribes, although the comment at line 18 says it is published once. `LastCommandRuns`
  relies on this.
* The pod key that should "prevent old uninstall requests from removing new modules"
  (`common/model/model.go:37`) is not looked at by the base of the test suite (`mock_mqtt_base.go:234`)
  and dropped from responses: a late uninstall removes a newer module. `OutcomesAgree`
  says only that what was told then agrees with the base.
* A signal that comes before `manager.Start` is taken by main's own handler
  (`cmd/module-controller/main.go:76`): servers close (`ContextClosesServers`) and the process goes on.
* The discovery server's failure to listen is logged only (`http_tunnel.go:198`): the manager runs
  with a tunnel that nobody can reach.
* A successful `StopBiz` of the HTTP tunnel tells the vnode controller nothing
  (`http_tunnel.go:251`); the MQTT tunnel tells that the module stopped. `OutcomesReported` names the
  one silent return.
* The state of a module is the one it is listed with (`common/utils/utils.go:139`), its time and
  reason are those of its latest record: the two may be of different states. A record of
  the time 0 never counts.
* A deployment without label and selector belongs to the first value of its first affinity
  expression, whatever the operator (`module_deployment_controller.go:323`): one that excludes a
  cluster (`NotIn`) sends its containers to that very cluster. `BaselineOrdered` says so.
* The baseline that answers a base is retained like a command, and the mock base carries it out
  in its callback, without the mutex and without an answer (`mock_mqtt_base.go:192`): modules
  stopped in the meantime are active again after every reconnect, and only a list tells
  the vnode controller. `OutcomesAgree` leaves such modules out until their next answer.
* `lookupBasePod` takes the name of the base pod from the vnode and the namespace from the request
  (`staging/kubelet_proxy/pod_handler.go:120`): a request for a module's pod in a namespace
  other than that of the bases finds no base pod, or another pod of that name.
  `LogsOfOwnBase` promises the own base for the namespace of the bases only.
* With both tunnels enabled, a heartbeat posted to the HTTP tunnel is stored, then the nil callback ends
  its request (`http_tunnel.go:163`): it is never acknowledged.
* The self test makes its file of results in two steps and ignores an error of either
  (`cmd/self-test/main.go:294`). A death between the two leaves an empty file, a death inside of the
  write one that is cut off, and without the directory `test_results` (the repository has none) there
  is no file: every later run ends where it reads the file. `AllRoundsMeasured` excludes these.
* `OnBaseUnreachable` deletes a vnode by name after looking it up, also one that became ready in
  between (`common/utils/utils.go:196`).
* `updateReplicas` of the self test does not wait for vnodes when the replicas are already what
  it wants (`cmd/self-test/main.go:110`), so a round after a restart may begin without its bases.

## Not modelled

* Report server (a stateless post), logger (a wrapper), reading of settings in main, the TLS
  settings of the MQTT client, and the streaming of logs (I/O).
* Relabelling: in `ReplicaSync` the cluster name of a vnode or deployment is constant.
* Health data and the content of batch answers, on which nothing in this repository depends;
  the fields that conversions copy unchanged.
* Wall-clock times that the self test measures: only which names have a time is kept.
* The virtual kubelet, the base runtime and the broker are not part of the repository. They
  appear as environment; the base in `MqttCommands`, `HttpModules` and `Baseline` is the
  one the repository has, the mock base of its test suites, with two additions marked
  external, a failing install and a failing uninstall, which the tunnels' callbacks handle
  and the mock bases never cause. Its unreachable mode, in which it ignores commands, is left out,
  and so is what a session that is not clean would queue for it.
* Time-outs: the HTTP client has none, and the MQTT client's are inside the library.
