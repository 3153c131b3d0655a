-------------------------------- MODULE SelfTest ------------------------------
(***************************************************************************)
(* The self test (src/cmd/self-test): for every number of bases and every  *)
(* number of modules, a round scales the base deployment, waits for its    *)
(* vnodes, creates the module deployments, waits until all were seen ready *)
(* and measures how long that took.  Results are saved after every round,  *)
(* and a test that is run again goes on after the saved rounds.            *)
(*                                                                         *)
(* main runs the rounds; two informers write the maps of times that main   *)
(* reads.  Deployments have the same names in every round, pods have fresh *)
(* ones.  The pods of a deployment are one pod here, and a deployment that *)
(* has been ready stays so.                                                *)
(***************************************************************************)
EXTENDS Naturals, FiniteSets, Sequences

CONSTANTS
    BaseNumList,        \* the numbers of bases (positive), in ascending order
    ModuleNumList,      \* the numbers of modules, in ascending order
    Budgets             \* bound: deaths of the test, vnodes that stop being
                        \* ready, failing reads of the base deployment, further
                        \* updates of a ready deployment, and whether informers
                        \* may lag for longer than a sleep of main

Budget == [dies : Nat, lost : Nat, unread : Nat, updates : Nat, late : BOOLEAN]

ASSUME NumberAssumption == BaseNumList \subseteq Nat /\ ModuleNumList \subseteq Nat
ASSUME BudgetAssumption == Budgets \subseteq Budget

VARIABLES
    pc,             \* the next step of main
    round,          \* the round under way: number of bases, of modules
    created,        \* how many deployments of it are created
    res,            \* the rounds whose results are in memory
    dir,            \* is there a directory test_results (main does not make it)
    exists,         \* is there a file of results
    file,           \* the rounds whose results are in the file
    torn,           \* is the file empty, or cut off in the middle of a write
    deploymentTimes,\* names in deploymentNameToCreateTime and ...ToReadyTime
    podTimes,       \* names in podNameToCreateTime and podNameToReadyTime
    base,           \* the base deployment: replicas, ready vnodes
    deps,           \* the module deployments
    pods,           \* the pods: deployment and round they belong to
    events,         \* what the informers have still to deliver
    gen,            \* history: how often a round has begun
    saved,          \* history: the rounds that were saved
    left            \* what is left of each bound

memory == <<round, created, res>>
times == <<deploymentTimes, podTimes>>
disk == <<dir, exists, file, torn, saved>>
cluster == <<base, deps, pods>>
vars == <<pc, memory, times, disk, cluster, events, gen, left>>

Round == BaseNumList \X ModuleNumList
Dep == UNION {1 .. n : n \in ModuleNumList}
Pod == Dep \X Nat
Before(r, s) == r[1] < s[1] \/ (r[1] = s[1] /\ r[2] < s[2])
Empty == [create |-> {}, ready |-> {}]
NoEvents == [dep |-> <<>>, pod |-> <<>>]

Init ==
    /\ pc = "down"
    /\ round \in Round /\ \A r \in Round : r = round \/ Before(round, r)
    /\ created = 0 /\ res = {}
    /\ deploymentTimes = Empty /\ podTimes = Empty
    /\ dir \in BOOLEAN /\ exists = FALSE
    /\ file = {} /\ torn = FALSE /\ saved = {}
    /\ base \in [replicas : {1}, ready : {0, 1}]     \* example/self-test/base.yaml
    /\ deps = [d \in Dep |-> "none"]
    /\ pods = {}
    /\ events = NoEvents
    /\ gen = 0
    /\ left \in Budgets

Goto(from, to) == pc = from /\ pc' = to

(* A sleep, or a wait of several: as long as the informers need, or not.   *)
Sleeps == left.late \/ events = NoEvents

-----------------------------------------------------------------------------
(* cleanResources, and the file of results.                                *)

(* main is run; the informer of pods lists the pods there are.             *)
Start ==
    /\ Goto("down", "clean")
    /\ res' = {}
    /\ deploymentTimes' = Empty
    /\ podTimes' = [create |-> pods, ready |-> {}]
    /\ UNCHANGED <<round, created, disk, cluster, events, gen, left>>

DeleteDeployment ==
    /\ pc = "clean"
    /\ \E d \in Dep : deps[d] # "none" /\ deps' = [deps EXCEPT ![d] = "none"]
    /\ UNCHANGED <<pc, memory, times, disk, base, pods, events, gen, left>>

(* The first clean-up comes before the file is read.                       *)
PodsGone ==
    /\ pc = "clean"
    /\ \A d \in Dep : deps[d] = "none"
    /\ pods = {} /\ Sleeps
    /\ pc' = IF res = {} THEN "load" ELSE "next"
    /\ UNCHANGED <<memory, times, disk, cluster, events, gen, left>>

(* A file that is there is read, however it looks inside.                  *)
Stat ==
    /\ pc = "load"
    /\ pc' = IF exists THEN "read" ELSE "newfile"
    /\ UNCHANGED <<memory, times, disk, cluster, events, gen, left>>

(* os.Create makes an empty file, or fails without the directory: the      *)
(* error is ignored.                                                       *)
CreateFile ==
    /\ Goto("newfile", "empty")
    /\ exists' = dir /\ torn' = dir
    /\ UNCHANGED <<memory, times, dir, file, saved, cluster, events, gen, left>>

(* os.WriteFile makes the file an empty result, or fails like os.Create.   *)
WriteEmpty ==
    /\ Goto("empty", "read")
    /\ file' = {} /\ torn' = FALSE
    /\ UNCHANGED <<memory, times, dir, exists, saved, cluster, events, gen, left>>

(* A file that is missing, empty or cut off ends the test, and every later *)
(* one in the same way.                                                    *)
Readable == exists /\ ~torn

(* Faulty variant: what an earlier run saved is not looked at.             *)
LoadNothing ==
    /\ pc = "read"
    /\ pc' = IF Readable THEN "next" ELSE "stuck"
    /\ UNCHANGED <<memory, times, disk, cluster, events, gen, left>>

Load ==
    /\ pc = "read"
    /\ pc' = IF Readable THEN "next" ELSE "stuck"
    /\ res' = IF Readable THEN file ELSE res
    /\ UNCHANGED <<round, created, times, disk, cluster, events, gen, left>>

(* os.WriteFile truncates the file, then writes it.                        *)
Truncate ==
    /\ Goto("save", "write")
    /\ torn' = TRUE
    /\ UNCHANGED <<memory, times, dir, exists, file, saved, cluster, events, gen, left>>

(* Faulty variant: the results of other numbers of bases are not kept.     *)
WriteOwnBaseOnly ==
    /\ Goto("write", "clean")
    /\ torn' = FALSE
    /\ file' = {r \in res : r[1] = round[1]}
    /\ saved' = saved \cup {round}
    /\ UNCHANGED <<memory, times, dir, exists, cluster, events, gen, left>>

Write ==
    /\ Goto("write", "clean")
    /\ torn' = FALSE
    /\ file' = res
    /\ saved' = saved \cup {round}
    /\ UNCHANGED <<memory, times, dir, exists, cluster, events, gen, left>>

-----------------------------------------------------------------------------
(* pressureTest and test.                                                  *)

AllMeasured ==
    /\ Goto("next", "done")
    /\ res = Round
    /\ UNCHANGED <<memory, times, disk, cluster, events, gen, left>>

(* Faulty variant: the maps keep what the round before left in them.       *)
BeginRoundKeepsTimes ==
    /\ Goto("next", "update")
    /\ \E r \in Round \ res :
          /\ \A s \in Round \ res : s = r \/ Before(r, s)
          /\ round' = r
    /\ created' = 0
    /\ gen' = gen + 1
    /\ UNCHANGED <<res, times, disk, cluster, events, left>>

(* The next round without a result; test empties the maps.                 *)
BeginRound ==
    /\ Goto("next", "update")
    /\ \E r \in Round \ res :
          /\ \A s \in Round \ res : s = r \/ Before(r, s)
          /\ round' = r
    /\ created' = 0
    /\ deploymentTimes' = Empty /\ podTimes' = Empty
    /\ gen' = gen + 1
    /\ UNCHANGED <<res, disk, cluster, events, left>>

(* updateReplicas: a base deployment that has the replicas already is not  *)
(* waited for; one that cannot be read is, without being scaled.           *)
UpdateReplicas ==
    /\ pc = "update"
    /\ \/ /\ base.replicas = round[1]
          /\ pc' = "create"
          /\ UNCHANGED <<base, left>>
       \/ /\ base.replicas # round[1]
          /\ pc' = "nodes"
          /\ base' = [base EXCEPT !.replicas = round[1]]
          /\ UNCHANGED left
       \/ /\ left.unread > 0
          /\ pc' = "nodes"
          /\ left' = [left EXCEPT !.unread = @ - 1]
          /\ UNCHANGED base
    /\ UNCHANGED <<memory, times, disk, deps, pods, events, gen>>

NodesReady ==
    /\ Goto("nodes", "create")
    /\ base.ready = round[1]
    /\ UNCHANGED <<memory, times, disk, cluster, events, gen, left>>

(* Faulty variant: the loop creates one deployment too many.               *)
CreateOneMore ==
    /\ Goto("create", "record")
    /\ created <= round[2]
    /\ deps' = [d \in Dep |-> IF d = created + 1 THEN "new" ELSE deps[d]]
    /\ UNCHANGED <<memory, times, disk, base, pods, events, gen, left>>

CreateDeployment ==
    /\ Goto("create", "record")
    /\ created < round[2]
    /\ deps' = [deps EXCEPT ![created + 1] = "new"]
    /\ UNCHANGED <<memory, times, disk, base, pods, events, gen, left>>

(* The time is taken when Create returns: events may be ahead of it.       *)
RecordCreate ==
    /\ Goto("record", "create")
    /\ created' = created + 1
    /\ deploymentTimes' = [deploymentTimes EXCEPT !.create = @ \cup {created + 1}]
    /\ UNCHANGED <<round, res, podTimes, disk, cluster, events, gen, left>>

(* Faulty variant: the wait ends one deployment early.                     *)
AllReadyButOne ==
    /\ Goto("create", "sleep")
    /\ created = round[2]
    /\ Cardinality(deploymentTimes.ready) >= round[2] - 1
    /\ UNCHANGED <<memory, times, disk, cluster, events, gen, left>>

(* The wait for as many ready deployments as the round has.                *)
AllReady ==
    /\ Goto("create", "sleep")
    /\ created = round[2]
    /\ Cardinality(deploymentTimes.ready) = round[2]
    /\ UNCHANGED <<memory, times, disk, cluster, events, gen, left>>

SleepEnds ==
    /\ Goto("sleep", "statistic")
    /\ Sleeps
    /\ UNCHANGED <<memory, times, disk, cluster, events, gen, left>>

(* What is measured: names with both times.                                *)
Valid(t) == t.ready \cap t.create

(* An average over nothing divides by zero and ends the process.           *)
Statistic ==
    /\ pc = "statistic"
    /\ IF Valid(podTimes) = {} \/ Valid(deploymentTimes) = {}
       THEN /\ left.dies > 0
            /\ pc' = "down" /\ events' = NoEvents
            /\ left' = [left EXCEPT !.dies = @ - 1]
            /\ UNCHANGED res
       ELSE pc' = "save" /\ res' = res \cup {round} /\ UNCHANGED <<events, left>>
    /\ UNCHANGED <<round, created, times, disk, cluster, gen>>

(* The process is killed, exits after a failed call, or the runtime ends   *)
(* it because main reads a map while an informer writes it.                *)
Die ==
    /\ pc \notin {"down", "done", "stuck"}
    /\ left.dies > 0
    /\ pc' = "down"
    /\ events' = NoEvents
    /\ left' = [left EXCEPT !.dies = @ - 1]
    /\ UNCHANGED <<memory, times, disk, cluster, gen>>

-----------------------------------------------------------------------------
(* The cluster.                                                            *)

(* An informer passes an event on while the test runs.                     *)
Emit(kind, e) ==
    events' = IF pc \in {"down", "done", "stuck"} THEN events
              ELSE [events EXCEPT ![kind] = Append(@, e)]

NodesFollow ==
    /\ base.ready # base.replicas
    /\ base' = [base EXCEPT !.ready = base.replicas]
    /\ UNCHANGED <<pc, memory, times, disk, deps, pods, events, gen, left>>

NodeLost ==
    /\ base.ready > 0 /\ left.lost > 0
    /\ base' = [base EXCEPT !.ready = @ - 1]
    /\ left' = [left EXCEPT !.lost = @ - 1]
    /\ UNCHANGED <<pc, memory, times, disk, deps, pods, events, gen>>

PodCreated ==
    /\ \E d \in Dep :
          /\ deps[d] = "new" /\ <<d, gen>> \notin pods
          /\ pods' = pods \cup {<<d, gen>>}
          /\ Emit("pod", [pod |-> <<d, gen>>, kind |-> "create"])
    /\ UNCHANGED <<pc, memory, times, disk, base, deps, gen, left>>

(* The module is installed: the pod is ready, then its deployment.         *)
PodReady ==
    /\ \E p \in pods :
          /\ deps[p[1]] = "new"
          /\ deps' = [deps EXCEPT ![p[1]] = "starting"]
          /\ Emit("pod", [pod |-> p, kind |-> "ready"])
    /\ UNCHANGED <<pc, memory, times, disk, base, pods, gen, left>>

DeploymentReady ==
    /\ \E d \in Dep :
          /\ deps[d] = "starting"
          /\ deps' = [deps EXCEPT ![d] = "ready"]
          /\ Emit("dep", d)
    /\ UNCHANGED <<pc, memory, times, disk, base, pods, gen, left>>

DeploymentUpdated ==
    /\ left.updates > 0
    /\ \E d \in Dep : deps[d] = "ready" /\ Emit("dep", d)
    /\ left' = [left EXCEPT !.updates = @ - 1]
    /\ UNCHANGED <<pc, memory, times, disk, cluster, gen>>

PodDeleted ==
    /\ \E p \in pods : deps[p[1]] = "none" /\ pods' = pods \ {p}
    /\ UNCHANGED <<pc, memory, times, disk, base, deps, events, gen, left>>

(* The handlers of the two informers.  A second time of a pod is ignored,  *)
(* a second time of a deployment replaces the first.                       *)
HandlePodEvent ==
    /\ events.pod # <<>>
    /\ LET e == Head(events.pod)
       IN  podTimes' = [podTimes EXCEPT ![e.kind] = @ \cup {e.pod}]
    /\ events' = [events EXCEPT !.pod = Tail(@)]
    /\ UNCHANGED <<pc, memory, deploymentTimes, disk, cluster, gen, left>>

HandleDeploymentEvent ==
    /\ events.dep # <<>>
    /\ deploymentTimes' =
          [deploymentTimes EXCEPT !.ready = @ \cup {Head(events.dep)}]
    /\ events' = [events EXCEPT !.dep = Tail(@)]
    /\ UNCHANGED <<pc, memory, podTimes, disk, cluster, gen, left>>

Main ==
    \/ DeleteDeployment \/ PodsGone
    \/ Stat \/ CreateFile \/ WriteEmpty \/ Load \/ Truncate \/ Write
    \/ AllMeasured \/ BeginRound \/ UpdateReplicas \/ NodesReady
    \/ CreateDeployment \/ RecordCreate \/ AllReady \/ SleepEnds \/ Statistic

Cluster ==
    \/ NodesFollow \/ PodCreated \/ PodReady \/ DeploymentReady \/ PodDeleted
    \/ NodeLost \/ DeploymentUpdated

Next ==
    \/ Start \/ Main \/ Die \/ Cluster
    \/ HandlePodEvent \/ HandleDeploymentEvent

Spec == Init /\ [][Next]_vars

(* The test is run again when it has ended, the cluster brings up what it  *)
(* is asked for, the informers deliver.                                    *)
Fairness ==
    /\ WF_vars(Start) /\ WF_vars(Main)
    /\ WF_vars(NodesFollow) /\ WF_vars(PodCreated) /\ WF_vars(PodReady)
    /\ WF_vars(DeploymentReady) /\ WF_vars(PodDeleted)
    /\ WF_vars(HandlePodEvent) /\ WF_vars(HandleDeploymentEvent)

FairSpec == Spec /\ Fairness

-----------------------------------------------------------------------------
(* Every variable stays in its domain, whenever the test dies.             *)
TypeOK ==
    /\ pc \in {"down", "clean", "load", "newfile", "empty", "read", "next", "update",
               "nodes", "create", "record", "sleep", "statistic", "save", "write",
               "done", "stuck"}
    /\ round \in Round /\ created \in 0 .. round[2]
    /\ res \in SUBSET Round /\ file \in SUBSET Round /\ saved \in SUBSET Round
    /\ dir \in BOOLEAN /\ exists \in BOOLEAN /\ torn \in BOOLEAN
    /\ deploymentTimes \in [create : SUBSET Dep, ready : SUBSET Dep]
    /\ podTimes \in [create : SUBSET Pod, ready : SUBSET Pod]
    /\ base \in [replicas : Nat, ready : Nat]
    /\ deps \in [Dep -> {"none", "new", "starting", "ready"}]
    /\ pods \in SUBSET Pod
    /\ events \in [dep : Seq(Dep),
                   pod : Seq([pod : Pod, kind : {"create", "ready"}])]
    /\ gen \in Nat
    /\ left \in Budget

(* A result that was saved is never lost, through deaths, restarts and     *)
(* later rounds, except by a death inside of os.WriteFile: a file that     *)
(* parses holds every round ever saved, and a new one is made only if none *)
(* was ever saved.                                    *)
SavedRoundsKept == ~torn => saved \subseteq file

(* A round whose result is saved is never measured again.                  *)
SavedRoundsNotRepeated == pc \in {"update", "create"} => round \notin saved

(* Every measured round had all its deployments ready in this round: one   *)
(* that was ready in the round before, under the same name, does not count.*)
(* Needs sleeps that outlast the lag of the informers.                     *)
RoundsComplete ==
    pc = "statistic" /\ ~left.late => \A d \in 1 .. round[2] : deps[d] = "ready"

(* The pods that are measured are those of this round, and all of them, if *)
(* sleeps outlast the lag of the informers.                                *)
OwnPodsMeasured ==
    pc = "statistic" /\ ~left.late =>
        Valid(podTimes) = {<<d, gen>> : d \in 1 .. round[2]}

(* From its begin to its result, a round has no result.                    *)
Running == pc \in {"update", "nodes", "create", "record", "sleep", "statistic"}

(* What the results in memory are, apart from the file: every round ever   *)
(* saved, once the file is loaded, and not the round under way.            *)
ResultsKept ==
    /\ SavedRoundsKept
    /\ Running \/ pc \in {"next", "save", "write"} \/ (pc = "clean" /\ res # {}) =>
            exists /\ saved \subseteq res
    /\ ~exists \/ pc \in {"newfile", "empty"} => saved = {}
    /\ pc \in {"save", "write"} => round \in res
    /\ Running => round \notin res

(* A round begins in a clean cluster: nothing left, nothing to deliver.    *)
Begins == {"load", "newfile", "empty", "read", "next"}
CleanStart ==
    pc \in Begins =>
        pods = {} /\ events = NoEvents /\ \A d \in Dep : deps[d] = "none"

Made == 1 .. (IF pc = "record" THEN created + 1 ELSE created)
Installed == {<<d, gen>> : d \in {e \in Dep : deps[e] \in {"starting", "ready"}}}

(* The pods of the events of one kind in a queue.                          *)
PodsOf(q, kind) == {q[i].pod : i \in {j \in 1 .. Len(q) : q[j].kind = kind}}

(* While a round runs there is nothing in the cluster, in the maps and in  *)
(* the events but what the round has created, and the maps and the events  *)
(* together have all the times of its pods.                                *)
OwnRound ==
    Running =>
        /\ \A d \in Dep : deps[d] # "none" <=> d \in Made
        /\ pods \subseteq {<<d, gen>> : d \in Made}
        /\ Installed \subseteq pods
        /\ \A d \in deploymentTimes.ready : deps[d] = "ready"
        /\ \A i \in 1 .. Len(events.dep) : deps[events.dep[i]] = "ready"
        /\ podTimes.create \cup PodsOf(events.pod, "create") = pods
        /\ podTimes.ready \cup PodsOf(events.pod, "ready") = Installed

(* What the waits of main have waited for.                                 *)
WaitedFor ==
    /\ pc = "record" => created < round[2]
    /\ pc \in {"sleep", "statistic"} /\ ~left.late =>
            /\ created = round[2]
            /\ \A d \in 1 .. round[2] : deps[d] = "ready"
    /\ pc = "statistic" /\ ~left.late => events.pod = <<>>

(* The inductive invariant behind the four properties above.               *)
RoundInv ==
    /\ TypeOK
    /\ ResultsKept
    /\ WaitedFor
    /\ ~left.late => CleanStart /\ OwnRound

(* All rounds are measured in the end, however often the test dies and     *)
(* vnodes are lost: no wait of main is for something that does not come.   *)
(* What can prevent it is a death that leaves the file empty (between      *)
(* os.Create and os.WriteFile) or cut off (inside of os.WriteFile), no     *)
(* directory for the file, a base deployment that cannot be read, and a    *)
(* deployment of the last round that is still to be recorded as ready when *)
(* a sleep ends, since the wait is for an exact number of them.            *)
AllRoundsMeasured ==
    left.unread = 0 /\ ~left.late /\ dir /\ [](pc = "down" => ~torn)
        => <>(pc = "done")
=============================================================================
