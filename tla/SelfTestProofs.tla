----------------------------- MODULE SelfTestProofs ---------------------------
(* Proofs about the self test, for all lists of numbers of bases and of    *)
(* modules and every bound.                                                *)
EXTENDS SelfTest, FiniteSetTheorems, TLAPS

-----------------------------------------------------------------------------
(* Numbers and events.                                                     *)

PodEvent == [pod : Pod, kind : {"create", "ready"}]
EventQueues == [dep : Seq(Dep), pod : Seq(PodEvent)]
Off == {"down", "done", "stuck"}

(* A round has numbers, and a deployment for each of its modules.          *)
LEMMA RoundType ==
    ASSUME TypeOK
    PROVE  /\ round[1] \in Nat /\ round[2] \in Nat /\ created \in Nat
           /\ 1 .. round[2] \subseteq Dep
           /\ created <= round[2]
<1>1. round[1] \in BaseNumList /\ round[2] \in ModuleNumList
  BY DEF TypeOK, Round
<1>2. 1 .. round[2] \subseteq Dep
  BY <1>1 DEF Dep
<1>3. round[1] \in Nat /\ round[2] \in Nat
  BY <1>1, NumberAssumption
<1>4. created \in 0 .. round[2]
  BY DEF TypeOK
<1>5. QED
  BY <1>2, <1>3, <1>4

(* An informer passes an event on, or the test does not run.               *)
LEMMA EmitPod ==
    ASSUME TypeOK, NEW e \in PodEvent, Emit("pod", e)
    PROVE  /\ events' \in EventQueues /\ events'.dep = events.dep
           /\ pc \in Off => events' = events
           /\ pc \notin Off => events'.pod = Append(events.pod, e)
<1>1. events \in EventQueues
  BY DEF TypeOK, EventQueues, PodEvent
<1>2. CASE pc \in Off
  BY <1>1, <1>2 DEF Emit, Off
<1>3. CASE pc \notin Off
  <2>1. events' = [events EXCEPT !["pod"] = Append(events.pod, e)]
    BY <1>3 DEF Emit, Off
  <2>2. events'.pod = Append(events.pod, e) /\ events'.dep = events.dep
    BY <1>1, <2>1 DEF EventQueues
  <2>3. Append(events.pod, e) \in Seq(PodEvent)
    BY <1>1 DEF EventQueues
  <2>4. QED
    BY <1>1, <1>3, <2>1, <2>2, <2>3 DEF EventQueues
<1>4. QED
  BY <1>2, <1>3

LEMMA EmitDep ==
    ASSUME TypeOK, NEW d \in Dep, Emit("dep", d)
    PROVE  /\ events' \in EventQueues /\ events'.pod = events.pod
           /\ \A i \in 1 .. Len(events'.dep) :
                \/ i \in 1 .. Len(events.dep) /\ events'.dep[i] = events.dep[i]
                \/ events'.dep[i] = d
           /\ pc \in Off => events' = events
<1>1. events \in EventQueues /\ events.dep \in Seq(Dep)
  BY DEF TypeOK, EventQueues, PodEvent
<1>2. CASE pc \in Off
  BY <1>1, <1>2 DEF Emit, Off
<1>3. CASE pc \notin Off
  <2>1. events' = [events EXCEPT !["dep"] = Append(events.dep, d)]
    BY <1>3 DEF Emit, Off
  <2>2. events'.dep = Append(events.dep, d) /\ events'.pod = events.pod
    BY <1>1, <2>1 DEF EventQueues
  <2>3. Append(events.dep, d) \in Seq(Dep)
    BY <1>1
  <2>4. \A i \in 1 .. Len(Append(events.dep, d)) :
            \/ i \in 1 .. Len(events.dep) /\ Append(events.dep, d)[i] = events.dep[i]
            \/ Append(events.dep, d)[i] = d
    BY <1>1
  <2>5. QED
    BY <1>1, <1>3, <2>1, <2>2, <2>3, <2>4 DEF EventQueues
<1>4. QED
  BY <1>2, <1>3

(* The pods an event adds to a queue, or takes from it.                    *)
LEMMA PodsOfAppend ==
    ASSUME NEW q \in Seq(PodEvent), NEW e \in PodEvent, NEW kind
    PROVE  PodsOf(Append(q, e), kind) =
                PodsOf(q, kind) \cup (IF e.kind = kind THEN {e.pod} ELSE {})
<1>1. /\ Len(q) \in Nat /\ Len(Append(q, e)) = Len(q) + 1
      /\ \A i \in 1 .. Len(q) : Append(q, e)[i] = q[i]
      /\ Append(q, e)[Len(q) + 1] = e
  OBVIOUS
<1>2. 1 .. Len(q) + 1 = (1 .. Len(q)) \cup {Len(q) + 1}
  BY <1>1
<1>3. QED
  BY <1>1, <1>2 DEF PodsOf

LEMMA PodsOfTail ==
    ASSUME NEW q \in Seq(PodEvent), q # <<>>, NEW kind
    PROVE  PodsOf(q, kind) =
                PodsOf(Tail(q), kind) \cup (IF Head(q).kind = kind THEN {Head(q).pod} ELSE {})
<1>1. /\ Len(q) \in Nat \ {0} /\ Len(Tail(q)) = Len(q) - 1 /\ Head(q) = q[1]
      /\ \A i \in 1 .. Len(q) - 1 : Tail(q)[i] = q[i + 1]
  OBVIOUS
<1>2. ASSUME NEW p \in PodsOf(q, kind)
      PROVE  p \in PodsOf(Tail(q), kind) \/ (Head(q).kind = kind /\ p = Head(q).pod)
  <2>1. PICK i \in 1 .. Len(q) : q[i].kind = kind /\ p = q[i].pod
    BY DEF PodsOf
  <2>2. CASE i = 1
    BY <1>1, <2>1, <2>2
  <2>3. CASE i # 1
    <3>1. i - 1 \in 1 .. Len(Tail(q)) /\ Tail(q)[i - 1] = q[i]
      BY <1>1, <2>1, <2>3
    <3>2. QED
      BY <2>1, <3>1 DEF PodsOf
  <2>4. QED
    BY <2>2, <2>3
<1>3. ASSUME NEW p \in PodsOf(Tail(q), kind)
      PROVE  p \in PodsOf(q, kind)
  <2>1. PICK i \in 1 .. Len(Tail(q)) : Tail(q)[i].kind = kind /\ p = Tail(q)[i].pod
    BY DEF PodsOf
  <2>2. i + 1 \in 1 .. Len(q) /\ Tail(q)[i] = q[i + 1]
    BY <1>1, <2>1
  <2>3. QED
    BY <2>1, <2>2 DEF PodsOf
<1>4. Head(q).kind = kind => Head(q).pod \in PodsOf(q, kind)
  BY <1>1 DEF PodsOf
<1>5. QED
  BY <1>2, <1>3, <1>4

LEMMA PodsOfNone == \A kind : PodsOf(<<>>, kind) = {}
BY DEF PodsOf

-----------------------------------------------------------------------------
(* Type correctness.                                                       *)

LEMMA TypeInit == Init => TypeOK
<1> SUFFICES ASSUME Init PROVE TypeOK
  OBVIOUS
<1>1. created \in 0 .. round[2]
  <2>1. round[2] \in ModuleNumList
    BY DEF Init, Round
  <2>2. round[2] \in Nat
    BY <2>1, NumberAssumption
  <2>3. QED
    BY <2>2 DEF Init
<1>2. NoEvents \in EventQueues
  BY DEF NoEvents, EventQueues
<1>3. Empty \in [create : SUBSET Dep, ready : SUBSET Dep]
  BY DEF Empty
<1>4. Empty \in [create : SUBSET Pod, ready : SUBSET Pod]
  BY DEF Empty
<1>5. base \in [replicas : Nat, ready : Nat]
  BY DEF Init
<1>6. QED
  BY <1>1, <1>2, <1>3, <1>4, <1>5, BudgetAssumption DEF Init, TypeOK, EventQueues, PodEvent

(* Spending from a bound leaves a bound, and leaves the lag as it was.     *)
LEMMA BudgetType ==
    ASSUME NEW b \in Budget
    PROVE  /\ b.dies > 0 => /\ [b EXCEPT !.dies = @ - 1] \in Budget
                            /\ [b EXCEPT !.dies = @ - 1].late = b.late
           /\ b.lost > 0 => /\ [b EXCEPT !.lost = @ - 1] \in Budget
                            /\ [b EXCEPT !.lost = @ - 1].late = b.late
           /\ b.unread > 0 => /\ [b EXCEPT !.unread = @ - 1] \in Budget
                              /\ [b EXCEPT !.unread = @ - 1].late = b.late
           /\ b.updates > 0 => /\ [b EXCEPT !.updates = @ - 1] \in Budget
                               /\ [b EXCEPT !.updates = @ - 1].late = b.late
BY DEF Budget

LEMMA MainType ==
    ASSUME TypeOK, WaitedFor, Main
    PROVE  TypeOK'
<1> USE DEF memory, times, disk, cluster, Goto
<1>0. NoEvents \in EventQueues
  BY DEF NoEvents, EventQueues
<1>1. CASE DeleteDeployment
  BY <1>1 DEF DeleteDeployment, TypeOK
<1>2. CASE PodsGone
  BY <1>2 DEF PodsGone, TypeOK
<1>3. CASE Stat \/ CreateFile \/ WriteEmpty \/ Load
  BY <1>3 DEF Stat, CreateFile, WriteEmpty, Load, TypeOK
<1>4. CASE Truncate
  BY <1>4 DEF Truncate, TypeOK
<1>5. CASE Write
  BY <1>5 DEF Write, TypeOK
<1>6. CASE AllMeasured
  BY <1>6 DEF AllMeasured, TypeOK
<1>7. CASE BeginRound
  <2>1. round' \in Round /\ created' = 0 /\ gen' \in Nat
    BY <1>7 DEF BeginRound, TypeOK
  <2>2. created' \in 0 .. round'[2]
    <3>1. round'[2] \in ModuleNumList
      BY <2>1 DEF Round
    <3>2. round'[2] \in Nat
      BY <3>1, NumberAssumption
    <3>3. QED
      BY <2>1, <3>2
  <2>3. QED
    BY <1>7, <2>1, <2>2 DEF BeginRound, TypeOK, Empty
<1>8. CASE UpdateReplicas
  <2>1. left' \in Budget
    BY <1>8, BudgetType DEF UpdateReplicas, TypeOK
  <2>2. base' \in [replicas : Nat, ready : Nat]
    BY <1>8, RoundType DEF UpdateReplicas, TypeOK
  <2>3. QED
    BY <1>8, <2>1, <2>2 DEF UpdateReplicas, TypeOK
<1>9. CASE NodesReady
  BY <1>9 DEF NodesReady, TypeOK
<1>10. CASE CreateDeployment
  BY <1>10 DEF CreateDeployment, TypeOK
<1>11. CASE RecordCreate
  <2>1. created + 1 \in 1 .. round[2]
    BY <1>11, RoundType DEF RecordCreate, WaitedFor
  <2>2. created' \in 0 .. round[2] /\ created + 1 \in Dep
    BY <1>11, <2>1, RoundType DEF RecordCreate
  <2>3. deploymentTimes' \in [create : SUBSET Dep, ready : SUBSET Dep]
    BY <1>11, <2>2 DEF RecordCreate, TypeOK
  <2>4. QED
    BY <1>11, <2>2, <2>3 DEF RecordCreate, TypeOK
<1>12. CASE AllReady
  BY <1>12 DEF AllReady, TypeOK
<1>13. CASE SleepEnds
  BY <1>13 DEF SleepEnds, TypeOK
<1>14. CASE Statistic
  <2>1. left' \in Budget
    BY <1>14, BudgetType DEF Statistic, TypeOK
  <2>2. res' \in SUBSET Round /\ events' \in EventQueues
    BY <1>0, <1>14 DEF Statistic, TypeOK, EventQueues, PodEvent
  <2>3. QED
    BY <1>14, <2>1, <2>2 DEF Statistic, TypeOK, EventQueues, PodEvent
<1>15. QED
  BY <1>1, <1>2, <1>3, <1>4, <1>5, <1>6, <1>7, <1>8, <1>9, <1>10, <1>11, <1>12, <1>13,
     <1>14 DEF Main

LEMMA ClusterType ==
    ASSUME TypeOK, Cluster
    PROVE  TypeOK'
<1> USE DEF memory, times, disk, cluster
<1>1. CASE NodesFollow
  BY <1>1 DEF NodesFollow, TypeOK
<1>2. CASE NodeLost
  <2>1. left' \in Budget
    BY <1>2, BudgetType DEF NodeLost, TypeOK
  <2>2. base' \in [replicas : Nat, ready : Nat]
    BY <1>2 DEF NodeLost, TypeOK
  <2>3. QED
    BY <1>2, <2>1, <2>2 DEF NodeLost, TypeOK
<1>3. CASE PodCreated
  <2>1. PICK d \in Dep : /\ pods' = pods \cup {<<d, gen>>}
                         /\ Emit("pod", [pod |-> <<d, gen>>, kind |-> "create"])
    BY <1>3 DEF PodCreated
  <2>2. <<d, gen>> \in Pod /\ [pod |-> <<d, gen>>, kind |-> "create"] \in PodEvent
    BY DEF TypeOK, Pod, PodEvent
  <2>3. events' \in EventQueues
    BY <2>1, <2>2, EmitPod
  <2>4. QED
    BY <1>3, <2>1, <2>2, <2>3 DEF PodCreated, TypeOK, EventQueues, PodEvent
<1>4. CASE PodReady
  <2>1. PICK p \in pods : /\ deps' = [deps EXCEPT ![p[1]] = "starting"]
                          /\ Emit("pod", [pod |-> p, kind |-> "ready"])
    BY <1>4 DEF PodReady
  <2>2. [pod |-> p, kind |-> "ready"] \in PodEvent
    BY DEF TypeOK, PodEvent
  <2>3. events' \in EventQueues
    BY <2>1, <2>2, EmitPod
  <2>4. QED
    BY <1>4, <2>1, <2>3 DEF PodReady, TypeOK, EventQueues, PodEvent
<1>5. CASE DeploymentReady
  <2>1. PICK d \in Dep : deps' = [deps EXCEPT ![d] = "ready"] /\ Emit("dep", d)
    BY <1>5 DEF DeploymentReady
  <2>2. QED
    BY <1>5, <2>1, EmitDep DEF DeploymentReady, TypeOK, EventQueues, PodEvent
<1>6. CASE DeploymentUpdated
  <2>1. PICK d \in Dep : Emit("dep", d)
    BY <1>6 DEF DeploymentUpdated
  <2>2. left' \in Budget
    BY <1>6, BudgetType DEF DeploymentUpdated, TypeOK
  <2>3. QED
    BY <1>6, <2>1, <2>2, EmitDep DEF DeploymentUpdated, TypeOK, EventQueues, PodEvent
<1>7. CASE PodDeleted
  BY <1>7 DEF PodDeleted, TypeOK
<1>8. QED
  BY <1>1, <1>2, <1>3, <1>4, <1>5, <1>6, <1>7 DEF Cluster

(* The handlers of the informers.                                          *)
LEMMA HandlerType ==
    ASSUME TypeOK, HandlePodEvent \/ HandleDeploymentEvent
    PROVE  TypeOK'
<1> USE DEF memory, times, disk, cluster
<1>1. events \in EventQueues /\ events.dep \in Seq(Dep) /\ events.pod \in Seq(PodEvent)
  BY DEF TypeOK, EventQueues, PodEvent
<1>2. CASE HandlePodEvent
  <2>1. Head(events.pod) \in PodEvent /\ Tail(events.pod) \in Seq(PodEvent)
    BY <1>1, <1>2 DEF HandlePodEvent
  <2>2. PICK e \in PodEvent : e = Head(events.pod)
    BY <2>1
  <2>3. podTimes' = [podTimes EXCEPT ![e.kind] = @ \cup {e.pod}]
    BY <1>2, <2>2 DEF HandlePodEvent
  <2>4. podTimes' \in [create : SUBSET Pod, ready : SUBSET Pod]
    BY <2>3 DEF TypeOK, PodEvent
  <2>5. events' \in EventQueues
    BY <1>1, <1>2, <2>1 DEF HandlePodEvent, EventQueues
  <2>6. QED
    BY <1>2, <2>4, <2>5 DEF HandlePodEvent, TypeOK, EventQueues, PodEvent
<1>3. CASE HandleDeploymentEvent
  <2>1. Head(events.dep) \in Dep /\ Tail(events.dep) \in Seq(Dep)
    BY <1>1, <1>3 DEF HandleDeploymentEvent
  <2>2. events' \in EventQueues
    BY <1>1, <1>3, <2>1 DEF HandleDeploymentEvent, EventQueues
  <2>3. deploymentTimes' \in [create : SUBSET Dep, ready : SUBSET Dep]
    BY <1>3, <2>1 DEF HandleDeploymentEvent, TypeOK
  <2>4. QED
    BY <1>3, <2>2, <2>3 DEF HandleDeploymentEvent, TypeOK, EventQueues, PodEvent
<1>4. QED
  BY <1>2, <1>3

LEMMA TypeNext ==
    ASSUME TypeOK, WaitedFor, [Next]_vars
    PROVE  TypeOK'
<1>1. CASE Start
  BY <1>1 DEF Start, TypeOK, Goto, Empty, disk, cluster
<1>2. CASE Die
  <2>1. left' \in Budget
    BY <1>2, BudgetType DEF Die, TypeOK
  <2>2. events' \in EventQueues
    BY <1>2 DEF Die, NoEvents, EventQueues
  <2>3. QED
    BY <1>2, <2>1, <2>2 DEF Die, TypeOK, EventQueues, PodEvent, memory, times, disk, cluster
<1>3. CASE UNCHANGED vars
  BY <1>3 DEF vars, memory, times, disk, cluster, TypeOK
<1>4. QED
  BY <1>1, <1>2, <1>3, MainType, ClusterType, HandlerType DEF Next

-----------------------------------------------------------------------------
(* Results.                                                                *)

LEMMA ResultsInit == Init => ResultsKept
BY DEF Init, ResultsKept, SavedRoundsKept, Running

LEMMA ResultsNext ==
    ASSUME TypeOK, ResultsKept, [Next]_vars
    PROVE  ResultsKept'
<1> USE DEF memory, times, disk, cluster, Goto
<1> DEFINE Kept == UNCHANGED <<res, exists, file, torn, saved>>
<1>1. CASE Start \/ Die
  BY <1>1 DEF Start, Die, ResultsKept, SavedRoundsKept, Running
<1>2. CASE PodsGone \/ Load \/ AllMeasured
  BY <1>2 DEF PodsGone, Load, Readable, AllMeasured, ResultsKept, SavedRoundsKept, Running
<1>3. CASE Truncate \/ Write
  BY <1>3 DEF Truncate, Write, ResultsKept, SavedRoundsKept, Running
<1>4. CASE BeginRound
  BY <1>4 DEF BeginRound, ResultsKept, SavedRoundsKept, Running
<1>5. CASE Statistic
  BY <1>5 DEF Statistic, ResultsKept, SavedRoundsKept, Running
<1>6. CASE UpdateReplicas \/ NodesReady \/ CreateDeployment \/ RecordCreate \/ AllReady
           \/ SleepEnds
  <2>1. Running /\ Running' /\ UNCHANGED <<round, res, exists, file, torn, saved>>
    BY <1>6 DEF UpdateReplicas, NodesReady, CreateDeployment, RecordCreate, AllReady,
                SleepEnds, Running
  <2>2. QED
    BY <2>1 DEF ResultsKept, SavedRoundsKept, Running
<1>7. CASE DeleteDeployment \/ Cluster \/ HandlePodEvent \/ HandleDeploymentEvent
           \/ UNCHANGED vars
  <2>1. UNCHANGED <<pc, round, res, exists, file, torn, saved>>
    BY <1>7 DEF DeleteDeployment, Cluster, NodesFollow, PodCreated, PodReady, NodeLost,
                DeploymentReady, DeploymentUpdated, PodDeleted, HandlePodEvent,
                HandleDeploymentEvent, vars
  <2>2. QED
    BY <2>1 DEF ResultsKept, SavedRoundsKept, Running
<1>8. CASE Stat \/ CreateFile \/ WriteEmpty
  BY <1>8 DEF Stat, CreateFile, WriteEmpty, ResultsKept, SavedRoundsKept, Running
<1>9. QED
  BY <1>1, <1>2, <1>3, <1>4, <1>5, <1>6, <1>7, <1>8 DEF Next, Main

-----------------------------------------------------------------------------
(* The rounds.                                                             *)

(* The lag of the informers is what it was.                                *)
LEMMA LagStays ==
    ASSUME TypeOK, [Next]_vars
    PROVE  left'.late = left.late
<1>1. left \in Budget
  BY DEF TypeOK
<1>2. CASE UNCHANGED left
  BY <1>2
<1>3. CASE Statistic \/ Die \/ UpdateReplicas \/ NodeLost \/ DeploymentUpdated
  BY <1>1, <1>3, BudgetType DEF Statistic, Die, UpdateReplicas, NodeLost, DeploymentUpdated
<1>4. QED
  BY <1>2, <1>3
     DEF Next, Main, Cluster, Start, DeleteDeployment, PodsGone, Stat, CreateFile,
         WriteEmpty, Load, Truncate, Write, AllMeasured, BeginRound, NodesReady,
         CreateDeployment, RecordCreate, AllReady, SleepEnds, NodesFollow, PodCreated,
         PodReady, DeploymentReady, PodDeleted, HandlePodEvent, HandleDeploymentEvent, vars

LEMMA CleanInit == Init => CleanStart /\ OwnRound /\ WaitedFor
BY DEF Init, CleanStart, OwnRound, WaitedFor, Running

(* Nothing happens in a clean cluster.                                     *)
LEMMA CleanNext ==
    ASSUME TypeOK, ~left.late, CleanStart, [Next]_vars
    PROVE  CleanStart'
<1> USE DEF memory, times, disk, cluster, Goto
<1>1. CASE PodsGone
  BY <1>1 DEF PodsGone, CleanStart, Begins, Sleeps
<1>2. CASE pc \in Begins /\ Cluster
  <2>1. pods = {} /\ \A d \in Dep : deps[d] = "none"
    BY <1>2 DEF CleanStart
  <2>2. UNCHANGED <<pods, deps, events, pc>>
    BY <1>2, <2>1 DEF Cluster, NodesFollow, NodeLost, PodCreated, PodReady, DeploymentReady,
                      DeploymentUpdated, PodDeleted
  <2>3. QED
    BY <2>2 DEF CleanStart
<1>3. CASE pc \in Begins /\ (HandlePodEvent \/ HandleDeploymentEvent)
  BY <1>3 DEF CleanStart, HandlePodEvent, HandleDeploymentEvent, NoEvents
<1>4. CASE pc \notin Begins /\ ~PodsGone
  <2>1. pc' \notin Begins
    BY <1>4 DEF Begins, Next, Main, Cluster, Start, DeleteDeployment, Stat, CreateFile,
         WriteEmpty, Load, Truncate, Write, AllMeasured, BeginRound, UpdateReplicas,
         NodesReady, CreateDeployment, RecordCreate, AllReady, SleepEnds, Statistic, Die,
         NodesFollow, NodeLost, PodCreated, PodReady, DeploymentReady, DeploymentUpdated,
         PodDeleted, HandlePodEvent, HandleDeploymentEvent, vars
  <2>2. QED
    BY <2>1 DEF CleanStart
<1>5. CASE Stat \/ CreateFile \/ WriteEmpty \/ Load
  BY <1>5 DEF Stat, CreateFile, WriteEmpty, Load, CleanStart, Begins
<1>6. CASE UNCHANGED vars
  BY <1>6 DEF vars, CleanStart
<1>7. CASE AllMeasured \/ BeginRound \/ Die
  BY <1>7 DEF AllMeasured, BeginRound, Die, CleanStart, Begins
<1>8. QED
  BY <1>1, <1>2, <1>3, <1>4, <1>5, <1>6, <1>7
     DEF Begins, Next, Main, Start, DeleteDeployment, Truncate, Write, UpdateReplicas, NodesReady,
         CreateDeployment, RecordCreate, AllReady, SleepEnds, Statistic

(* Deployments of the round are those that are made.                       *)
LEMMA MadeFacts ==
    ASSUME TypeOK, WaitedFor, OwnRound, Running
    PROVE  /\ Made \subseteq Dep
           /\ pc # "record" => Made = 1 .. created
           /\ pc = "record" => Made = 1 .. created + 1
           /\ \A p \in pods : p = <<p[1], gen>> /\ p[1] \in Made
<1>1. Made \subseteq 1 .. round[2]
  BY RoundType DEF Made, WaitedFor
<1>2. ASSUME NEW p \in pods PROVE p = <<p[1], gen>> /\ p[1] \in Made
  <2>1. PICK d \in Made : p = <<d, gen>>
    BY <1>2 DEF OwnRound
  <2>2. QED
    BY <2>1
<1>3. QED
  BY <1>1, <1>2, RoundType DEF Made

(* Deployments that are ready stay ready while a round runs.               *)
LEMMA WaitedNext ==
    ASSUME TypeOK, TypeOK', WaitedFor, ~left.late => OwnRound, [Next]_vars
    PROVE  WaitedFor'
<1> USE DEF memory, times, disk, cluster, Goto
<1>0. left'.late = left.late
  BY LagStays
<1>1. pc' = "record" => created' < round'[2]
  BY RoundType DEF WaitedFor, Next, Main, Cluster, Start, DeleteDeployment, PodsGone, Stat,
       CreateFile, WriteEmpty, Load, Truncate, Write, AllMeasured, BeginRound,
       UpdateReplicas, NodesReady, CreateDeployment, RecordCreate, AllReady, SleepEnds,
       Statistic, Die, NodesFollow, NodeLost, PodCreated, PodReady, DeploymentReady,
       DeploymentUpdated, PodDeleted, HandlePodEvent, HandleDeploymentEvent, vars
<1>2. CASE left.late
  BY <1>0, <1>1, <1>2 DEF WaitedFor
<1>3. CASE ~left.late /\ pc' \notin {"sleep", "statistic"}
  BY <1>1, <1>3 DEF WaitedFor
<1>4. CASE ~left.late /\ AllReady
  <2>1. /\ pc = "create" /\ created = round[2] /\ Running
        /\ Cardinality(deploymentTimes.ready) = round[2]
    BY <1>4 DEF AllReady, Running
  <2>2. Made = 1 .. round[2] /\ round[2] \in Nat
    BY <1>4, <2>1, MadeFacts, RoundType
  <2>3. deploymentTimes.ready \subseteq 1 .. round[2]
    BY <1>4, <2>1, <2>2 DEF OwnRound, TypeOK
  <2>4. IsFiniteSet(1 .. round[2]) /\ Cardinality(1 .. round[2]) = round[2]
    BY <2>2, FS_Interval
  <2>5. deploymentTimes.ready = 1 .. round[2]
    BY <2>1, <2>3, <2>4, FS_Subset
  <2>6. \A d \in 1 .. round[2] : deps[d] = "ready"
    BY <1>4, <2>1, <2>5 DEF OwnRound
  <2>7. QED
    BY <1>1, <1>4, <2>1, <2>6 DEF AllReady, WaitedFor
<1>5. CASE ~left.late /\ SleepEnds
  BY <1>0, <1>1, <1>5 DEF SleepEnds, Sleeps, NoEvents, WaitedFor
<1>6. CASE ~left.late /\ pc \in {"sleep", "statistic"} /\ pc' = pc
  <2>1. Running /\ OwnRound /\ created = round[2]
        /\ \A d \in 1 .. round[2] : deps[d] = "ready"
    BY <1>6 DEF Running, WaitedFor
  <2>2. Made = 1 .. round[2] /\ Made \subseteq Dep /\ \A p \in pods : p[1] \in Made
    BY <1>6, <2>1, MadeFacts
  <2>3. \A d \in Dep : deps[d] \in {"none", "ready"}
    BY <2>1, <2>2 DEF OwnRound
  <2>4. UNCHANGED <<round, created>>
    BY <1>6 DEF Next, Main, Cluster, Start, DeleteDeployment, PodsGone, Stat, CreateFile,
         WriteEmpty, Load, Truncate, Write, AllMeasured, BeginRound, UpdateReplicas,
         NodesReady, CreateDeployment, RecordCreate, AllReady, SleepEnds, Statistic, Die,
         NodesFollow, NodeLost, PodCreated, PodReady, DeploymentReady, DeploymentUpdated,
         PodDeleted, HandlePodEvent, HandleDeploymentEvent, vars
  <2>5. \/ UNCHANGED <<deps, events>>
        \/ UNCHANGED deps /\ (HandlePodEvent \/ HandleDeploymentEvent)
        \/ UNCHANGED deps /\ DeploymentUpdated
    <3>1. ~PodCreated /\ ~PodReady /\ ~DeploymentReady
      BY <2>1, <2>2, <2>3 DEF PodCreated, PodReady, DeploymentReady
    <3>2. QED
      BY <1>6, <3>1
         DEF Next, Main, Cluster, Start, DeleteDeployment, PodsGone, Stat, CreateFile,
         WriteEmpty, Load, Truncate, Write, AllMeasured, BeginRound, UpdateReplicas,
         NodesReady, CreateDeployment, RecordCreate, AllReady, SleepEnds, Statistic, Die,
         NodesFollow, NodeLost, DeploymentUpdated, PodDeleted, HandlePodEvent,
         HandleDeploymentEvent, vars
  <2>6. events.pod = <<>> => events'.pod = <<>>
    <3>1. CASE HandlePodEvent \/ HandleDeploymentEvent
      BY <3>1 DEF HandlePodEvent, HandleDeploymentEvent, TypeOK
    <3>2. CASE DeploymentUpdated
      BY <3>2, EmitDep DEF DeploymentUpdated
    <3>3. QED
      BY <2>5, <3>1, <3>2
  <2>7. QED
    BY <1>0, <1>1, <1>6, <2>1, <2>4, <2>5, <2>6 DEF WaitedFor
<1>7. QED
  BY <1>2, <1>3, <1>4, <1>5, <1>6
     DEF Next, Main, Cluster, Start, DeleteDeployment, PodsGone, Stat, CreateFile,
         WriteEmpty, Load, Truncate, Write, AllMeasured, BeginRound, UpdateReplicas,
         NodesReady, CreateDeployment, RecordCreate, AllReady, SleepEnds, Statistic, Die,
         NodesFollow, NodeLost, PodCreated, PodReady, DeploymentReady, DeploymentUpdated,
         PodDeleted, HandlePodEvent, HandleDeploymentEvent, vars

(* Steps of main that neither create nor forget anything.                  *)
LEMMA OwnRoundMain ==
    ASSUME TypeOK, OwnRound,
           UpdateReplicas \/ NodesReady \/ AllReady \/ SleepEnds \/ RecordCreate
    PROVE  OwnRound'
<1> USE DEF memory, times, disk, cluster, Goto
<1>1. Running /\ UNCHANGED <<deps, pods, podTimes, events, gen>>
  BY DEF UpdateReplicas, NodesReady, AllReady, SleepEnds, RecordCreate, Running
<1>2. Made' = Made
  BY DEF Made, UpdateReplicas, NodesReady, AllReady, SleepEnds, RecordCreate
<1>3. deploymentTimes'.ready = deploymentTimes.ready
  BY DEF UpdateReplicas, NodesReady, AllReady, SleepEnds, RecordCreate, TypeOK
<1>4. QED
  BY <1>1, <1>2, <1>3 DEF OwnRound, Installed

LEMMA OwnRoundCreate ==
    ASSUME TypeOK, OwnRound, CreateDeployment
    PROVE  OwnRound'
<1> DEFINE c == created + 1
<1>1. /\ Running /\ pc = "create" /\ pc' = "record" /\ created < round[2]
      /\ deps' = [deps EXCEPT ![c] = "new"]
      /\ UNCHANGED <<round, created, deploymentTimes, podTimes, pods, events, gen>>
  BY DEF CreateDeployment, Running, Goto, memory, times
<1>2. c \in Dep /\ c \notin 1 .. created /\ 1 .. c = (1 .. created) \cup {c}
  BY <1>1, RoundType
<1>3. Made = 1 .. created /\ Made' = 1 .. c
  BY <1>1 DEF Made
<1>4. deps[c] = "none"
  BY <1>1, <1>2, <1>3 DEF OwnRound
<1>5. \A d \in Dep : deps'[d] = IF d = c THEN "new" ELSE deps[d]
  BY <1>1, <1>2 DEF TypeOK
<1>6. Installed' = Installed
  BY <1>1, <1>4, <1>5 DEF Installed
<1>7. /\ deploymentTimes.ready \subseteq Dep
      /\ \A i \in 1 .. Len(events.dep) : events.dep[i] \in Dep
  BY DEF TypeOK
<1>8. /\ \A d \in deploymentTimes.ready : deps'[d] = "ready"
      /\ \A i \in 1 .. Len(events.dep) : deps'[events.dep[i]] = "ready"
  BY <1>1, <1>4, <1>5, <1>7 DEF OwnRound
<1>9. \A d \in Dep : deps'[d] # "none" <=> d \in Made'
  BY <1>1, <1>2, <1>3, <1>5 DEF OwnRound
<1>10. pods' \subseteq {<<d, gen'>> : d \in Made'}
  BY <1>1, <1>2, <1>3 DEF OwnRound
<1>11. QED
  BY <1>1, <1>6, <1>8, <1>9, <1>10 DEF OwnRound

(* A round that begins has an empty cluster and empty maps.                *)
LEMMA OwnRoundBegin ==
    ASSUME TypeOK, CleanStart, BeginRound
    PROVE  OwnRound'
<1>1. /\ pc' = "update" /\ created' = 0
      /\ pods' = {} /\ \A d \in Dep : deps'[d] = "none"
      /\ events' = NoEvents
      /\ deploymentTimes'.ready = {} /\ podTimes'.ready = {} /\ podTimes'.create = {}
  BY DEF BeginRound, CleanStart, Begins, Goto, cluster, Empty
<1>2. Made' = {}
  BY <1>1 DEF Made
<1>3. Installed' = {}
  BY <1>1 DEF Installed
<1>4. events'.pod = <<>> /\ events'.dep = <<>>
  BY <1>1 DEF NoEvents
<1>5. QED
  BY <1>1, <1>2, <1>3, <1>4, PodsOfNone DEF OwnRound

(* The cluster.                                                            *)
LEMMA OwnRoundCluster ==
    ASSUME TypeOK, WaitedFor, OwnRound, Running, Cluster
    PROVE  OwnRound'
<1> USE DEF memory, times, disk, cluster
<1>1. /\ UNCHANGED <<pc, created, round, deploymentTimes, podTimes, gen>>
      /\ Running' /\ Made' = Made
  BY DEF Cluster, NodesFollow, NodeLost, PodCreated, PodReady, DeploymentReady,
         DeploymentUpdated, PodDeleted, Running, Made
<1>2. /\ Made \subseteq Dep /\ pc \notin Off
      /\ \A p \in pods : p = <<p[1], gen>> /\ p[1] \in Made
  BY MadeFacts DEF Running, Off
<1>3. /\ deploymentTimes.ready \subseteq Dep /\ events.pod \in Seq(PodEvent)
      /\ \A i \in 1 .. Len(events.dep) : events.dep[i] \in Dep
      /\ events \in EventQueues
  BY DEF TypeOK, PodEvent, EventQueues
<1>4. CASE NodesFollow \/ NodeLost
  BY <1>1, <1>4 DEF NodesFollow, NodeLost, OwnRound, Installed
<1>5. CASE PodCreated
  <2>1. PICK d \in Dep : /\ deps[d] = "new" /\ pods' = pods \cup {<<d, gen>>}
                         /\ Emit("pod", [pod |-> <<d, gen>>, kind |-> "create"])
    BY <1>5 DEF PodCreated
  <2> DEFINE e == [pod |-> <<d, gen>>, kind |-> "create"]
  <2>2. e \in PodEvent /\ e.kind = "create" /\ e.pod = <<d, gen>>
    BY DEF TypeOK, Pod, PodEvent
  <2> HIDE DEF e
  <2>3. /\ events'.pod = Append(events.pod, e) /\ events'.dep = events.dep
    BY <1>2, <2>1, <2>2, EmitPod DEF e
  <2>4. /\ PodsOf(events'.pod, "create") = PodsOf(events.pod, "create") \cup {<<d, gen>>}
        /\ PodsOf(events'.pod, "ready") = PodsOf(events.pod, "ready")
    <3>1. \A kind : PodsOf(Append(events.pod, e), kind) =
                PodsOf(events.pod, kind) \cup (IF e.kind = kind THEN {e.pod} ELSE {})
      BY <1>3, <2>2, PodsOfAppend
    <3>2. QED
      BY <2>2, <2>3, <3>1
  <2>5. UNCHANGED <<deps, Installed>>
    BY <1>5 DEF PodCreated, Installed
  <2>6. d \in Made
    BY <2>1 DEF OwnRound
  <2>7. QED
    BY <1>1, <2>1, <2>3, <2>4, <2>5, <2>6 DEF OwnRound
<1>6. CASE PodReady
  <2>1. PICK p \in pods : /\ deps[p[1]] = "new" /\ deps' = [deps EXCEPT ![p[1]] = "starting"]
                          /\ Emit("pod", [pod |-> p, kind |-> "ready"])
    BY <1>6 DEF PodReady
  <2> DEFINE e == [pod |-> p, kind |-> "ready"]
             d == p[1]
  <2>2. e \in PodEvent /\ e.kind = "ready" /\ e.pod = p
    BY DEF TypeOK, Pod, PodEvent
  <2> HIDE DEF e
  <2>3. /\ events'.pod = Append(events.pod, e) /\ events'.dep = events.dep
    BY <1>2, <2>1, <2>2, EmitPod DEF e
  <2>4. /\ PodsOf(events'.pod, "ready") = PodsOf(events.pod, "ready") \cup {p}
        /\ PodsOf(events'.pod, "create") = PodsOf(events.pod, "create")
    <3>1. \A kind : PodsOf(Append(events.pod, e), kind) =
                PodsOf(events.pod, kind) \cup (IF e.kind = kind THEN {e.pod} ELSE {})
      BY <1>3, <2>2, PodsOfAppend
    <3>2. QED
      BY <2>2, <2>3, <3>1
  <2>5. d \in Dep /\ p = <<d, gen>> /\ \A c \in Dep : deps'[c] = IF c = d THEN "starting" ELSE deps[c]
    BY <1>2, <2>1 DEF TypeOK
  <2>6. Installed' = Installed \cup {p}
    BY <1>1, <2>1, <2>5 DEF Installed
  <2>7. pods' = pods
    BY <1>6 DEF PodReady
  <2>8. /\ \A c \in deploymentTimes.ready : deps'[c] = "ready"
        /\ \A i \in 1 .. Len(events.dep) : deps'[events.dep[i]] = "ready"
    BY <1>3, <2>1, <2>5 DEF OwnRound
  <2>9. \A c \in Dep : deps'[c] # "none" <=> c \in Made
    BY <2>1, <2>5 DEF OwnRound
  <2>10. Installed' \subseteq pods
    BY <2>6 DEF OwnRound
  <2>11. /\ podTimes.create \cup PodsOf(events'.pod, "create") = pods
         /\ podTimes.ready \cup PodsOf(events'.pod, "ready") = Installed'
    BY <2>4, <2>6 DEF OwnRound
  <2>12. QED
    BY <1>1, <2>3, <2>7, <2>8, <2>9, <2>10, <2>11 DEF OwnRound
<1>7. CASE DeploymentReady
  <2>1. PICK d \in Dep : /\ deps[d] = "starting" /\ deps' = [deps EXCEPT ![d] = "ready"]
                         /\ Emit("dep", d)
    BY <1>7 DEF DeploymentReady
  <2>2. \A c \in Dep : deps'[c] = IF c = d THEN "ready" ELSE deps[c]
    BY <2>1 DEF TypeOK
  <2>3. events'.pod = events.pod
    BY <2>1, EmitDep
  <2>4. \A i \in 1 .. Len(events'.dep) : deps'[events'.dep[i]] = "ready"
    BY <1>3, <2>1, <2>2, EmitDep DEF OwnRound
  <2>5. Installed' = Installed /\ pods' = pods
    BY <1>1, <1>7, <2>1, <2>2 DEF Installed, DeploymentReady
  <2>6. \A c \in Dep : deps'[c] # "none" <=> c \in Made
    BY <2>1, <2>2 DEF OwnRound
  <2>7. \A c \in deploymentTimes.ready : deps'[c] = "ready"
    BY <1>3, <2>2 DEF OwnRound
  <2>8. QED
    BY <1>1, <2>3, <2>4, <2>5, <2>6, <2>7 DEF OwnRound
<1>8. CASE DeploymentUpdated
  <2>1. PICK d \in Dep : deps[d] = "ready" /\ Emit("dep", d)
    BY <1>8 DEF DeploymentUpdated
  <2>2. UNCHANGED <<deps, pods, Installed>>
    BY <1>8 DEF DeploymentUpdated, Installed
  <2>3. \A i \in 1 .. Len(events'.dep) : deps[events'.dep[i]] = "ready"
    BY <2>1, EmitDep DEF OwnRound
  <2>4. events'.pod = events.pod
    BY <2>1, EmitDep
  <2>5. QED
    BY <1>1, <2>2, <2>3, <2>4 DEF OwnRound
<1>9. CASE PodDeleted
  BY <1>2, <1>9 DEF PodDeleted, OwnRound
<1>10. QED
  BY <1>4, <1>5, <1>6, <1>7, <1>8, <1>9 DEF Cluster

(* The handlers move a pod, or a deployment, from an event to its map.     *)
LEMMA OwnRoundHandler ==
    ASSUME TypeOK, OwnRound, Running, HandlePodEvent \/ HandleDeploymentEvent
    PROVE  OwnRound'
<1>1. /\ UNCHANGED <<pc, created, deps, pods, gen, Made, Installed>> /\ Running'
  BY DEF HandlePodEvent, HandleDeploymentEvent, memory, cluster, Made, Installed, Running
<1>2. events \in EventQueues /\ events.pod \in Seq(PodEvent) /\ events.dep \in Seq(Dep)
  BY DEF TypeOK, EventQueues, PodEvent
<1>3. CASE HandlePodEvent
  <2>1. PICK e \in PodEvent : e = Head(events.pod)
    BY <1>2, <1>3 DEF HandlePodEvent
  <2>2. /\ podTimes' = [podTimes EXCEPT ![e.kind] = @ \cup {e.pod}]
        /\ events'.pod = Tail(events.pod) /\ events'.dep = events.dep
        /\ deploymentTimes' = deploymentTimes /\ events.pod # <<>>
    BY <1>2, <1>3, <2>1 DEF HandlePodEvent, EventQueues
  <2>3. \A kind : PodsOf(events.pod, kind) =
                    PodsOf(events'.pod, kind) \cup (IF e.kind = kind THEN {e.pod} ELSE {})
    BY <1>2, <2>1, <2>2, PodsOfTail
  <2>4. /\ podTimes'.create =
                podTimes.create \cup (IF e.kind = "create" THEN {e.pod} ELSE {})
        /\ podTimes'.ready =
                podTimes.ready \cup (IF e.kind = "ready" THEN {e.pod} ELSE {})
    BY <2>2 DEF TypeOK, PodEvent
  <2>5. /\ podTimes'.create \cup PodsOf(events'.pod, "create") = pods
        /\ podTimes'.ready \cup PodsOf(events'.pod, "ready") = Installed
    BY <2>3, <2>4 DEF OwnRound
  <2>6. QED
    BY <1>1, <2>2, <2>5 DEF OwnRound
<1>4. CASE HandleDeploymentEvent
  <2>1. /\ events'.dep = Tail(events.dep) /\ events'.pod = events.pod /\ events.dep # <<>>
        /\ podTimes' = podTimes
        /\ deploymentTimes'.ready = deploymentTimes.ready \cup {Head(events.dep)}
    BY <1>2, <1>4 DEF HandleDeploymentEvent, EventQueues, TypeOK
  <2>2. /\ Head(events.dep) = events.dep[1] /\ 1 \in 1 .. Len(events.dep)
        /\ \A i \in 1 .. Len(Tail(events.dep)) :
                i + 1 \in 1 .. Len(events.dep) /\ Tail(events.dep)[i] = events.dep[i + 1]
    BY <1>2, <2>1
  <2>3. /\ \A d \in deploymentTimes'.ready : deps[d] = "ready"
        /\ \A i \in 1 .. Len(events'.dep) : deps[events'.dep[i]] = "ready"
    BY <2>1, <2>2 DEF OwnRound
  <2>4. QED
    BY <1>1, <2>1, <2>3 DEF OwnRound
<1>5. QED
  BY <1>3, <1>4

LEMMA OwnRoundNext ==
    ASSUME TypeOK, WaitedFor, CleanStart, OwnRound, [Next]_vars
    PROVE  OwnRound'
<1> USE DEF memory, times, disk, cluster, Goto
<1>1. CASE ~Running' 
  BY <1>1 DEF OwnRound
<1>2. CASE BeginRound
  BY <1>2, OwnRoundBegin
<1>3. CASE Running
  <2>1. CASE Start \/ DeleteDeployment \/ PodsGone \/ Stat \/ CreateFile
             \/ WriteEmpty \/ Load \/ Truncate \/ Write
             \/ AllMeasured \/ BeginRound
    BY <1>3, <2>1 DEF Running, Start, DeleteDeployment, PodsGone, Stat, CreateFile,
         WriteEmpty, Load, Truncate, Write, AllMeasured, BeginRound
  <2>2. CASE Statistic \/ Die
    BY <2>2 DEF Statistic, Die, OwnRound, Running
  <2>3. CASE UNCHANGED vars
    BY <2>3 DEF vars, OwnRound, Running, Made, Installed
  <2>4. QED
    BY <1>3, <2>1, <2>2, <2>3, OwnRoundMain, OwnRoundCreate, OwnRoundCluster,
       OwnRoundHandler DEF Next, Main
<1>4. CASE ~Running /\ Running' /\ ~BeginRound
  BY <1>4 DEF Running, Next, Main, Cluster, Start, DeleteDeployment, PodsGone, Stat,
         CreateFile, WriteEmpty, Load, Truncate, Write, AllMeasured, UpdateReplicas,
         NodesReady, CreateDeployment, RecordCreate, AllReady, SleepEnds, Statistic, Die,
         NodesFollow, NodeLost, PodCreated, PodReady, DeploymentReady, DeploymentUpdated,
         PodDeleted, HandlePodEvent, HandleDeploymentEvent, vars
<1>5. QED
  BY <1>1, <1>2, <1>3, <1>4

-----------------------------------------------------------------------------
(* In every reachable state results are kept, and the round under way is   *)
(* alone in the cluster, in the maps and in the events.                    *)
THEOREM RoundInvariant == Spec => []RoundInv
<1>1. Init => RoundInv
  BY TypeInit, ResultsInit, CleanInit DEF RoundInv
<1>2. RoundInv /\ [Next]_vars => RoundInv'
  <2> SUFFICES ASSUME RoundInv, [Next]_vars PROVE RoundInv'
    OBVIOUS
  <2>1. TypeOK' /\ ResultsKept' /\ left'.late = left.late
    BY TypeNext, ResultsNext, LagStays DEF RoundInv
  <2>2. WaitedFor'
    BY <2>1, WaitedNext DEF RoundInv
  <2>3. ~left.late => CleanStart' /\ OwnRound'
    BY CleanNext, OwnRoundNext DEF RoundInv
  <2>4. QED
    BY <2>1, <2>2, <2>3 DEF RoundInv
<1>3. QED
  BY <1>1, <1>2, PTL DEF Spec

(* Every variable of the self test stays in its domain.                    *)
THEOREM SelfTestTypeCorrect == Spec => []TypeOK
<1>1. RoundInv => TypeOK
  BY DEF RoundInv
<1>2. QED
  BY <1>1, RoundInvariant, PTL

(* A file of results that parses holds every round ever saved, whenever    *)
(* the test dies and however often it is run again.                        *)
THEOREM ResultsNeverLost == Spec => []SavedRoundsKept
<1>1. RoundInv => SavedRoundsKept
  BY DEF RoundInv, ResultsKept
<1>2. QED
  BY <1>1, RoundInvariant, PTL

(* No round is measured again once it is saved.                            *)
THEOREM NoRoundTwice == Spec => []SavedRoundsNotRepeated
<1>1. RoundInv => SavedRoundsNotRepeated
  BY DEF RoundInv, ResultsKept, Running, SavedRoundsNotRepeated
<1>2. QED
  BY <1>1, RoundInvariant, PTL

(* A round is measured when all its own deployments are ready, if sleeps   *)
(* outlast the lag of the informers.                                       *)
THEOREM RoundsMeasuredWhole == Spec => []RoundsComplete
<1>1. RoundInv => RoundsComplete
  BY DEF RoundInv, WaitedFor, RoundsComplete
<1>2. QED
  BY <1>1, RoundInvariant, PTL

(* The pods measured are exactly those of the round, under the same        *)
(* condition.                                                              *)
THEOREM OwnPodsOnly == Spec => []OwnPodsMeasured
<1>1. RoundInv => OwnPodsMeasured
  <2> SUFFICES ASSUME RoundInv, pc = "statistic", ~left.late
               PROVE  Valid(podTimes) = {<<d, gen>> : d \in 1 .. round[2]}
    BY DEF OwnPodsMeasured
  <2>1. TypeOK /\ WaitedFor /\ OwnRound /\ Running
    BY DEF RoundInv, Running
  <2>2. events.pod = <<>> /\ created = round[2] /\ \A d \in 1 .. round[2] : deps[d] = "ready"
    BY <2>1 DEF WaitedFor
  <2>3. podTimes.create = pods /\ podTimes.ready = Installed
    BY <2>1, <2>2, PodsOfNone DEF OwnRound
  <2>4. Made = 1 .. round[2] /\ Made \subseteq Dep
    BY <2>1, <2>2, MadeFacts
  <2>5. pods \subseteq {<<d, gen>> : d \in 1 .. round[2]} /\ Installed \subseteq pods
    BY <2>1, <2>4 DEF OwnRound
  <2>6. {<<d, gen>> : d \in 1 .. round[2]} \subseteq Installed
    BY <2>2, <2>4 DEF Installed
  <2>7. QED
    BY <2>3, <2>5, <2>6 DEF Valid
<1>2. QED
  BY <1>1, RoundInvariant, PTL
==============================================================================
