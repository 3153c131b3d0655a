------------------------------- MODULE Baseline -------------------------------
(***************************************************************************)
(* The baseline of a base: the modules it installs when it starts          *)
(* (QueryContainerBaseline and getClusterNameFromDeployment in             *)
(* src/controller/module_deployment_controller/                            *)
(* module_deployment_controller.go), asked for over HTTP or MQTT.          *)
(*                                                                         *)
(* Deployments have an environment, a creation time and containers, each a *)
(* name with a version, and name their cluster by a label, by the node     *)
(* selector or by the expressions of their node affinity, of which only    *)
(* those on the cluster name are kept, in order.  A container remembers    *)
(* its deployment.                                                         *)
(***************************************************************************)
EXTENDS Integers, Sequences, FiniteSets

CONSTANTS
    Deployment,
    Cluster,            \* cluster names, "" for none among them
    Biz, Version,
    Label,              \* the labels a deployment may have: sets of at most one
    Affinity,           \* the affinities a deployment may have
    MaxTime             \* bound: creation times

VARIABLES
    deployments,        \* what the cache lists
    request,            \* the cluster name of the base that asks
    answer,             \* the containers it is sent
    installed,          \* the modules of the base
    pc

vars == <<deployments, request, answer, installed, pc>>

Container == [name : Biz, version : Version]

(* One or two containers, of different names.                              *)
Containers ==
    {<<c>> : c \in Container} \cup
    {p \in Container \X Container : p[1].name # p[2].name}

Init ==
    /\ deployments \in [Deployment ->
           [label : Label, selector : Label, affinity : Affinity, env : BOOLEAN,
            created : 1..MaxTime, containers : Containers]]
    /\ request \in Cluster
    /\ answer = <<>>
    /\ installed = {}
    /\ pc = "ask"

(* getClusterNameFromDeployment: an empty label counts; the first value of *)
(* the first expression, whatever its operator.                            *)
ClusterName(d) ==
    IF d.label # {} THEN CHOOSE c \in d.label : TRUE
    ELSE IF d.selector # {} THEN CHOOSE c \in d.selector : TRUE
    ELSE IF d.affinity # <<>> THEN d.affinity[1].values[1]
    ELSE ""

(* An expression without values ends the callback in a panic.              *)
Panics(d) ==
    d.label = {} /\ d.selector = {} /\ d.affinity # <<>> /\ d.affinity[1].values = <<>>

(* The list of the cache is limited to the controller's environment.       *)
Listed == {d \in Deployment : deployments[d].env}

(* Faulty variant: bases without a cluster name are not told apart.        *)
RelatedToAnyone(d) == ClusterName(deployments[d]) = request

Related(d) == ClusterName(deployments[d]) # "" /\ ClusterName(deployments[d]) = request

Orders == {s \in [1..Cardinality(Listed) -> Listed] : {s[i] : i \in DOMAIN s} = Listed}

(* Faulty variant: the newest comes first.                                 *)
SortedBackwards(s) ==
    \A i, j \in DOMAIN s : i < j => deployments[s[i]].created >= deployments[s[j]].created

(* sort.Slice by creation; deployments of one time come in any order.      *)
Sorted(s) ==
    \A i, j \in DOMAIN s : i < j => deployments[s[i]].created <= deployments[s[j]].created

(* The containers of the related deployments of a list, one after another. *)
Concatenated(s) ==
    LET concat[i \in 0..Len(s)] ==
            IF i = 0 THEN <<>>
            ELSE IF ~Related(s[i]) THEN concat[i - 1]
            ELSE LET cs == deployments[s[i]].containers
                 IN  concat[i - 1] \o
                     [k \in DOMAIN cs |-> [owner |-> s[i], name |-> cs[k].name,
                                           version |-> cs[k].version]]
    IN  concat[Len(s)]

QueryContainerBaseline ==
    /\ pc = "ask"
    /\ IF \E d \in Listed : Panics(deployments[d])
       THEN pc' = "panic" /\ UNCHANGED answer
       ELSE /\ \E s \in Orders : Sorted(s) /\ answer' = Concatenated(s)
            /\ pc' = "answered"
    /\ UNCHANGED <<deployments, request, installed>>

(* The cache cannot be read, as before the manager has started it: an      *)
(* empty baseline, not an error.                                           *)
QueryFails ==
    /\ pc = "ask"
    /\ pc' = "answered"
    /\ UNCHANGED <<deployments, request, answer, installed>>

(* processBaseline: adds the modules to those the base has.                *)
ProcessBaseline ==
    /\ pc = "answered"
    /\ installed' = installed \cup
           {[name |-> answer[i].name, version |-> answer[i].version] : i \in DOMAIN answer}
    /\ pc' = "installed"
    /\ UNCHANGED <<deployments, request, answer>>

Next == QueryContainerBaseline \/ QueryFails \/ ProcessBaseline

Spec == Init /\ [][Next]_vars

-----------------------------------------------------------------------------
(* A base gets only containers of listed deployments that name its         *)
(* cluster: by the label, without a label by the selector, and without     *)
(* both by the first value of the first affinity expression, which names   *)
(* it also when the operator excludes it (NotIn).  A base without a        *)
(* cluster name gets none: deployments that name no cluster are not its.   *)
OwnModulesOnly ==
    \A i \in DOMAIN answer :
       LET d == deployments[answer[i].owner] IN
       /\ d.env
       /\ request # ""
       /\ \/ d.label = {request}
          \/ d.label = {} /\ d.selector = {request}
          \/ /\ d.label = {} /\ d.selector = {}
             /\ d.affinity # <<>> /\ d.affinity[1].values[1] = request

(* Of two containers of a name, that of the deployment created later comes *)
(* later, so a base that takes them in order ends with the newest.         *)
NewestLast ==
    \A i, j \in DOMAIN answer :
       i < j /\ answer[i].name = answer[j].name =>
           deployments[answer[i].owner].created <= deployments[answer[j].owner].created
=============================================================================
