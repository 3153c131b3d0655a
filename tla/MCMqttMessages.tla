---------------------------- MODULE MCMqttMessages ----------------------------
(***************************************************************************)
(* An instance for TLC of three parts that share no state: the MQTT tunnel *)
(* (MqttTunnel), what the tunnels make of the content of messages          *)
(* (Conversions) and the answer to a baseline query (Baseline).  A         *)
(* behaviour is one of one part; the others stay at rest.                  *)
(***************************************************************************)
EXTENDS MqttTunnel, TLC

CONSTANTS b1, c1, c2, d1, d2, m1, m2,
          Port, State, Memory, Time, Reason, BizState, MaxRecords,
          Deployment, Cluster, Biz, Version, Label, Affinity, CreationTime

(* A size is a number or -1; a deployment has at most one label of a key.   *)
ASSUME ContentAssumption == Memory \subseteq Nat \cup {-1} /\ Time \subseteq Int
ASSUME DeploymentAssumption ==
    IsFiniteSet(Deployment) /\ \A label \in Label : \A a, b \in label : a = b

VARIABLES
    part, status, jvm, bizState, records, arrival,
    deployments, request, answer, installed, pc

convVars == <<status, jvm, bizState, records, arrival>>
baselineVars == <<deployments, request, answer, installed, pc>>

Conv == INSTANCE Conversions
Query == INSTANCE Baseline WITH MaxTime <- CreationTime

(* Messages that grow old, lives that follow each other, overlapping calls.*)
Budget(ticks, messages, starts, losses, calls) ==
    [ticks |-> ticks, messages |-> messages, starts |-> starts,
     losses |-> losses, calls |-> calls]

SomeBudgets ==
    {Budget(1, 1, 0, 1, 1), Budget(2, 1, 0, 0, 1), Budget(0, 0, 1, 1, 0),
     Budget(0, 0, 0, 1, 2), Budget(0, 1, 0, 0, 2)}

(* Sizes, -1 for unknown, and times, 0 and -1 among them.                  *)
SomeNumbers == {-1, 0, 1, 2}

SomeLabels == {{}, {"c1"}}
SomeAffinities ==
    {<<>>, <<[op |-> "In", values |-> <<"c1", "c2">>]>>,
     <<[op |-> "In", values |-> <<"c2">>], [op |-> "NotIn", values |-> <<"c1">>]>>,
     <<[op |-> "NotIn", values |-> <<"c1">>]>>,
     <<[op |-> "Exists", values |-> <<>>]>>}

(* Calls are interchangeable, and so are deployments.                      *)
Symmetric == Permutations(Caller) \cup Permutations(Deployment)

TunnelRest == Init /\ left = Budget(0, 0, 1, 1, 0) /\ \A c \in Caller : call[c].node = b1
ConvRest ==
    status = "none" /\ jvm = "none" /\ bizState = "none" /\ records = <<>> /\ arrival = 0
QueryRest ==
    deployments = <<>> /\ request = "" /\ answer = <<>> /\ installed = {} /\ pc = "rest"

PartsInit ==
    \/ part = "tunnel" /\ Init /\ ConvRest /\ QueryRest
    \/ part = "conversions" /\ TunnelRest /\ Conv!Init /\ QueryRest
    \/ part = "baseline" /\ TunnelRest /\ ConvRest /\ Query!Init

PartsNext ==
    /\ UNCHANGED part
    /\ \/ part = "tunnel" /\ Next /\ UNCHANGED <<convVars, baselineVars>>
       \/ part = "conversions" /\ Conv!Next /\ UNCHANGED <<vars, baselineVars>>
       \/ part = "baseline" /\ Query!Next /\ UNCHANGED <<vars, convVars>>

PartsSpec == PartsInit /\ [][PartsNext]_<<part, vars, convVars, baselineVars>>

-----------------------------------------------------------------------------
(* What the vnode controller is given is what the base sent: its address   *)
(* survives the way to a node and back, unknown sizes of memory never      *)
(* enter a computation, and a module has the state it is listed with, the  *)
(* time and the reason those of its latest record.                         *)
ContentKept ==
    part = "conversions" =>
        /\ Conv!AddressSurvives
        /\ Conv!UnknownMemoryUnset
        /\ Conv!ListedStateTold

(* The baseline of a cluster has containers of deployments that name it    *)
(* only, be it to exclude it, and those of newer deployments come later.   *)
BaselineOrdered ==
    part = "baseline" => Query!OwnModulesOnly /\ Query!NewestLast
=============================================================================
