------------------------------ MODULE MCCommands ------------------------------
(***************************************************************************)
(* Instances for TLC of the two ways to install and uninstall modules,     *)
(* which share no state: over HTTP (HttpModules) and over MQTT             *)
(* (MqttCommands).  A behaviour is one of one way.                         *)
(***************************************************************************)
EXTENDS HttpModules, Sequences, FiniteSets, TLC

CONSTANTS b1, b2, c1, c2, w1, w2, MqttBiz, QueryCommand, Worker, MaxPublished, MaxLosses

ASSUME QueriesOnly == QueryCommand \subseteq {"health", "queryAllBiz"}

VARIABLES
    part, published, pods, retained, up, life, connected, inbox, job,
    mqttInstalled, answering, silent, responses, mqttTold, last, ran, losses

mqttVars == <<published, pods, retained, up, life, connected, inbox, job,
              mqttInstalled, answering, silent, responses, mqttTold, last, ran, losses>>

Mqtt == INSTANCE MqttCommands WITH
    Biz <- MqttBiz, installed <- mqttInstalled, told <- mqttTold, MaxCommands <- MaxPublished

PartsInit ==
    /\ part \in {"http", "mqtt"}
    /\ Init /\ Mqtt!Init
    /\ part = "mqtt" => \A c \in Call : command[c].biz = b1

PartsNext ==
    /\ UNCHANGED part
    /\ \/ part = "http" /\ Next /\ UNCHANGED mqttVars
       \/ part = "mqtt" /\ Mqtt!Next /\ UNCHANGED vars

PartsSpec ==
    /\ PartsInit /\ [][PartsNext]_<<part, vars, mqttVars>>
    /\ \/ part = "http" /\ Fairness
       \/ part = "mqtt" /\ Mqtt!Fairness

(* Once no response about a module is under way, the last outcome that the *)
(* vnode controller was told is what the base has, unless the base changed *)
(* the module since without an answer.                                     *)
OutcomesAgree == Mqtt!OutcomesAgree

(* The last command of each kind reaches a base that was away or crashed.  *)
LastCommandRuns == part = "mqtt" => Mqtt!LastCommandRuns

(* Lists of modules repair what lost or late reports told over HTTP.       *)
ReportsRepaired == part = "http" => ListsRepairReports
=============================================================================
