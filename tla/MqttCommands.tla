----------------------------- MODULE MqttCommands -----------------------------
(***************************************************************************)
(* Commands over MQTT: StartBiz, StopBiz, FetchHealthData and              *)
(* QueryAllBizStatusData of the tunnel                                     *)
(* (src/module_tunnels/koupleless_mqtt_tunnel/mqtt_tunnel.go), the base    *)
(* that carries them out (src/suite/mqtt/mock_mqtt_base.go) and the        *)
(* callback for its responses.                                             *)
(*                                                                         *)
(* A command goes to the topic of its kind and is retained there, as the   *)
(* baseline that answers a base's query is: a base that subscribes, at its *)
(* start or after a lost connection, is sent the last command of each kind *)
(* and the last baseline again.  The base runs every command in a          *)
(* goroutine of its own (Worker); those that change its modules hold its   *)
(* mutex until their answer is published.  A baseline is carried out by    *)
(* the callback itself, without the mutex and without an answer.           *)
(*                                                                         *)
(* One base is modelled; the tunnel's own connection, which MqttTunnel     *)
(* has, is taken to last, and what the broker would queue for the base     *)
(* besides what it retains is left out.  Lists of modules and answers to   *)
(* health queries are messages of MqttTunnel.                              *)
(***************************************************************************)
EXTENDS Integers, Sequences, FiniteSets

CONSTANTS
    Biz,                \* modules: a name with a version
    QueryCommand,       \* commands without arguments: health, queryAllBiz
    Worker,             \* goroutines of the base at once
    MaxCommands,        \* bound: commands and baselines published
    MaxLosses           \* bound: crashes, lost connections and failed modules

VARIABLES
    published,      \* commands published so far
    pods,           \* pods started and not stopped: [biz, pod]
    retained,       \* the last command of each kind and the last baseline
    up,             \* does the base run
    life,           \* starts of the base
    connected,      \* has the base subscribed
    inbox,          \* commands and baselines on their way to the base
    job,            \* the command of each goroutine
    installed,      \* BizInfos: the state of each module
    answering,      \* who holds the mutex of the base to publish a response:
                    \* nobody or one, [by, response]
    silent,         \* history: modules changed without a response since the
                    \* last change with one
    responses,      \* responses on their way to the tunnel
    told,           \* the last outcome told to the vnode controller
    last,           \* history: what retained should be
    ran,            \* history: commands begun since the start of the base
    losses          \* what is left of the bound

tunnel == <<published, pods, retained, last>>
base == <<up, life, connected>>
modules == <<installed, answering, silent>>
vars == <<tunnel, base, modules, inbox, job, responses, told, ran, losses>>

Init ==
    /\ published = 0
    /\ pods = {}
    /\ retained = {}
    /\ up = TRUE
    /\ life = 1
    /\ connected = FALSE
    /\ inbox = <<>>
    /\ job = [w \in Worker |-> {}]
    /\ installed = [b \in Biz |-> "absent"]
    /\ answering = {}
    /\ silent = {}
    /\ responses = <<>>
    /\ told = [b \in Biz |-> [state |-> "none", life |-> 0]]
    /\ last = {}
    /\ ran = {}
    /\ losses = MaxLosses

-----------------------------------------------------------------------------
(* The tunnel publishes.                                                   *)

(* Faulty variant: the broker is not asked to retain.                      *)
PubOnce(m) ==
    /\ published < MaxCommands
    /\ published' = published + 1
    /\ last' = {r \in last : r.command # m.command} \cup {m}
    /\ inbox' = IF connected THEN Append(inbox, m) ELSE inbox
    /\ UNCHANGED <<retained, base, modules, job, responses, told, ran, losses>>

(* Pub sets the retain flag of every message.                              *)
Pub(m) ==
    /\ published < MaxCommands
    /\ published' = published + 1
    /\ last' = {r \in last : r.command # m.command} \cup {m}
    /\ retained' = {r \in retained : r.command # m.command} \cup {m}
    /\ inbox' = IF connected THEN Append(inbox, m) ELSE inbox
    /\ UNCHANGED <<base, modules, job, responses, told, ran, losses>>

(* The vnode controller starts the module of a new pod ...                 *)
StartBiz(b) ==
    /\ Pub([command |-> "installBiz", biz |-> b, pod |-> published, id |-> published])
    /\ pods' = pods \cup {[biz |-> b, pod |-> published]}

(* ... and stops that of a deleted one; BizModelVersion is the pod's key.  *)
StopBiz(p) ==
    /\ Pub([command |-> "uninstallBiz", biz |-> p.biz, pod |-> p.pod, id |-> published])
    /\ pods' = pods \ {p}

(* FetchHealthData, QueryAllBizStatusData: no arguments.                   *)
AskBase(command) ==
    /\ Pub([command |-> command, id |-> published])
    /\ UNCHANGED pods

(* queryBaselineMsgCallback answers a query, which may be any time old by  *)
(* then, with what the deployments are now (Baseline).                     *)
AnswerBaseline(content) ==
    /\ Pub([command |-> "baseline", content |-> content, id |-> published])
    /\ UNCHANGED pods

-----------------------------------------------------------------------------
(* The base.                                                               *)

(* The connect handler subscribes commands and the baseline; the broker    *)
(* repeats what it retains, in any order.                                  *)
BaseConnects ==
    /\ up /\ ~connected
    /\ connected' = TRUE
    /\ \E s \in [1..Cardinality(retained) -> retained] :
       /\ \A m \in retained : \E i \in DOMAIN s : s[i] = m
       /\ inbox' = inbox \o s
    /\ UNCHANGED <<tunnel, up, life, modules, job, responses, told, ran, losses>>

(* What has not arrived of the inbox is lost.                              *)
ConnectionLost ==
    /\ connected
    /\ losses > 0
    /\ losses' = losses - 1
    /\ connected' = FALSE
    /\ \E k \in 0..Len(inbox) : inbox' = SubSeq(inbox, 1, k)

BaseDisconnects ==
    /\ ConnectionLost
    /\ UNCHANGED <<tunnel, up, life, modules, job, responses, told, ran>>

(* A goroutine that was publishing its answer dies with the base.          *)
BaseCrashes ==
    /\ up
    /\ losses > 0
    /\ losses' = losses - 1
    /\ up' = FALSE
    /\ connected' = FALSE
    /\ inbox' = <<>>
    /\ job' = [w \in Worker |-> {}]
    /\ installed' = [b \in Biz |-> "absent"]
    /\ answering' = {}
    /\ silent' = {}
    /\ ran' = {}
    /\ UNCHANGED <<tunnel, life, responses, told>>

BaseStarts ==
    /\ ~up
    /\ up' = TRUE
    /\ life' = life + 1
    /\ UNCHANGED <<tunnel, connected, modules, inbox, job, responses, told, ran, losses>>

(* processCommand: a goroutine for each command.                           *)
ProcessCommand(w) ==
    /\ job[w] = {}
    /\ inbox # <<>>
    /\ Head(inbox).command # "baseline"
    /\ inbox' = Tail(inbox)
    /\ job' = [job EXCEPT ![w] = {Head(inbox)}]
    /\ UNCHANGED <<tunnel, base, modules, responses, told, ran, losses>>

(* processBaseline: no mutex, no answer.                                   *)
ProcessBaseline ==
    /\ inbox # <<>>
    /\ Head(inbox).command = "baseline"
    /\ inbox' = Tail(inbox)
    /\ LET content == Head(inbox).content IN
       /\ installed' = [b \in Biz |-> IF b \in content THEN "ACTIVATED" ELSE installed[b]]
       /\ silent' = silent \cup {b \in content : installed[b] # "ACTIVATED"}
    /\ ran' = ran \cup {Head(inbox)}
    /\ UNCHANGED <<tunnel, base, job, answering, responses, told, losses>>

Done(w, m) ==
    /\ job' = [job EXCEPT ![w] = {}]
    /\ ran' = ran \cup {m}

(* A new module is RESOLVED until its installation ends; a module that is  *)
(* there already is left alone and not answered.                           *)
ProcessInstallBiz(w, m) ==
    /\ m \in job[w] /\ m.command = "installBiz"
    /\ answering = {}
    /\ installed' = [installed EXCEPT ![m.biz] = IF @ = "absent" THEN "RESOLVED" ELSE @]
    /\ Done(w, m)
    /\ UNCHANGED <<tunnel, base, answering, silent, inbox, responses, told, losses>>

(* Faulty variant: the mutex is given back before the answer is published. *)
ChangeUnlocked(by, b, state, command, code) ==
    /\ up
    /\ installed' = [installed EXCEPT ![b] = state]
    /\ silent' = silent \ {b}
    /\ answering' = answering \cup {[by |-> by, response |->
           [command |-> command, biz |-> b, code |-> code, life |-> life]]}
    /\ UNCHANGED <<tunnel, base, inbox, job, responses, told, ran, losses>>

(* One module is changed under the mutex, which is kept for the answer.    *)
Change(by, b, state, command, code) ==
    /\ up
    /\ answering = {}
    /\ installed' = [installed EXCEPT ![b] = state]
    /\ silent' = silent \ {b}
    /\ answering' = {[by |-> by, response |->
           [command |-> command, biz |-> b, code |-> code, life |-> life]]}
    /\ UNCHANGED <<tunnel, base, inbox, job, responses, told, ran, losses>>

(* Deletes the module whatever its BizModelVersion, connected or not.      *)
ProcessUnInstallBiz(w, m) ==
    /\ m \in job[w] /\ m.command = "uninstallBiz"
    /\ Change({w}, m.biz, "absent", "uninstallBiz", "SUCCESS")

(* The mock never refuses to uninstall; a base may.                        *)
UnInstallFails(w, m) ==
    /\ m \in job[w] /\ m.command = "uninstallBiz"
    /\ Change({w}, m.biz, installed[m.biz], "uninstallBiz", "FAILED")

(* processHealth, processQueryAllBiz: without the mutex.                   *)
ProcessQuery(w, m) ==
    /\ m \in job[w] /\ m.command \in QueryCommand
    /\ connected
    /\ Done(w, m)
    /\ UNCHANGED <<tunnel, base, modules, inbox, responses, told, losses>>

(* SetBizState: an installation ends, or a module that the base changed by *)
(* itself is activated again.  The list that SetBizState publishes after   *)
(* the response is a message of MqttTunnel.                                *)
SetBizState(b) ==
    /\ \/ installed[b] = "RESOLVED"
       \/ b \in silent /\ installed[b] # "absent"
    /\ Change({}, b, "ACTIVATED", "installBiz", "SUCCESS")

(* SetBizState with another state: no response.                            *)
ModuleFails(b) ==
    /\ answering = {}
    /\ losses > 0
    /\ losses' = losses - 1
    /\ installed[b] \in {"RESOLVED", "ACTIVATED"}
    /\ installed' = [installed EXCEPT ![b] = "BROKEN"]
    /\ silent' = silent \cup {b}
    /\ UNCHANGED <<tunnel, base, answering, inbox, job, responses, told, ran>>

(* The mock never answers that an installation failed; a base may.         *)
InstallFails(b) ==
    /\ installed[b] = "RESOLVED"
    /\ Change({}, b, "absent", "installBiz", "FAILED")

(* Pub waits for the connection and for the broker's acknowledgement; then *)
(* the mutex is given back.                                                *)
ResponseSent(a) ==
    /\ connected
    /\ responses' = Append(responses, a.response)
    /\ answering' = answering \ {a}
    /\ job' = [w \in Worker |-> IF w \in a.by THEN {} ELSE job[w]]
    /\ ran' = ran \cup UNION {job[w] : w \in a.by}
    /\ UNCHANGED <<tunnel, base, installed, silent, inbox, told, losses>>

(* The connection is lost before the acknowledgement: the client sends the *)
(* response again.                                                         *)
AcknowledgementLost(a) ==
    /\ ConnectionLost
    /\ responses' = Append(responses, a.response)
    /\ UNCHANGED <<tunnel, up, life, modules, job, told, ran>>

-----------------------------------------------------------------------------
(* What a response means for the module.                                   *)
Outcome(r) ==
    IF r.code # "SUCCESS" THEN "BROKEN"
    ELSE IF r.command = "installBiz" THEN "ACTIVATED" ELSE "STOPPED"

(* bizOperationResponseCallback: the pod key of the response is dropped.   *)
BizOperationResponse ==
    /\ responses # <<>>
    /\ responses' = Tail(responses)
    /\ LET r == Head(responses) IN
       told' = [told EXCEPT ![r.biz] = [state |-> Outcome(r), life |-> r.life]]
    /\ UNCHANGED <<tunnel, base, modules, inbox, job, ran, losses>>

Process(w) ==
    \E m \in job[w] :
       \/ ProcessInstallBiz(w, m)
       \/ ProcessUnInstallBiz(w, m)
       \/ UnInstallFails(w, m)
       \/ ProcessQuery(w, m)

Next ==
    \/ \E b \in Biz : StartBiz(b)
    \/ \E p \in pods : StopBiz(p)
    \/ \E command \in QueryCommand : AskBase(command)
    \/ \E content \in SUBSET Biz : AnswerBaseline(content)
    \/ BaseConnects \/ BaseDisconnects \/ BaseCrashes \/ BaseStarts
    \/ \E w \in Worker : ProcessCommand(w) \/ Process(w)
    \/ ProcessBaseline
    \/ \E b \in Biz : SetBizState(b) \/ ModuleFails(b) \/ InstallFails(b)
    \/ \E a \in answering : ResponseSent(a) \/ AcknowledgementLost(a)
    \/ BizOperationResponse

Spec == Init /\ [][Next]_vars

(* A base that is down starts again and connects, as often as it must;     *)
(* goroutines run.                                                         *)
Fairness ==
    /\ WF_vars(BaseStarts \/ BaseConnects)
    /\ WF_vars(ProcessBaseline \/ \E w \in Worker : ProcessCommand(w))
    /\ WF_vars(\E a \in answering : ResponseSent(a))
    /\ \A w \in Worker : WF_vars(Process(w))

FairSpec == Spec /\ Fairness

-----------------------------------------------------------------------------
Awaited(b) ==
    \/ \E i \in DOMAIN responses : responses[i].biz = b
    \/ \E a \in answering : a.response.biz = b

(* Once no response about a module is under way, the last outcome that the *)
(* vnode controller was told is what the base has, as long as the base has *)
(* not restarted, nor changed the module since without an answer, as a     *)
(* baseline does: responses keep the order of the changes although         *)
(* commands run concurrently, their answers wait for the connection, and   *)
(* commands and answers are repeated.                                      *)
OutcomesAgree ==
    \A b \in Biz \ silent : up /\ told[b].life = life /\ ~Awaited(b) =>
        /\ told[b].state = "ACTIVATED" => installed[b] = "ACTIVATED"
        /\ told[b].state = "STOPPED" => installed[b] # "ACTIVATED"

(* The last command of each kind, and the last baseline, reach a base that *)
(* was away when they were published, or crashed before it was done.       *)
LastCommandRuns == <>[](last \subseteq ran)
=============================================================================
