------------------------------ MODULE MqttTunnel ------------------------------
(***************************************************************************)
(* The MQTT tunnel: connection, subscriptions and incoming messages        *)
(* (src/module_tunnels/koupleless_mqtt_tunnel/mqtt_tunnel.go and           *)
(* mqtt/mqtt.go), with a base that publishes as                            *)
(* src/suite/mqtt/mock_mqtt_base.go does.                                  *)
(*                                                                         *)
(* Heartbeats and baseline queries of all bases are subscribed by the      *)
(* handler of each connect; five topics of a node are subscribed one after *)
(* the other by RegisterNode and four of them unsubscribed by              *)
(* UnRegisterNode.  Every message is published as retained, so the broker  *)
(* repeats the last one of a topic to each new subscription: the           *)
(* callbacks tell old from new by the timestamp of the message.            *)
(*                                                                         *)
(* The client library hands messages to one callback at a time, in the     *)
(* order the broker sent them; it keeps its routes (topic to callback)     *)
(* over a lost connection, while the broker forgets the subscriptions of a *)
(* clean session.  The clocks of bases and controller are taken as equal.  *)
(* A channel is a topic of a node; a wildcard topic is all its channels.   *)
(***************************************************************************)
EXTENDS Integers, Sequences, FiniteSets

CONSTANTS
    Node,
    Caller,             \* RegisterNode and UnRegisterNode calls at once
    Lifetime,           \* how long a message is not expired (10 s)
    Published,          \* bound: the topics that bases publish on
    Budgets,            \* bound: ticks of the clock, messages other than those
                        \* a life begins and ends with, starts of bases after
                        \* the first, connections lost, and calls
    MaxInbox            \* bound: messages waiting at which bases pause

SharedTopics == {"heart", "queryBaseline"}

(* The order of RegisterNode's subscriptions.                              *)
NodeTopics == <<"health", "simpleBiz", "biz", "bizOperation", "batchInstall">>

Topic == SharedTopics \cup {NodeTopics[i] : i \in 1..5}

ASSUME MqttBounds ==
    /\ Budgets \subseteq
           [ticks : Nat, messages : Nat, starts : Nat, losses : Nat, calls : Nat]
    /\ MaxInbox \in Nat
    /\ Lifetime \in Nat \ {0}
    /\ Published \subseteq Topic

VARIABLES
    now,            \* the clock
    up,             \* the bases that run
    life,           \* starts of each base
    lastUp,         \* history: when each base last stopped
    retained,       \* the messages the broker keeps, one per channel
    connected,      \* is the tunnel's client connected
    greeting,       \* topics the connect handler has yet to subscribe
    subs,           \* the broker's subscriptions of the session
    routes,         \* the client's callbacks
    inbox,          \* messages sent to the client, oldest first
    handling,       \* the message whose callback runs
    callbacks,      \* has RegisterCallback run
    call,           \* RegisterNode and UnRegisterNode calls under way
    report,         \* what the last step passed on
    known,          \* the last heartbeat told of each node
    registered,     \* history: RegisterNode returned nil, not unregistered
    intact,         \* history: no loss or overlap since the last call began
    owed,           \* history: responses to registered nodes, not consumed
    left            \* what is left of each bound

base == <<up, life, lastUp>>
client == <<connected, greeting, subs, routes>>
told == <<report, known>>
history == <<registered, intact, owed>>
vars == <<now, base, retained, client, inbox, handling, callbacks, call, told,
          history, left>>

Message == [topic : Topic, node : Node, sent : Nat, life : Nat,
            body : {"ACTIVATED", "DEACTIVATED", "data", "ignored"}]
CallState == [pc : {"idle", "next", "sent", "failed"}, node : Node, i : 1..6,
              kind : {"register", "unregister"}, clean : BOOLEAN]

NoBeat == [life |-> 0, state |-> "none"]

Init ==
    /\ now = 0
    /\ up = {}
    /\ life = [n \in Node |-> 0]
    /\ lastUp = [n \in Node |-> 0]
    /\ retained = {}
    /\ connected = FALSE
    /\ greeting = {}
    /\ subs = {}
    /\ routes = {}
    /\ inbox = <<>>
    /\ handling = {}
    /\ callbacks = FALSE
    /\ call \in [Caller -> [pc : {"idle"}, node : Node, i : {1},
                            kind : {"register"}, clean : {FALSE}]]
    /\ report = {}
    /\ known = [n \in Node |-> NoBeat]
    /\ registered = {}
    /\ intact = {}
    /\ owed = {}
    /\ left \in Budgets

Channel(m) == <<m.topic, m.node>>
Silent == report' = {} /\ UNCHANGED known

Tick ==
    /\ left.ticks > 0
    /\ left' = [left EXCEPT !.ticks = @ - 1]
    /\ now' = now + 1
    /\ Silent
    /\ UNCHANGED <<base, retained, client, inbox, handling, callbacks, call,
                   history>>

-----------------------------------------------------------------------------
(* Bases and broker.                                                       *)

(* Pub: always retained.  The subscriber gets the message at once; a       *)
(* response counts as owed when its node is registered.                    *)
Publish(m) ==
    /\ retained' = {r \in retained : Channel(r) # Channel(m)} \cup {m}
    /\ inbox' = IF Channel(m) \in subs THEN Append(inbox, m) ELSE inbox
    /\ owed' = IF m.topic = "bizOperation" /\ m.body = "data" /\ m.node \in registered
               THEN owed \cup {m} ELSE owed
    /\ UNCHANGED <<client, handling, callbacks, call, registered, intact>>

Heartbeat(n, state, age) ==
    [topic |-> "heart", node |-> n, sent |-> now, life |-> age, body |-> state]

(* Start publishes the first heartbeat.                                    *)
BaseStarts(n) ==
    /\ n \notin up
    /\ life[n] = 0 \/ left.starts > 0
    /\ up' = up \cup {n}
    /\ life' = [life EXCEPT ![n] = @ + 1]
    /\ left' = [left EXCEPT !.starts = IF life[n] = 0 THEN @ ELSE @ - 1]
    /\ Publish(Heartbeat(n, "ACTIVATED", life[n] + 1))
    /\ Silent
    /\ UNCHANGED <<now, lastUp>>

(* Exit: the last heartbeat says DEACTIVATED.                              *)
BaseExits(n) ==
    /\ n \in up
    /\ up' = up \ {n}
    /\ lastUp' = [lastUp EXCEPT ![n] = now]
    /\ Publish(Heartbeat(n, "DEACTIVATED", life[n]))
    /\ Silent
    /\ UNCHANGED <<now, life, left>>

(* The base dies without a word.                                           *)
BaseCrashes(n) ==
    /\ n \in up
    /\ up' = up \ {n}
    /\ lastUp' = [lastUp EXCEPT ![n] = now]
    /\ Silent
    /\ UNCHANGED <<now, life, retained, client, inbox, handling, callbacks,
                   call, history, left>>

(* The base asks for its baseline or answers a command.  "ignored" stands  *)
(* for what no callback passes on: no JSON, a health code other than       *)
(* SUCCESS, an unknown command, an empty batch.                            *)
BasePublishes(n, topic, body) ==
    /\ n \in up
    /\ left.messages > 0
    /\ Len(inbox) < MaxInbox
    /\ left' = [left EXCEPT !.messages = @ - 1]
    /\ Publish([topic |-> topic, node |-> n, sent |-> now, life |-> life[n],
                body |-> body])
    /\ Silent
    /\ UNCHANGED <<now, base>>

(* The timer of a base repeats its heartbeat.                              *)
BaseBeats(n) ==
    /\ n \in up
    /\ Len(inbox) < MaxInbox
    /\ Publish(Heartbeat(n, "ACTIVATED", life[n]))
    /\ Silent
    /\ UNCHANGED <<now, base, left>>

-----------------------------------------------------------------------------
(* The connection.                                                         *)

(* Faulty variant: subscribes after the first connect only.                *)
ConnectOnce ==
    /\ ~connected
    /\ connected' = TRUE
    /\ greeting' = IF routes = {} THEN SharedTopics ELSE {}
    /\ Silent
    /\ UNCHANGED <<now, base, retained, subs, routes, inbox, handling,
                   callbacks, call, history, left>>

(* Connect in Start, or the automatic reconnect: a clean session.          *)
Connect ==
    /\ ~connected
    /\ connected' = TRUE
    /\ greeting' = SharedTopics
    /\ Silent
    /\ UNCHANGED <<now, base, retained, subs, routes, inbox, handling,
                   callbacks, call, history, left>>

(* The broker takes the subscription and repeats what it retains, the      *)
(* channels of a wildcard in any order.                                    *)
Repeated(channels) ==
    LET msgs == {m \in retained : Channel(m) \in channels}
    IN  {s \in [1..Cardinality(msgs) -> msgs] : \A m \in msgs : \E i \in DOMAIN s : s[i] = m}

Subscribed(channels) ==
    /\ subs' = subs \cup channels
    /\ routes' = routes \cup channels
    /\ \E s \in Repeated(channels) : inbox' = inbox \o s

(* The connect handler subscribes heartbeats, then baseline queries.       *)
Greet(topic) ==
    /\ connected
    /\ topic \in greeting
    /\ topic = "queryBaseline" => "heart" \notin greeting
    /\ greeting' = greeting \ {topic}
    /\ Subscribed({topic} \X Node)
    /\ Silent
    /\ UNCHANGED <<now, base, retained, connected, handling, callbacks, call,
                   history, left>>

(* The connection is lost with the messages not received yet and the       *)
(* session; a Sub that waits gets an error.  The routes stay.              *)
Lose ==
    /\ connected
    /\ left.losses > 0
    /\ left' = [left EXCEPT !.losses = @ - 1]
    /\ connected' = FALSE
    /\ greeting' = {}
    /\ subs' = {}
    /\ \E k \in 0..Len(inbox) : inbox' = SubSeq(inbox, 1, k)
    /\ call' = [c \in Caller |->
            [call[c] EXCEPT !.pc = IF @ = "sent" THEN "failed" ELSE @, !.clean = FALSE]]
    /\ intact' = {}
    /\ Silent
    /\ UNCHANGED <<now, base, retained, routes, handling, callbacks,
                   registered, owed>>

(* The controller dies and starts again as a new client.                   *)
ProcessRestarts ==
    /\ left.losses > 0
    /\ left' = [left EXCEPT !.losses = @ - 1]
    /\ connected' = FALSE
    /\ greeting' = {}
    /\ subs' = {}
    /\ routes' = {}
    /\ inbox' = <<>>
    /\ handling' = {}
    /\ callbacks' = FALSE
    /\ call' = [c \in Caller |->
            [call[c] EXCEPT !.pc = "idle", !.i = 1, !.kind = "register", !.clean = FALSE]]
    /\ report' = {}
    /\ known' = [n \in Node |-> NoBeat]
    /\ registered' = {}
    /\ intact' = {}
    /\ owed' = {}
    /\ UNCHANGED <<now, base, retained>>

(* main registers the callbacks some time after Start.                     *)
RegisterCallback ==
    /\ ~callbacks
    /\ callbacks' = TRUE
    /\ Silent
    /\ UNCHANGED <<now, base, retained, client, inbox, handling, call,
                   history, left>>

-----------------------------------------------------------------------------
(* RegisterNode and UnRegisterNode.                                        *)

(* The vnode controller calls them for nodes it was told of.               *)
CallMethod(c, kind, n) ==
    /\ known[n] # NoBeat
    /\ left.calls > 0
    /\ call[c].pc = "idle"
    /\ LET rivals == {d \in Caller : call[d].pc # "idle" /\ call[d].node = n} IN
       call' = [d \in Caller |->
           IF d = c THEN [pc |-> "next", node |-> n, i |-> 1, kind |-> kind,
                          clean |-> rivals = {}]
           ELSE IF d \in rivals THEN [call[d] EXCEPT !.clean = FALSE] ELSE call[d]]
    /\ left' = [left EXCEPT !.calls = @ - 1]
    /\ registered' = IF kind = "unregister" THEN registered \ {n} ELSE registered
    /\ intact' = intact \ {n}
    /\ owed' = IF kind = "unregister" THEN {m \in owed : m.node # n} ELSE owed
    /\ Silent
    /\ UNCHANGED <<now, base, retained, client, inbox, handling, callbacks>>

At(c, pc, kind) == call[c].pc = pc /\ call[c].kind = kind
Returned(c) == [call EXCEPT ![c].pc = "idle", ![c].i = 1, ![c].kind = "register",
                            ![c].clean = FALSE]

(* Sub adds the route and sends the request ...                            *)
SubSends(c) ==
    /\ At(c, "next", "register")
    /\ call[c].i <= Len(NodeTopics)
    /\ connected
    /\ call' = [call EXCEPT ![c].pc = "sent"]
    /\ routes' = routes \cup {<<NodeTopics[call[c].i], call[c].node>>}
    /\ Silent
    /\ UNCHANGED <<now, base, retained, connected, greeting, subs, inbox,
                   handling, callbacks, history, left>>

(* ... and waits until the broker has taken it.                            *)
SubReturns(c) ==
    /\ At(c, "sent", "register")
    /\ call' = [call EXCEPT ![c].pc = "next", ![c].i = @ + 1]
    /\ Subscribed({<<NodeTopics[call[c].i], call[c].node>>})
    /\ Silent
    /\ UNCHANGED <<now, base, retained, connected, greeting, handling,
                   callbacks, history, left>>

SubFailed(c) ==
    \/ At(c, "failed", "register")
    \/ At(c, "next", "register") /\ call[c].i <= Len(NodeTopics) /\ ~connected

(* Faulty variant: goes on with the next topic.                            *)
RegisterNodeGoesOn(c) ==
    /\ SubFailed(c)
    /\ call' = [call EXCEPT ![c].pc = "next", ![c].i = @ + 1, ![c].clean = connected]
    /\ Silent
    /\ UNCHANGED <<now, base, retained, client, inbox, handling, callbacks,
                   history, left>>

(* The first error is returned; the topics before it stay subscribed.      *)
RegisterNodeFails(c) ==
    /\ SubFailed(c)
    /\ call' = Returned(c)
    /\ Silent
    /\ UNCHANGED <<now, base, retained, client, inbox, handling, callbacks,
                   history, left>>

RegisterNodeReturns(c) ==
    /\ At(c, "next", "register")
    /\ call[c].i > Len(NodeTopics)
    /\ call' = Returned(c)
    /\ registered' = registered \cup {call[c].node}
    /\ intact' = IF call[c].clean THEN intact \cup {call[c].node} ELSE intact
    /\ Silent
    /\ UNCHANGED <<now, base, retained, client, inbox, handling, callbacks,
                   owed, left>>

(* Faulty variant: one topic is forgotten.                                 *)
UnRegisterTopicsForgotten == <<"health", "biz", "bizOperation">>

(* UnRegisterNode leaves the batch topic.                                  *)
UnRegisterTopics == <<"health", "simpleBiz", "biz", "bizOperation">>

(* UnSub does not wait and drops the error of a client that is not         *)
(* connected, which keeps its route.                                       *)
UnSub(c) ==
    /\ At(c, "next", "unregister")
    /\ call[c].i <= Len(UnRegisterTopics)
    /\ call' = [call EXCEPT ![c].i = @ + 1, ![c].clean = @ /\ connected]
    /\ LET channel == {<<UnRegisterTopics[call[c].i], call[c].node>>} IN
       /\ subs' = IF connected THEN subs \ channel ELSE subs
       /\ routes' = IF connected THEN routes \ channel ELSE routes
    /\ Silent
    /\ UNCHANGED <<now, base, retained, connected, greeting, inbox, handling,
                   callbacks, history, left>>

UnRegisterNodeReturns(c) ==
    /\ At(c, "next", "unregister")
    /\ call[c].i > Len(UnRegisterTopics)
    /\ call' = Returned(c)
    /\ intact' = IF call[c].clean THEN intact \cup {call[c].node} ELSE intact
    /\ Silent
    /\ UNCHANGED <<now, base, retained, client, inbox, handling, callbacks,
                   registered, owed, left>>

-----------------------------------------------------------------------------
(* Incoming messages.                                                      *)

(* Faulty variant: SetOrderMatters(false), callbacks run in goroutines of  *)
(* their own.                                                              *)
DispatchUnordered ==
    /\ handling = {}
    /\ \E i \in DOMAIN inbox :
       /\ inbox' = SubSeq(inbox, 1, i - 1) \o SubSeq(inbox, i + 1, Len(inbox))
       /\ handling' = IF Channel(inbox[i]) \in routes THEN {inbox[i]} ELSE {}
    /\ Silent
    /\ UNCHANGED <<now, base, retained, client, callbacks, call, history, left>>

(* With the options NewMqttClient sets, the client takes the next message  *)
(* and looks its callback up; without one the default handler drops it.    *)
Dispatch ==
    /\ handling = {}
    /\ inbox # <<>>
    /\ inbox' = Tail(inbox)
    /\ handling' = IF Channel(Head(inbox)) \in routes THEN {Head(inbox)} ELSE {}
    /\ Silent
    /\ UNCHANGED <<now, base, retained, client, callbacks, call, history, left>>

Expired(m) == m.sent + Lifetime <= now

(* Responses to operations and batches are checked neither for their age   *)
(* nor for a callback.                                                     *)
Unchecked == {"bizOperation", "batchInstall"}

(* A baseline query is answered by the tunnel itself, callbacks or not.    *)
Heard(m) == callbacks \/ m.topic = "queryBaseline"

(* Faulty variant: a list of modules is not checked for its age.           *)
PassesForgotten(m) ==
    /\ m.body # "ignored"
    /\ m.topic \in Unchecked \/ (Heard(m) /\ (Expired(m) => m.topic = "simpleBiz"))

(* Faulty variant: an unreadable message is passed on.                     *)
PassesUnread(m) == m.topic \in Unchecked \/ (Heard(m) /\ ~Expired(m))

(* What a callback passes on.                                              *)
Passes(m) ==
    /\ m.body # "ignored"
    /\ m.topic \in Unchecked \/ (Heard(m) /\ ~Expired(m))

(* heartBeatMsgCallback, queryBaselineMsgCallback, healthMsgCallback,      *)
(* bizMsgCallback, allBizMsgCallback, bizOperationResponseCallback or      *)
(* batchInstallBizResponseCallback.                                        *)
Callback(m) ==
    /\ m \in handling
    /\ handling' = {}
    /\ report' = IF Passes(m) THEN {m} ELSE {}
    /\ known' = IF Passes(m) /\ m.topic = "heart"
                THEN [known EXCEPT ![m.node] = [life |-> m.life, state |-> m.body]]
                ELSE known
    /\ owed' = owed \ {m}
    /\ UNCHANGED <<now, base, retained, client, inbox, callbacks, call,
                   registered, intact, left>>

-----------------------------------------------------------------------------
Call(c) ==
    \/ SubSends(c)
    \/ SubReturns(c)
    \/ RegisterNodeFails(c)
    \/ RegisterNodeReturns(c)
    \/ UnSub(c)
    \/ UnRegisterNodeReturns(c)

Bodies(topic) == {"ignored"} \cup (IF topic = "heart" THEN {} ELSE {"data"})

Next ==
    \/ Tick
    \/ \E n \in Node : BaseStarts(n) \/ BaseExits(n) \/ BaseCrashes(n) \/ BaseBeats(n)
    \/ \E n \in Node, topic \in Published : \E body \in Bodies(topic) :
           BasePublishes(n, topic, body)
    \/ Connect \/ Lose \/ ProcessRestarts \/ RegisterCallback
    \/ \E topic \in SharedTopics : Greet(topic)
    \/ \E c \in Caller, n \in Node, kind \in {"register", "unregister"} :
           CallMethod(c, kind, n)
    \/ \E c \in Caller : Call(c)
    \/ Dispatch
    \/ \E m \in handling : Callback(m)

Spec == Init /\ [][Next]_vars

(* The client reconnects and hands out what it receives, main registers    *)
(* the callbacks, calls go on, and a running base repeats its heartbeat.   *)
Fairness ==
    /\ WF_vars(Connect) /\ WF_vars(RegisterCallback) /\ WF_vars(Dispatch)
    /\ WF_vars(\E topic \in SharedTopics : Greet(topic))
    /\ WF_vars(\E m \in handling : Callback(m))
    /\ \A c \in Caller : WF_vars(Call(c))
    /\ \A n \in Node : WF_vars(BaseBeats(n))

FairSpec == Spec /\ Fairness

-----------------------------------------------------------------------------
(* Every variable stays in its domain.                                     *)
TypeOK ==
    /\ now \in Nat
    /\ up \in SUBSET Node
    /\ life \in [Node -> Nat]
    /\ lastUp \in [Node -> Nat]
    /\ retained \in SUBSET Message
    /\ connected \in BOOLEAN
    /\ greeting \in SUBSET SharedTopics
    /\ subs \in SUBSET (Topic \X Node)
    /\ routes \in SUBSET (Topic \X Node)
    /\ inbox \in Seq(Message)
    /\ handling \in SUBSET Message
    /\ callbacks \in BOOLEAN
    /\ call \in [Caller -> CallState]
    /\ report \in SUBSET Message
    /\ known \in [Node -> [life : Nat, state : {"none", "ACTIVATED", "DEACTIVATED"}]]
    /\ registered \in SUBSET Node
    /\ intact \in SUBSET Node
    /\ owed \in SUBSET Message
    /\ left \in
           [ticks : Nat, messages : Nat, starts : Nat, losses : Nat, calls : Nat]

(* A base that no longer runs falls silent one Lifetime later, however     *)
(* often the broker repeats what it retained of it and however long its    *)
(* messages wait: no heartbeat, baseline query, health or list of modules  *)
(* of it is passed on.                                                     *)
DeadStaySilent ==
    \A m \in report : m.topic \notin Unchecked =>
        m.node \in up \/ now < lastUp[m.node] + Lifetime

(* A node whose RegisterNode returned nil, with neither a lost connection  *)
(* nor another call for the node meanwhile or since, is subscribed with    *)
(* its callbacks to all its topics.                                        *)
RegisteredHears ==
    \A n \in registered \cap intact, i \in DOMAIN NodeTopics :
        <<NodeTopics[i], n>> \in subs \cap routes

(* After an undisturbed UnRegisterNode no message of the node's health,    *)
(* lists or operations is handed to a callback, whatever earlier           *)
(* registrations left behind and whatever still waits in the client.       *)
UnregisteredSilent ==
    [][\A n \in intact \ registered, m \in handling' \ handling :
           m.node = n => m.topic \in SharedTopics \cup {"batchInstall"}]_vars

Rank(beat) == 2 * beat.life + (IF beat.state = "DEACTIVATED" THEN 1 ELSE 0)

(* A heartbeat is never passed on after a later one of its base: a base    *)
(* that said DEACTIVATED is not brought back by an earlier message that    *)
(* was queued or retained.                                                 *)
HeartbeatsInOrder ==
    [][\A n \in Node : known'[n] = NoBeat \/ Rank(known[n]) <= Rank(known'[n])]_vars

(* A base that keeps running becomes known, also when its first            *)
(* heartbeats came before the connection, the callbacks or a loss of the   *)
(* connection.                                                             *)
BasesDiscovered ==
    <>[](\A n \in up : known[n] = [life |-> life[n], state |-> "ACTIVATED"])

(* "Qos1 means message must be consumed" (mqtt.go): a response that is     *)
(* published for a registered node reaches its callback.                   *)
ResponsesConsumed ==
    \A n \in Node : (\E m \in owed : m.node = n) ~> (\A m \in owed : m.node # n)
=============================================================================
