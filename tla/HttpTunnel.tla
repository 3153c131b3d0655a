------------------------------ MODULE HttpTunnel ------------------------------
(***************************************************************************)
(* The HTTP tunnel: addresses of bases, heartbeats and commands            *)
(* (src/module_tunnels/koupleless_http_tunnel/http_tunnel.go).             *)
(*                                                                         *)
(* A base announces its address with heartbeats; the tunnel keeps the      *)
(* addresses in nodeIdToBaseStatusMap, under its mutex.  Every command     *)
(* reads the address under the mutex and calls it after the unlock.        *)
(* Heartbeats are reported to the vnode controller outside the mutex.      *)
(*                                                                         *)
(* An address is the number of the incarnation of the base that has it:    *)
(* each start of a base gives it a new one.  Heartbeats are handled by the *)
(* goroutines of the discovery server (Handler), all other methods run in  *)
(* goroutines of the vnode controller (Caller).  QueryAllBizStatusData has *)
(* its own module, BizStatusQuery.                                         *)
(***************************************************************************)
EXTENDS Integers, FiniteSets

CONSTANTS
    Node,
    Handler,            \* heartbeats that may be handled at once
    Caller,             \* methods that may be called at once
    MaxStarts,          \* bound: starts of bases after the first
    MaxCalls            \* bound: method calls of the vnode controller

ASSUME TunnelBounds == {MaxStarts, MaxCalls} \subseteq Nat
ASSUME SlotAssumption == Handler \cap Caller = {}

VARIABLES
    incarnation,    \* starts of each base, so its present address
    up,             \* the bases that run
    installed,      \* the bases that have the module
    address,        \* nodeIdToBaseStatusMap: an address, or 0 for none
    holder,         \* who holds the tunnel's mutex: nobody or one task
    task,           \* heartbeats and calls under way
    callbacks,      \* has RegisterCallback run
    discovered,     \* the address onBaseDiscovered was last given, or 0
    reported,       \* the state onOneBizDataArrived was last given
    beat,           \* history: the last heartbeat stored since UnRegisterNode
    owed,           \* history: commands that found an address and have not
                    \* called onOneBizDataArrived, the last of each caller
    carried,        \* history: calls the base carried out, the last of each caller
    left            \* what is left of each bound

bases == <<incarnation, up, installed>>
vars == <<bases, address, holder, task, callbacks, discovered, reported,
          beat, owed, carried, left>>

Task == Handler \cup Caller
Command == {"start", "stop"}
Method == {"register", "unregister", "health"} \cup Command
Outcome == {"none", "SUCCESS", "FAILED", "error"}

TaskState == [pc : {"idle", "begin", "locked", "report", "calling", "answered"},
              kind : Method \cup {"heartbeat"}, node : Node, address : Nat,
              outcome : Outcome]

Init ==
    /\ incarnation = [n \in Node |-> 1]
    /\ up = Node
    /\ installed = {}
    /\ address = [n \in Node |-> 0]
    /\ holder = {}
    /\ task \in [Task -> [pc : {"idle"}, kind : {"heartbeat"}, node : Node,
                          address : {0}, outcome : {"none"}]]
    /\ callbacks = FALSE
    /\ discovered = [n \in Node |-> 0]
    /\ reported = [n \in Node |-> "none"]
    /\ beat = [n \in Node |-> 0]
    /\ owed = {}
    /\ carried = {}
    /\ left = [starts |-> MaxStarts, calls |-> MaxCalls]

At(t, pc, kinds) == task[t].pc = pc /\ task[t].kind \in kinds

Begin(t, kind, n, a) ==
    /\ task[t].pc = "idle"
    /\ task' = [task EXCEPT ![t] = [pc |-> "begin", kind |-> kind, node |-> n,
                                    address |-> a, outcome |-> "none"]]

Goto(t, pc) == task' = [task EXCEPT ![t].pc = pc]

-----------------------------------------------------------------------------
(* The surroundings.                                                       *)

BaseStops(n) ==
    /\ n \in up
    /\ left.starts > 0
    /\ up' = up \ {n}
    /\ installed' = installed \ {n}
    /\ UNCHANGED <<incarnation, address, holder, task, callbacks, discovered,
                   reported, beat, owed, carried, left>>

BaseStarts(n) ==
    /\ n \notin up
    /\ left.starts > 0
    /\ up' = up \cup {n}
    /\ incarnation' = [incarnation EXCEPT ![n] = @ + 1]
    /\ left' = [left EXCEPT !.starts = @ - 1]
    /\ UNCHANGED <<installed, address, holder, task, callbacks, discovered,
                   reported, beat, owed, carried>>

(* A running base posts /heartbeat.                                        *)
Heartbeat(t, n) ==
    /\ n \in up
    /\ Begin(t, "heartbeat", n, incarnation[n])
    /\ UNCHANGED <<bases, address, holder, callbacks, discovered, reported,
                   beat, owed, carried, left>>

(* The vnode controller calls a method; it registers a node with the       *)
(* address it was last told.                                               *)
CallMethod(t, kind, n) ==
    /\ callbacks
    /\ left.calls > 0
    /\ discovered[n] # 0
    /\ Begin(t, kind, n, IF kind = "register" THEN discovered[n] ELSE 0)
    /\ owed' = owed \ {t}
    /\ carried' = carried \ {t}
    /\ left' = [left EXCEPT !.calls = @ - 1]
    /\ UNCHANGED <<bases, address, holder, callbacks, discovered, reported, beat>>

(* The discovery server runs since Start, the callbacks come later.        *)
RegisterCallback ==
    /\ ~callbacks
    /\ callbacks' = TRUE
    /\ UNCHANGED <<bases, address, holder, task, discovered, reported, beat,
                   owed, carried, left>>

-----------------------------------------------------------------------------
(* The mutex.                                                              *)

Lock(t) ==
    /\ task[t].pc = "begin"
    /\ holder = {}
    /\ holder' = {t}
    /\ Goto(t, "locked")
    /\ UNCHANGED <<bases, address, callbacks, discovered, reported, beat, owed, carried, left>>

Unlock == holder' = {}

(* Faulty variant: keeps the address it has.                               *)
StoreHeartbeatOnce(t) ==
    /\ At(t, "locked", {"heartbeat"})
    /\ address' = [address EXCEPT ![task[t].node] =
            IF @ = 0 THEN task[t].address ELSE @]
    /\ beat' = [beat EXCEPT ![task[t].node] = task[t].address]
    /\ Unlock
    /\ Goto(t, "report")
    /\ UNCHANGED <<bases, callbacks, discovered, reported, owed, carried, left>>

(* The handler of /heartbeat.                                              *)
StoreHeartbeat(t) ==
    /\ At(t, "locked", {"heartbeat"})
    /\ address' = [address EXCEPT ![task[t].node] = task[t].address]
    /\ beat' = [beat EXCEPT ![task[t].node] = task[t].address]
    /\ Unlock
    /\ Goto(t, "report")
    /\ UNCHANGED <<bases, callbacks, discovered, reported, owed, carried, left>>

(* Without a callback the call of a nil function panics; the HTTP server   *)
(* recovers and closes the connection.                                     *)
ReportHeartbeat(t) ==
    /\ task[t].pc = "report"
    /\ discovered' = IF callbacks
                     THEN [discovered EXCEPT ![task[t].node] = task[t].address]
                     ELSE discovered
    /\ Goto(t, "idle")
    /\ UNCHANGED <<bases, address, holder, callbacks, reported, beat, owed, carried, left>>

(* Faulty variant: takes the address of its argument in any case.          *)
RegisterNodeAlways(t) ==
    /\ At(t, "locked", {"register"})
    /\ address' = [address EXCEPT ![task[t].node] = task[t].address]
    /\ Unlock
    /\ Goto(t, "idle")
    /\ UNCHANGED <<bases, callbacks, discovered, reported, beat, owed, carried, left>>

(* "check base network info, if not exist, extract from initData"          *)
RegisterNode(t) ==
    /\ At(t, "locked", {"register"})
    /\ address' = [address EXCEPT ![task[t].node] =
            IF @ = 0 THEN task[t].address ELSE @]
    /\ Unlock
    /\ Goto(t, "idle")
    /\ UNCHANGED <<bases, callbacks, discovered, reported, beat, owed, carried, left>>

UnRegisterNode(t) ==
    /\ At(t, "locked", {"unregister"})
    /\ address' = [address EXCEPT ![task[t].node] = 0]
    /\ beat' = [beat EXCEPT ![task[t].node] = 0]
    /\ Unlock
    /\ Goto(t, "idle")
    /\ UNCHANGED <<bases, callbacks, discovered, reported, owed, carried, left>>

(* Faulty variant: the error return comes before the unlock.               *)
LookupErrorKeepsLock(t) ==
    /\ At(t, "locked", {"health"} \cup Command)
    /\ LET a == address[task[t].node] IN
       /\ task' = [task EXCEPT ![t].pc = IF a = 0 THEN "idle" ELSE "calling",
                               ![t].address = a]
       /\ owed' = IF a # 0 /\ task[t].kind \in Command THEN owed \cup {t} ELSE owed
       /\ holder' = IF a = 0 THEN holder ELSE {}
    /\ UNCHANGED <<bases, address, callbacks, discovered, reported, beat, carried, left>>

(* FetchHealthData, StartBiz and StopBiz read the address; without one     *)
(* they return the error "network info not found".                         *)
Lookup(t) ==
    /\ At(t, "locked", {"health"} \cup Command)
    /\ LET a == address[task[t].node] IN
       /\ task' = [task EXCEPT ![t].pc = IF a = 0 THEN "idle" ELSE "calling",
                               ![t].address = a]
       /\ owed' = IF a # 0 /\ task[t].kind \in Command THEN owed \cup {t} ELSE owed
    /\ Unlock
    /\ UNCHANGED <<bases, address, callbacks, discovered, reported, beat, carried, left>>

-----------------------------------------------------------------------------
(* HTTP calls of ark_service.                                              *)

(* The base at the address carries the request out, or refuses it with a   *)
(* code other than SUCCESS.                                                *)
BaseAnswers(t, code) ==
    /\ task[t].pc = "calling"
    /\ task[t].node \in up
    /\ incarnation[task[t].node] = task[t].address
    /\ task' = [task EXCEPT ![t].pc = "answered", ![t].outcome = code]
    /\ installed' =
        CASE code = "SUCCESS" /\ task[t].kind = "start" -> installed \cup {task[t].node}
          [] code = "SUCCESS" /\ task[t].kind = "stop" -> installed \ {task[t].node}
          [] OTHER -> installed
    /\ carried' = IF code = "SUCCESS" THEN carried \cup {t} ELSE carried
    /\ UNCHANGED <<incarnation, up, address, holder, callbacks, discovered,
                   reported, beat, owed, left>>

(* Nobody is at the address, the connection breaks before or after the     *)
(* request was carried out, or the answer is no JSON with status 200.      *)
CallFails(t) ==
    /\ task[t].pc \in {"calling", "answered"}
    /\ task[t].outcome # "error"
    /\ task' = [task EXCEPT ![t].pc = "answered", ![t].outcome = "error"]
    /\ UNCHANGED <<bases, address, holder, callbacks, discovered, reported,
                   beat, owed, carried, left>>

(* FetchHealthData returns; healthMsgCallback changes nothing here.        *)
HealthReturns(t) ==
    /\ At(t, "answered", {"health"})
    /\ Goto(t, "idle")
    /\ UNCHANGED <<bases, address, holder, callbacks, discovered, reported,
                   beat, owed, carried, left>>

(* Faulty variant: returns the error of the call at once.                  *)
CommandReturnsEarly(t) ==
    /\ At(t, "answered", Command)
    /\ Goto(t, "idle")
    /\ IF \/ task[t].outcome = "error"
          \/ task[t].outcome = "SUCCESS" /\ task[t].kind = "stop"
       THEN UNCHANGED <<reported, owed>>
       ELSE /\ reported' = [reported EXCEPT ![task[t].node] =
                    IF task[t].outcome = "SUCCESS" THEN "ACTIVATED" ELSE "BROKEN"]
            /\ owed' = owed \ {t}
    /\ UNCHANGED <<bases, address, holder, callbacks, discovered, beat, carried, left>>

(* bizOperationResponseCallback: an answer that is not SUCCESS, and no     *)
(* answer at all, is reported as broken; a successful stop returns without *)
(* a call of onOneBizDataArrived.                                          *)
CommandReturns(t) ==
    /\ At(t, "answered", Command)
    /\ Goto(t, "idle")
    /\ IF task[t].outcome = "SUCCESS" /\ task[t].kind = "stop"
       THEN UNCHANGED <<reported, owed>>
       ELSE /\ reported' = [reported EXCEPT ![task[t].node] =
                    IF task[t].outcome = "SUCCESS" THEN "ACTIVATED" ELSE "BROKEN"]
            /\ owed' = owed \ {t}
    /\ UNCHANGED <<bases, address, holder, callbacks, discovered, beat, carried, left>>

-----------------------------------------------------------------------------
Locked(t) ==
    \/ StoreHeartbeat(t)
    \/ RegisterNode(t)
    \/ UnRegisterNode(t)
    \/ Lookup(t)

Finish(t) == ReportHeartbeat(t) \/ HealthReturns(t) \/ CommandReturns(t)

Next ==
    \/ \E n \in Node : BaseStops(n) \/ BaseStarts(n)
    \/ \E t \in Handler, n \in Node : Heartbeat(t, n)
    \/ \E t \in Caller, n \in Node, kind \in Method : CallMethod(t, kind, n)
    \/ RegisterCallback
    \/ \E t \in Task : Lock(t) \/ Locked(t) \/ CallFails(t) \/ Finish(t)
    \/ \E t \in Caller, code \in {"SUCCESS", "FAILED"} : BaseAnswers(t, code)

Spec == Init /\ [][Next]_vars

(* Goroutines run, sync.Mutex lets nobody starve, main registers the       *)
(* callbacks and a running base repeats its heartbeat.  The end of an HTTP *)
(* call is not assumed: the client has no timeout.                         *)
Fairness ==
    /\ \A t \in Task : SF_vars(Lock(t)) /\ WF_vars(Locked(t)) /\ WF_vars(Finish(t))
    /\ WF_vars(RegisterCallback)
    /\ \A n \in Node : SF_vars(\E t \in Handler : Heartbeat(t, n))

FairSpec == Spec /\ Fairness

-----------------------------------------------------------------------------
(* Every variable stays in its domain.                                     *)
TypeOK ==
    /\ incarnation \in [Node -> Nat \ {0}]
    /\ up \in SUBSET Node
    /\ installed \in SUBSET up
    /\ address \in [Node -> Nat]
    /\ holder \in SUBSET Task
    /\ task \in [Task -> TaskState]
    /\ callbacks \in BOOLEAN
    /\ discovered \in [Node -> Nat]
    /\ reported \in [Node -> {"none", "ACTIVATED", "BROKEN"}]
    /\ beat \in [Node -> Nat]
    /\ owed \in SUBSET Task
    /\ carried \in SUBSET Task
    /\ left \in [starts : Nat, calls : Nat]

(* The mutex is held exactly by the one task between Lock and Unlock, on   *)
(* every path of every method, the error returns included.                 *)
MutexHeld ==
    \A t \in Task : task[t].pc = "locked" <=> holder = {t}

(* RegisterNode never puts an address of the vnode controller, which may   *)
(* be that of an earlier incarnation, over one that a heartbeat brought:   *)
(* since the last UnRegisterNode the last heartbeat decides.               *)
HeartbeatWins == \A n \in Node : beat[n] # 0 => address[n] = beat[n]

(* A command that found the address of its base tells the vnode controller *)
(* an outcome before it returns, whatever becomes of the HTTP call.  The   *)
(* one command that returns without a word is a stop that the base has     *)
(* carried out: then nothing is left at the base that anyone would miss.   *)
OutcomesReported ==
    \A t \in owed : task[t].pc = "idle" => task[t].kind = "stop" /\ t \in carried

(* A heartbeat is stored and answered even if bases never answer their     *)
(* commands: nobody calls out while holding the mutex.                     *)
HeartbeatsServed ==
    \A t \in Handler : task[t].pc = "begin" ~> task[t].pc = "idle"

(* When bases stop restarting, the tunnel and the vnode controller come to *)
(* know the present address of every running base, whatever happened       *)
(* before: heartbeats before RegisterCallback, delayed heartbeats of dead  *)
(* incarnations, stale registrations and unregistrations of living nodes.  *)
BasesFollowed ==
    <>[](\A n \in up : address[n] = incarnation[n] /\ discovered[n] = incarnation[n])
=============================================================================
