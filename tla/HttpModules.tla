------------------------------- MODULE HttpModules ----------------------------
(***************************************************************************)
(* What the vnode controller hears of the modules of one base over HTTP:   *)
(* StartBiz, StopBiz and QueryAllBizStatusData with their callbacks        *)
(* (src/module_tunnels/koupleless_http_tunnel/http_tunnel.go) composed     *)
(* over the modules of the base that answers them                          *)
(* (src/suite/http/mock_http_base.go).                                     *)
(*                                                                         *)
(* Outcomes of commands and lists of modules reach the vnode controller by *)
(* calls of their own, and nothing orders them: what was told last need    *)
(* not be what happened last.  HttpTunnel has the addresses these calls go *)
(* to, BizStatusQuery the lock that keeps lists apart; here the base has an*)
(* address and one list is asked for at a time.                            *)
(***************************************************************************)
EXTENDS Naturals

CONSTANTS
    Biz,            \* modules: a name with a version
    Call,           \* calls of StartBiz and StopBiz at once
    MaxCommands,    \* bound: calls of StartBiz and StopBiz
    MaxFailures,    \* bound: calls that fail
    MaxRestarts     \* bound: restarts of the base

ASSUME QueryIsNoCall == "query" \notin Call

ASSUME ModuleBounds == {MaxCommands, MaxFailures, MaxRestarts} \subseteq Nat

VARIABLES
    command,        \* the calls of StartBiz and StopBiz
    query,          \* the call of QueryAllBizStatusData that has the lock
    installed,      \* BizInfos of the base
    told,           \* what the vnode controller was told last of each module
    since,          \* history: states of a module since a call began
    left            \* what is left of each bound

vars == <<command, query, installed, told, since, left>>

Query == "query"
CommandState == [pc : {"idle", "sent", "answered", "failed"},
                 kind : {"installBiz", "uninstallBiz"}, biz : Biz]
QueryState == [pc : {"idle", "reading", "failed"}, unread : SUBSET Biz, list : SUBSET Biz]
Begun == {c \in Call : command[c].pc # "idle"}
             \cup (IF query.pc = "idle" THEN {} ELSE {Query})

Init ==
    /\ command \in [Call -> [pc : {"idle"}, kind : {"installBiz"}, biz : Biz]]
    /\ query = [pc |-> "idle", unread |-> {}, list |-> {}]
    /\ installed = {}
    /\ told = [b \in Biz |-> "absent"]
    /\ since = [c \in Call \cup {Query} |-> [b \in Biz |-> {}]]
    /\ left = [commands |-> MaxCommands, failures |-> MaxFailures,
               restarts |-> MaxRestarts]

StateIn(modules, b) == IF b \in modules THEN "activated" ELSE "absent"

(* The calls in progress live through a change of the modules.             *)
Install(modules) ==
    /\ installed' = modules
    /\ since' = [c \in DOMAIN since |-> [b \in Biz |->
                    since[c][b] \cup (IF c \in Begun THEN {StateIn(modules, b)} ELSE {})]]

Begins(c) ==
    since' = [since EXCEPT ![c] = [b \in Biz |-> {StateIn(installed, b)}]]
Ends(c) == since' = [since EXCEPT ![c] = [b \in Biz |-> {}]]

-----------------------------------------------------------------------------
(* StartBiz and StopBiz.                                                   *)

SendCommand(c, kind, b) ==
    /\ left.commands > 0
    /\ command[c].pc = "idle"
    /\ command' = [command EXCEPT ![c] = [pc |-> "sent", kind |-> kind, biz |-> b]]
    /\ left' = [left EXCEPT !.commands = @ - 1]
    /\ Begins(c)
    /\ UNCHANGED <<query, installed, told>>

StartBiz(c, b) == SendCommand(c, "installBiz", b)
StopBiz(c, b) == SendCommand(c, "uninstallBiz", b)

(* The base carries a command out under its lock.  A module that is        *)
(* installed already, and one that is not, are answered SUCCESS too.       *)
ProcessInstallBiz(c) ==
    /\ command[c].pc = "sent" /\ command[c].kind = "installBiz"
    /\ Install(installed \cup {command[c].biz})
    /\ command' = [command EXCEPT ![c].pc = "answered"]
    /\ UNCHANGED <<query, told, left>>

ProcessUnInstallBiz(c) ==
    /\ command[c].pc = "sent" /\ command[c].kind = "uninstallBiz"
    /\ Install(installed \ {command[c].biz})
    /\ command' = [command EXCEPT ![c].pc = "answered"]
    /\ UNCHANGED <<query, told, left>>

(* The base is not reached or not reachable, or its answer is lost.        *)
CommandFails(c) ==
    /\ left.failures > 0
    /\ command[c].pc \in {"sent", "answered"}
    /\ command' = [command EXCEPT ![c].pc = "failed"]
    /\ left' = [left EXCEPT !.failures = @ - 1]
    /\ UNCHANGED <<query, installed, told, since>>

Tell(c, b, state) ==
    /\ told' = [told EXCEPT ![b] = state]
    /\ command' = [command EXCEPT ![c].pc = "idle"]
    /\ Ends(c)
    /\ UNCHANGED <<query, installed, left>>

(* Faulty variant: the code of the answer is not looked at.                *)
ReportUnread(c) ==
    /\ command[c].pc \in {"answered", "failed"}
    /\ LET b == command[c].biz
       IN  IF command[c].kind = "installBiz" THEN Tell(c, b, "activated")
           ELSE Tell(c, b, told[b])

(* bizOperationResponseCallback: an install that succeeded is activated,   *)
(* an uninstall that succeeded is not reported, any failure is broken.     *)
Report(c) ==
    LET b == command[c].biz
    IN  \/ /\ command[c].pc = "answered" /\ command[c].kind = "installBiz"
           /\ Tell(c, b, "activated")
        \/ /\ command[c].pc = "answered" /\ command[c].kind = "uninstallBiz"
           /\ Tell(c, b, told[b])
        \/ /\ command[c].pc = "failed"
           /\ Tell(c, b, "broken")

-----------------------------------------------------------------------------
(* QueryAllBizStatusData.                                                  *)

QueryBegins ==
    /\ query.pc = "idle"
    /\ query' = [pc |-> "reading", unread |-> Biz, list |-> {}]
    /\ Begins(Query)
    /\ UNCHANGED <<command, installed, told, left>>

(* The base lists its modules without its lock: commands come in between.  *)
QueryReads(b) ==
    /\ query.pc = "reading" /\ b \in query.unread
    /\ query' = [query EXCEPT !.unread = @ \ {b}, !.list = @ \cup ({b} \cap installed)]
    /\ UNCHANGED <<command, installed, told, since, left>>

QueryFails ==
    /\ left.failures > 0
    /\ query.pc = "reading"
    /\ query' = [query EXCEPT !.pc = "failed"]
    /\ left' = [left EXCEPT !.failures = @ - 1]
    /\ UNCHANGED <<command, installed, told, since>>

(* allBizMsgCallback: the whole list is delivered.                         *)
QueryReports ==
    /\ query.pc = "reading" /\ query.unread = {}
    /\ told' = [b \in Biz |-> StateIn(query.list, b)]
    /\ query' = [query EXCEPT !.pc = "idle"]
    /\ Ends(Query)
    /\ UNCHANGED <<command, installed, left>>

(* Faulty variant: the error return keeps the lock.                        *)
QueryReturnsLocked ==
    /\ query.pc = "failed"
    /\ UNCHANGED vars

(* An error is returned, nothing is told, the lock is given back.          *)
QueryReturns ==
    /\ query.pc = "failed"
    /\ query' = [query EXCEPT !.pc = "idle"]
    /\ Ends(Query)
    /\ UNCHANGED <<command, installed, told, left>>

(* A base that starts anew has no modules.                                 *)
BaseRestarts ==
    /\ left.restarts > 0
    /\ left' = [left EXCEPT !.restarts = @ - 1]
    /\ Install({})
    /\ UNCHANGED <<command, query, told>>

Commands(c) ==
    ProcessInstallBiz(c) \/ ProcessUnInstallBiz(c) \/ Report(c)
QuerySteps ==
    QueryBegins \/ QueryReports \/ QueryReturns \/ \E b \in Biz : QueryReads(b)

Next ==
    \/ \E c \in Call : Commands(c) \/ CommandFails(c)
    \/ \E c \in Call, b \in Biz : StartBiz(c, b) \/ StopBiz(c, b)
    \/ QuerySteps \/ QueryFails \/ BaseRestarts

Spec == Init /\ [][Next]_vars

(* The base answers, and the vnode controller asks for the list again and  *)
(* again, as it does in intervals.                                         *)
Fairness == WF_vars(QuerySteps) /\ \A c \in Call : WF_vars(Commands(c))

FairSpec == Spec /\ Fairness

-----------------------------------------------------------------------------
(* Every variable stays in its domain.                                     *)
TypeOK ==
    /\ command \in [Call -> CommandState]
    /\ query \in QueryState
    /\ installed \in SUBSET Biz
    /\ told \in [Biz -> {"absent", "activated", "broken"}]
    /\ since \in [Call \cup {Query} -> [Biz -> SUBSET {"absent", "activated"}]]
    /\ left \in [commands : Nat, failures : Nat, restarts : Nat]

(* What the vnode controller is told of a module, but for the failure of a *)
(* command, was its state at the base at some moment since the call that   *)
(* tells it began, although the list is read without the base's lock and   *)
(* commands overlap: old news is never older than its call.                *)
ToldWasTrue ==
    [][\A b \in Biz :
          told'[b] \in {told[b], "broken"}
                       \cup UNION {since[c][b] : c \in Begun \ Begun'}]_vars

(* Once the commands have ended, the lists make good what overlapping      *)
(* commands, lost answers and late lists told wrong: the vnode controller  *)
(* comes to know the modules the base has, and that for good.              *)
ListsRepairReports ==
    <>[](\A b \in Biz : told[b] = StateIn(installed, b))
=============================================================================
