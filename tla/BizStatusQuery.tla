---------------------------- MODULE BizStatusQuery ----------------------------
(***************************************************************************)
(* QueryAllBizStatusData of the HTTP tunnel                                *)
(* (src/module_tunnels/koupleless_http_tunnel/http_tunnel.go).             *)
(*                                                                         *)
(* The tunnel serves every base with one queryAllBizLock: a call that      *)
(* finds it taken does not wait, it leaves a mark (queryAllBizDataOutdated)*)
(* and returns nil; the call that holds the lock looks for the mark after  *)
(* it unlocked and, if it is there, starts a query of its own node again.  *)
(* The mark is a plain field, written and read outside the lock.           *)
(*                                                                         *)
(* A call is a slot of Call.  The goroutine that repeats a query takes the *)
(* slot of the call that starts it, which returns at that moment.          *)
(***************************************************************************)
EXTENDS Integers, FiniteSets

CONSTANTS
    Node,
    Call,               \* calls that may be under way at once
    MaxRequests,        \* bound: calls made by the vnode controller
    MaxBizChanges,      \* bound: changes of the modules of a base
    MaxKnownChanges     \* bound: (un)registrations of vnodes

ASSUME QueryBounds == {MaxRequests, MaxBizChanges, MaxKnownChanges} \subseteq Nat

VARIABLES
    call,           \* the calls under way
    locked,         \* queryAllBizLock
    outdated,       \* queryAllBizDataOutdated
    known,          \* the nodes with an address in nodeIdToBaseStatusMap
    biz,            \* how often the modules of each base have changed
    delivered,      \* the state onQueryAllBizDataArrived was last given
    pending,        \* history: nodes asked for, not queried since
    left            \* what is left of each bound

vars == <<call, locked, outdated, known, biz, delivered, pending, left>>

CallPc == {"idle", "start", "refused", "locked", "lookup", "calling",
           "answered", "unlock", "check"}
CallState == [pc : CallPc, node : Node, seen : Nat]
Left == [requests : Nat, biz : Nat, known : Nat]

Init ==
    /\ call \in [Call -> [pc : {"idle"}, node : Node, seen : {0}]]
    /\ locked = FALSE
    /\ outdated = FALSE
    /\ known = Node
    /\ biz = [n \in Node |-> 0]
    /\ delivered = [n \in Node |-> 0]
    /\ pending = {}
    /\ left = [requests |-> MaxRequests, biz |-> MaxBizChanges, known |-> MaxKnownChanges]

Goto(c, pc) == call' = [call EXCEPT ![c].pc = pc]

-----------------------------------------------------------------------------
(* The surroundings.                                                       *)

Request(c, n) ==
    /\ left.requests > 0
    /\ call[c].pc = "idle"
    /\ call' = [call EXCEPT ![c] = [pc |-> "start", node |-> n, seen |-> 0]]
    /\ pending' = pending \cup {n}
    /\ left' = [left EXCEPT !.requests = @ - 1]
    /\ UNCHANGED <<locked, outdated, known, biz, delivered>>

BizChanges(n) ==
    /\ left.biz > 0
    /\ biz' = [biz EXCEPT ![n] = @ + 1]
    /\ left' = [left EXCEPT !.biz = @ - 1]
    /\ UNCHANGED <<call, locked, outdated, known, delivered, pending>>

(* RegisterNode or a heartbeat adds an address, UnRegisterNode drops it.   *)
KnownChanges(n) ==
    /\ left.known > 0
    /\ known' = IF n \in known THEN known \ {n} ELSE known \cup {n}
    /\ left' = [left EXCEPT !.known = @ - 1]
    /\ UNCHANGED <<call, locked, outdated, biz, delivered, pending>>

-----------------------------------------------------------------------------
(* One call of QueryAllBizStatusData.                                      *)

(* Faulty variant: goes on whether or not TryLock succeeded.               *)
TryLockUnchecked(c) ==
    /\ call[c].pc = "start"
    /\ Goto(c, "locked")
    /\ locked' = TRUE
    /\ UNCHANGED <<outdated, known, biz, delivered, pending, left>>

TryLock(c) ==
    /\ call[c].pc = "start"
    /\ Goto(c, IF locked THEN "refused" ELSE "locked")
    /\ locked' = TRUE
    /\ UNCHANGED <<outdated, known, biz, delivered, pending, left>>

(* "a query is processing": leave the mark and return nil.                 *)
MarkOutdated(c) ==
    /\ call[c].pc = "refused"
    /\ outdated' = TRUE
    /\ Goto(c, "idle")
    /\ UNCHANGED <<locked, known, biz, delivered, pending, left>>

(* Faulty variant: the mark of an earlier query is left.                   *)
ResetForgotten(c) ==
    /\ call[c].pc = "locked"
    /\ Goto(c, "lookup")
    /\ UNCHANGED <<locked, outdated, known, biz, delivered, pending, left>>

ResetOutdated(c) ==
    /\ call[c].pc = "locked"
    /\ outdated' = FALSE
    /\ Goto(c, "lookup")
    /\ UNCHANGED <<locked, known, biz, delivered, pending, left>>

(* Faulty variant: the error return comes before the deferred function is  *)
(* in place.                                                               *)
LookupBeforeDefer(c) ==
    /\ call[c].pc = "lookup"
    /\ IF call[c].node \in known
       THEN Goto(c, "calling") /\ UNCHANGED pending
       ELSE Goto(c, "idle") /\ pending' = pending \ {call[c].node}
    /\ UNCHANGED <<locked, outdated, known, biz, delivered, left>>

(* "network info not found" is returned for a node without an address.     *)
Lookup(c) ==
    /\ call[c].pc = "lookup"
    /\ IF call[c].node \in known
       THEN Goto(c, "calling") /\ UNCHANGED pending
       ELSE Goto(c, "unlock") /\ pending' = pending \ {call[c].node}
    /\ UNCHANGED <<locked, outdated, known, biz, delivered, left>>

(* The base reads its modules and answers.                                 *)
BaseAnswers(c) ==
    /\ call[c].pc = "calling"
    /\ call' = [call EXCEPT ![c].pc = "answered", ![c].seen = biz[call[c].node]]
    /\ pending' = pending \ {call[c].node}
    /\ UNCHANGED <<locked, outdated, known, biz, delivered, left>>

(* Transport error, status other than 200 or an undecodable body.          *)
BaseFails(c) ==
    /\ call[c].pc = "calling"
    /\ Goto(c, "unlock")
    /\ pending' = pending \ {call[c].node}
    /\ UNCHANGED <<locked, outdated, known, biz, delivered, left>>

(* allBizMsgCallback hands a SUCCESS over and drops every other code.      *)
Deliver(c) ==
    /\ call[c].pc = "answered"
    /\ Goto(c, "unlock")
    /\ delivered' \in {delivered, [delivered EXCEPT ![call[c].node] = call[c].seen]}
    /\ UNCHANGED <<locked, outdated, known, biz, pending, left>>

(* The deferred function: unlock, then look for the mark.                  *)
Unlock(c) ==
    /\ call[c].pc = "unlock"
    /\ locked' = FALSE
    /\ Goto(c, "check")
    /\ UNCHANGED <<outdated, known, biz, delivered, pending, left>>

(* Faulty variant: nobody looks for the mark.                              *)
CheckNothing(c) ==
    /\ call[c].pc = "check"
    /\ Goto(c, "idle")
    /\ UNCHANGED <<locked, outdated, known, biz, delivered, pending, left>>

CheckOutdated(c) ==
    /\ call[c].pc = "check"
    /\ Goto(c, IF outdated THEN "start" ELSE "idle")
    /\ UNCHANGED <<locked, outdated, known, biz, delivered, pending, left>>

Step(c) ==
    \/ TryLock(c)
    \/ MarkOutdated(c)
    \/ ResetOutdated(c)
    \/ Lookup(c)
    \/ Deliver(c)
    \/ Unlock(c)
    \/ CheckOutdated(c)

Next ==
    \/ \E c \in Call, n \in Node : Request(c, n)
    \/ \E n \in Node : BizChanges(n) \/ KnownChanges(n)
    \/ \E c \in Call : Step(c) \/ BaseAnswers(c) \/ BaseFails(c)

Spec == Init /\ [][Next]_vars

(* A goroutine that can run goes on running.  Callers and bases owe        *)
(* nothing: the HTTP client of ark_service has no timeout, so a base that  *)
(* takes a connection and never answers keeps its caller, and the lock.    *)
FairSpec == Spec /\ \A c \in Call : WF_vars(Step(c))

(* What the liveness properties assume of the bases: every HTTP call ends, *)
(* with an answer or an error.                                             *)
BasesAnswer == \A c \in Call : []<>(call[c].pc # "calling")

-----------------------------------------------------------------------------
(* Every variable stays in its domain.                                     *)
TypeOK ==
    /\ call \in [Call -> CallState]
    /\ locked \in BOOLEAN
    /\ outdated \in BOOLEAN
    /\ known \in SUBSET Node
    /\ biz \in [Node -> Nat]
    /\ delivered \in [Node -> Nat]
    /\ pending \in SUBSET Node
    /\ left \in Left

Querying == {c \in Call : call[c].pc \in {"locked", "lookup", "calling", "answered", "unlock"}}

(* The lock is taken exactly while one call queries a base: no path, not   *)
(* the error returns and not the repeated query, leaves it locked.         *)
LockedWhileQuerying ==
    /\ locked => \E c \in Call : Querying = {c}
    /\ ~locked => Querying = {}

(* The vnode controller never gets an older list of modules of a base      *)
(* after a newer one, although calls overlap and queries are repeated.     *)
DeliveriesInOrder ==
    [][\A n \in Node : delivered'[n] >= delivered[n]]_vars

(* Every call returns if the bases answer: repeating a query ends when     *)
(* nobody asks again.                                                      *)
CallsReturn ==
    BasesAnswer => \A c \in Call : call[c].pc # "idle" ~> call[c].pc = "idle"

(* Why: what a call has seen and not yet delivered is not older than what  *)
(* was delivered before.                                                   *)
SeenIsFresh ==
    /\ \A n \in Node : delivered[n] <= biz[n]
    /\ \A c \in Call : call[c].pc = "answered" =>
            /\ delivered[call[c].node] <= call[c].seen
            /\ call[c].seen <= biz[call[c].node]

(* The inductive invariant behind DeliveriesInOrder.                       *)
QueryInv == TypeOK /\ LockedWhileQuerying /\ SeenIsFresh

(* A request refused while a query of the same node runs is served by a    *)
(* repeated query, if the mark is set before the running query unlocks and *)
(* no call is ever for another base.                                       *)
MarkedRequestServed ==
    \A n \in Node :
        BasesAnswer /\ [](\A c \in Call : call[c].pc # "idle" => call[c].node = n) =>
            (n \in pending /\ outdated
             /\ (\E c \in Querying : call[c].node = n /\ call[c].pc # "locked")
             ~> n \notin pending)

(* "QueryAllBizStatusData queries all container status data from the node":*)
(* if the bases answer, whoever asks for a node gets a query of that node, *)
(* or an error.                                                            *)
RequestServed ==
    BasesAnswer => \A n \in Node : n \in pending ~> n \notin pending
=============================================================================
