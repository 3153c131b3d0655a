------------------------------- MODULE BaseNodes ------------------------------
(***************************************************************************)
(* The node object of one base: its removal when the base is unreachable   *)
(* (OnBaseUnreachable in src/common/utils/utils.go, behind OnNodeNotReady  *)
(* of both tunnels) and the way from a pod on it to the logs of its base   *)
(* (lookupBasePod in src/staging/kubelet_proxy/pod_handler.go).            *)
(*                                                                         *)
(* The base pods of the node have numbers as names and are all in one      *)
(* namespace; pods in others may have the same names.  The labels of the   *)
(* node hold the name alone, and a log request that of its own namespace,  *)
(* which need not be that of the base.  The vnode controller, which is not *)
(* in the repository, keeps the node as the base's heartbeats say.         *)
(* OnBaseUnreachable reads through a cache that trails the API server,     *)
(* lookupBasePod reads from the server.                                    *)
(***************************************************************************)
EXTENDS Naturals

CONSTANTS
    Remover,            \* calls of OnNodeNotReady at once
    Reader,             \* log requests at once
    Namespace,          \* namespaces of pods
    Home,               \* that of the base
    MaxPods,            \* bound: base pods
    MaxErrors,          \* bound: failing requests
    MaxMoves            \* bound: times pods are bound, deleted, or created elsewhere

VARIABLES
    base,           \* the base pod that runs, or 0
    basePods,       \* what the API server has of pods with such names
    bound,          \* the namespaces with a pod that is bound to the node
    vnode,          \* the node object
    cached,         \* does the cache of the tunnels' client have the node
    removal,        \* OnBaseUnreachable under way
    lookup,         \* lookupBasePod under way: the name it found, the answer
    hosts,          \* history: base pods of the node since a lookup began
    left            \* what is left of each bound

vars == <<base, basePods, bound, vnode, cached, removal, lookup, hosts, left>>

None == [exists |-> FALSE, ready |-> FALSE, baseHost |-> {}, hostname |-> 0]

Pod(namespace, name) == [namespace |-> namespace, name |-> name]

Idle == [pc |-> "idle", namespace |-> Home, name |-> 0, answer |-> Pod(Home, 0)]

Init ==
    /\ base = 0
    /\ basePods = {}
    /\ bound = {}
    /\ vnode = None
    /\ cached = FALSE
    /\ removal = [c \in Remover |-> "idle"]
    /\ lookup = [r \in Reader |-> Idle]
    /\ hosts = [r \in Reader |-> {}]
    /\ left = [pods |-> MaxPods, errors |-> MaxErrors, moves |-> MaxMoves]

(* Base pods that a lookup that runs meanwhile may answer with.            *)
Witness(pods) == hosts' = [r \in Reader |->
    IF lookup[r].pc \in {"node", "base"} THEN hosts[r] \cup pods ELSE hosts[r]]

-----------------------------------------------------------------------------
(* The surroundings.                                                       *)

BaseStarts ==
    /\ base = 0 /\ left.pods > 0
    /\ base' = MaxPods - left.pods + 1
    /\ basePods' = basePods \cup {Pod(Home, base')}
    /\ left' = [left EXCEPT !.pods = @ - 1]
    /\ UNCHANGED <<bound, vnode, cached, removal, lookup, hosts>>

BaseStops ==
    /\ base # 0
    /\ base' = 0
    /\ UNCHANGED <<basePods, bound, vnode, cached, removal, lookup, hosts, left>>

PodDeleted(p) ==
    /\ p # Pod(Home, base)
    /\ basePods' = basePods \ {p}
    /\ UNCHANGED <<base, bound, vnode, cached, removal, lookup, hosts, left>>

(* In another namespace the name of a base pod means nothing.              *)
OtherPodCreated(p) ==
    /\ p.namespace # Home
    /\ left.moves > 0
    /\ left' = [left EXCEPT !.moves = @ - 1]
    /\ basePods' = basePods \cup {p}
    /\ UNCHANGED <<base, bound, vnode, cached, removal, lookup, hosts>>

PodMoves(n) ==
    /\ left.moves > 0
    /\ bound' = IF n \in bound THEN bound \ {n} ELSE bound \cup {n}
    /\ left' = [left EXCEPT !.moves = @ - 1]
    /\ UNCHANGED <<base, basePods, vnode, cached, removal, lookup, hosts>>

(* A heartbeat: the node is there, ready, and labelled with its base pod;  *)
(* old nodes have the hostname label only, on others it may name anything. *)
NodeReady(oldStyle, hostname) ==
    /\ base # 0
    /\ vnode' = [exists |-> TRUE, ready |-> TRUE,
                 baseHost |-> IF oldStyle THEN {} ELSE {base},
                 hostname |-> IF oldStyle THEN base ELSE hostname]
    /\ vnode' # vnode
    /\ Witness({base})
    /\ UNCHANGED <<base, basePods, bound, cached, removal, lookup, left>>

NodeNotReady ==
    /\ base = 0 /\ vnode.ready
    /\ vnode' = [vnode EXCEPT !.ready = FALSE]
    /\ UNCHANGED <<base, basePods, bound, cached, removal, lookup, hosts, left>>

CacheCatchesUp ==
    /\ cached # vnode.exists
    /\ cached' = vnode.exists
    /\ UNCHANGED <<base, basePods, bound, vnode, removal, lookup, hosts, left>>

-----------------------------------------------------------------------------
(* OnBaseUnreachable.                                                      *)

OnNodeNotReady(c) ==
    /\ vnode.exists /\ ~vnode.ready
    /\ removal[c] = "idle"
    /\ removal' = [removal EXCEPT ![c] = "get"]
    /\ UNCHANGED <<base, basePods, bound, vnode, cached, lookup, hosts, left>>

(* Faulty variant: the test of the error is the wrong way round.           *)
GetNodeInverted(c) ==
    /\ removal[c] = "get"
    /\ removal' = [removal EXCEPT ![c] = IF cached THEN "idle" ELSE "delete"]
    /\ UNCHANGED <<base, basePods, bound, vnode, cached, lookup, hosts, left>>

(* Get: a node the cache does not have is left alone.                      *)
GetNode(c) ==
    /\ removal[c] = "get"
    /\ removal' = [removal EXCEPT ![c] = IF cached THEN "delete" ELSE "idle"]
    /\ UNCHANGED <<base, basePods, bound, vnode, cached, lookup, hosts, left>>

(* Delete by name, without precondition on what Get returned.              *)
DeleteNode(c) ==
    /\ removal[c] = "delete"
    /\ removal' = [removal EXCEPT ![c] = "idle"]
    /\ vnode' = None
    /\ UNCHANGED <<base, basePods, bound, cached, lookup, hosts, left>>

(* Get or Delete fails: logged only.                                       *)
RemovalFails(c) ==
    /\ removal[c] # "idle"
    /\ left.errors > 0
    /\ left' = [left EXCEPT !.errors = @ - 1]
    /\ removal' = [removal EXCEPT ![c] = "idle"]
    /\ UNCHANGED <<base, basePods, bound, vnode, cached, lookup, hosts>>

-----------------------------------------------------------------------------
(* lookupBasePod.                                                          *)

(* The pod is read first; it names the node.                               *)
GetPod(r, n) ==
    /\ lookup[r].pc = "idle"
    /\ n \in bound
    /\ lookup' = [lookup EXCEPT ![r] = [Idle EXCEPT !.pc = "node", !.namespace = n]]
    /\ hosts' = [hosts EXCEPT ![r] = vnode.baseHost \cup
            (IF vnode.baseHost = {} THEN {vnode.hostname} ELSE {})]
    /\ UNCHANGED <<base, basePods, bound, vnode, cached, removal, left>>

(* Faulty variant: the old label comes first.                              *)
BaseHostOldFirst(node) ==
    IF node.hostname # 0 \/ node.baseHost = {} THEN node.hostname
    ELSE CHOOSE h \in node.baseHost : TRUE

(* OrElse: "compatible with old style label".                              *)
BaseHost(node) ==
    IF node.baseHost # {} THEN CHOOSE h \in node.baseHost : TRUE ELSE node.hostname

(* Then the node; a missing node or label ends the lookup as not found.    *)
GetLabels(r) ==
    /\ lookup[r].pc = "node"
    /\ lookup' = [lookup EXCEPT ![r] =
           IF BaseHost(vnode) = 0 THEN Idle
           ELSE [@ EXCEPT !.pc = "base", !.name = BaseHost(vnode)]]
    /\ UNCHANGED <<base, basePods, bound, vnode, cached, removal, hosts, left>>

(* Faulty variant: any pod of that name will do.                           *)
GetBasePodAnywhere(r) ==
    /\ lookup[r].pc = "base"
    /\ \E p \in basePods :
       /\ p.name = lookup[r].name
       /\ lookup' = [lookup EXCEPT ![r] = [@ EXCEPT !.pc = "done", !.answer = p]]
    /\ UNCHANGED <<base, basePods, bound, vnode, cached, removal, hosts, left>>

(* Then the pod of that name in the namespace of the request, whose logs   *)
(* getContainerLogs opens.                                                 *)
GetBasePod(r) ==
    /\ lookup[r].pc = "base"
    /\ LET p == Pod(lookup[r].namespace, lookup[r].name) IN
       lookup' = [lookup EXCEPT ![r] =
           IF p \in basePods THEN [@ EXCEPT !.pc = "done", !.answer = p] ELSE Idle]
    /\ UNCHANGED <<base, basePods, bound, vnode, cached, removal, hosts, left>>

LookupFails(r) ==
    /\ lookup[r].pc \in {"node", "base"}
    /\ left.errors > 0
    /\ left' = [left EXCEPT !.errors = @ - 1]
    /\ lookup' = [lookup EXCEPT ![r] = Idle]
    /\ UNCHANGED <<base, basePods, bound, vnode, cached, removal, hosts>>

StreamEnds(r) ==
    /\ lookup[r].pc = "done"
    /\ lookup' = [lookup EXCEPT ![r] = Idle]
    /\ UNCHANGED <<base, basePods, bound, vnode, cached, removal, hosts, left>>

Remove(c) == GetNode(c) \/ DeleteNode(c) \/ RemovalFails(c)

Next ==
    \/ BaseStarts \/ BaseStops \/ NodeNotReady \/ CacheCatchesUp
    \/ \E p \in basePods : PodDeleted(p)
    \/ \E n \in Namespace : PodMoves(n) \/ \E name \in 1..MaxPods : OtherPodCreated(Pod(n, name))
    \/ \E oldStyle \in BOOLEAN, hostname \in 0..MaxPods : NodeReady(oldStyle, hostname)
    \/ \E c \in Remover : OnNodeNotReady(c) \/ Remove(c)
    \/ \E r \in Reader : GetLabels(r) \/ GetBasePod(r) \/ LookupFails(r) \/ StreamEnds(r)
                         \/ \E n \in Namespace : GetPod(r, n)

Spec == Init /\ [][Next]_vars

(* The cache follows the server and calls go on; the vnode controller      *)
(* notices a silent base and repeats OnNodeNotReady while its node is not  *)
(* ready.                                                                  *)
Fairness ==
    /\ WF_vars(CacheCatchesUp) /\ WF_vars(NodeNotReady)
    /\ \A c \in Remover : SF_vars(OnNodeNotReady(c)) /\ WF_vars(Remove(c))

FairSpec == Spec /\ Fairness

-----------------------------------------------------------------------------
(* The node of a base that stays away is removed in the end, although the  *)
(* cache may not have it yet and requests may fail: no single call insists.*)
UnreachableRemoved == (<>[](base = 0)) => <>[](~vnode.exists)

(* A log request is answered with a pod that has the name which a base pod *)
(* of the pod's node has had since the request read the pod; a request for *)
(* a pod in the namespace of the base is answered with that base pod.  In  *)
(* any other namespace it is another pod of the same name.                 *)
LogsOfOwnBase ==
    \A r \in Reader : lookup[r].pc = "done" =>
        /\ lookup[r].answer.name \in hosts[r]
        /\ lookup[r].namespace = Home => lookup[r].answer.namespace = Home
=============================================================================
