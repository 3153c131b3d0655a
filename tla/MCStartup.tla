------------------------------- MODULE MCStartup ------------------------------
(***************************************************************************)
(* Instances for TLC of two parts of the controller that share no state:   *)
(* its main program (Startup) and the node object of a base (BaseNodes).   *)
(* A behaviour is one of one part; the other stays as it was initially.    *)
(***************************************************************************)
EXTENDS Startup, Naturals, TLC

CONSTANTS
    h1, h2, r1, r2, q1, n1, n2,
    Remover, Reader, Namespace, Home, MaxPods, MaxErrors, MaxMoves

VARIABLES
    part, base, basePods, bound, vnode, cached, removal, lookup, hosts, nodeLeft

nodeVars == <<base, basePods, bound, vnode, cached, removal, lookup, hosts, nodeLeft>>

Nodes == INSTANCE BaseNodes WITH left <- nodeLeft

PartsInit ==
    /\ part \in {"startup", "nodes"}
    /\ Init /\ Nodes!Init
    /\ part = "nodes" => config = [tunnels |-> {}, proxy |-> FALSE]

PartsNext ==
    /\ UNCHANGED part
    /\ \/ part = "startup" /\ Next /\ UNCHANGED nodeVars
       \/ part = "nodes" /\ Nodes!Next /\ UNCHANGED vars

PartsSpec ==
    /\ PartsInit /\ [][PartsNext]_<<part, vars, nodeVars>>
    /\ \/ part = "startup" /\ Fairness
       \/ part = "nodes" /\ Nodes!Fairness

(* A log request is answered with a pod that has the name of a base pod of *)
(* the node since the request read the pod, and with that base pod itself  *)
(* when the request is for a pod of its namespace.                         *)
LogsOfOwnBase == Nodes!LogsOfOwnBase

(* The node of a base that stays away is removed in the end.               *)
UnreachableRemoved == part = "nodes" => Nodes!UnreachableRemoved
=============================================================================
