---------------------------- MODULE MCReplicaSync ----------------------------
(* Instances of ReplicaSync for TLC.                                       *)
EXTENDS ReplicaSync

CONSTANTS n1, n2, n3, d1, d2, c1, c2, none

(* n3 is a vnode of another environment and cluster.                       *)
NodesInClusters == [n \in Node |-> IF n = n3 THEN c2 ELSE c1]
DepsInCluster == [d \in Deployment |-> c1]
OwnNodes == [n \in Node |-> n # n3]
AllManaged == [d \in Deployment |-> TRUE]
OwnDeploymentOnly == [d \in Deployment |-> d = d1]

NoNumber == -1

(* A cluster when the process starts, nothing scaled yet, and what happens *)
(* then: vnode changes, edits, faults, restarts.                           *)
Scenario(ready, peers, nodes, edits, faults, restarts) ==
    [nodes |-> [n \in Node |-> IF n \in ready THEN "ready" ELSE "absent"],
     deps |-> [d \in Deployment |-> [exists |-> d \in peers, replicas |-> 0,
                 mode |-> IF d \in peers THEN "peer" ELSE "scale"]],
     budget |-> [nodes |-> nodes, edits |-> edits, faults |-> faults,
                 restarts |-> restarts]]

(* Vnodes that come and go, a restart that loses an event or a failure,    *)
(* batches of two deployments, and users who edit or create a deployment   *)
(* while a vnode changes.                                                  *)
Interleavings ==
    {Scenario({n1}, {d1}, 2, 0, 0, 0), Scenario({n1}, {d1}, 1, 0, 1, 1),
     Scenario({n1, n3}, {d1, d2}, 0, 0, 1, 0), Scenario({}, {d1}, 1, 1, 0, 0),
     Scenario({n1}, {}, 1, 1, 0, 0)}

UserAndNode == {Scenario({n1}, {d1}, 1, 1, 0, 0)}

Untouched == {Scenario({n1}, {d1, d2}, 0, 0, 0, 0)}
=============================================================================
