--------------------------- MODULE ReplicaFollower ---------------------------
(***************************************************************************)
(* What the module deployment controller promises, without goroutines,     *)
(* caches, snapshots or a token: a replica count follows a history of      *)
(* wanted counts.  One atomic step takes a point of the history that is    *)
(* not older than the point taken last for the same deployment and writes  *)
(* its count.  Users may change a deployment at any time, and a restart of *)
(* the controller may forget the points, never what is wanted now.         *)
(***************************************************************************)
EXTENDS Integers, Sequences

CONSTANTS
    Deployment,
    Absent      \* no deployment, so no count: not a natural number

VARIABLES
    wanted,     \* history: the wanted count of each deployment, over time
    replicas,   \* the count each deployment has, or Absent
    takenAt,    \* the point of the history each deployment has reached
    edits       \* changes with every step of a user, and only then

vars == <<wanted, replicas, takenAt, edits>>

WantedAt(i, d) == IF i = 0 THEN 0 ELSE wanted[i][d]

Init ==
    /\ wanted \in Seq([Deployment -> Nat])
    /\ replicas \in [Deployment -> Nat \cup {Absent}]
    /\ takenAt = [d \in Deployment |-> 0]

WantedChanges ==
    /\ Len(wanted') = Len(wanted) + 1
    /\ wanted' = Append(wanted, wanted'[Len(wanted) + 1])
    /\ UNCHANGED <<replicas, takenAt, edits>>

UserChanges(d) ==
    /\ replicas' = [replicas EXCEPT ![d] = replicas'[d]]
    /\ edits' # edits
    /\ UNCHANGED <<wanted, takenAt>>

Follow(d) ==
    /\ replicas[d] # Absent
    /\ \E i \in takenAt[d] .. Len(wanted) :
        /\ replicas' = [replicas EXCEPT ![d] = WantedAt(i, d)]
        /\ takenAt' = [takenAt EXCEPT ![d] = i]
    /\ UNCHANGED <<wanted, edits>>

Restart ==
    /\ \A d \in Deployment :
        WantedAt(Len(wanted), d) = (WantedAt(Len(wanted), d))'
    /\ takenAt' = [d \in Deployment |-> 0]
    /\ UNCHANGED <<replicas, edits>>

Next == WantedChanges \/ Restart \/ \E d \in Deployment : UserChanges(d) \/ Follow(d)

Spec == Init /\ [][Next]_vars
=============================================================================
