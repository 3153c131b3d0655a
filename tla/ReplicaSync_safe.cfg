SPECIFICATION Spec
CONSTANTS
    n1 = n1
    n2 = n2
    n3 = n3
    d1 = d1
    d2 = d2
    c1 = c1
    c2 = c2
    none = none
    Node = {n1, n2, n3}
    Deployment = {d1, d2}
    Cluster = {c1, c2}
    NoCluster = none
    Gone <- NoNumber
    NodeCluster <- NodesInClusters
    DepCluster <- DepsInCluster
    NodeWatched <- OwnNodes
    DepManaged <- AllManaged
    EnableSync = TRUE
    EditReplicas = {1}
    Scenarios <- Interleavings
INVARIANTS TypeOK TokenConserved SettledMeansSynced
PROPERTIES PatchesFollowNodes FollowsNodes
CHECK_DEADLOCK FALSE
