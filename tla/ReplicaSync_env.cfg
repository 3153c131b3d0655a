SPECIFICATION Spec
CONSTANTS
    n1 = n1
    n2 = n2
    n3 = n3
    d1 = d1
    d2 = d2
    c1 = c1
    c2 = c2
    none = none
    Node = {n1, n2}
    Deployment = {d1, d2}
    Cluster = {c1, c2}
    NoCluster = none
    Gone <- NoNumber
    NodeCluster <- NodesInClusters
    DepCluster <- DepsInCluster
    NodeWatched <- OwnNodes
    DepManaged <- OwnDeploymentOnly
    EnableSync = TRUE
    EditReplicas = {1}
    Scenarios <- Untouched
PROPERTY OtherEnvironmentsUntouched
CHECK_DEADLOCK FALSE
