SPECIFICATION FairSpec
CONSTANTS
    n1 = n1
    n2 = n2
    n3 = n3
    d1 = d1
    d2 = d2
    c1 = c1
    c2 = c2
    none = none
    Node = {n1, n2}
    Deployment = {d1}
    Cluster = {c1, c2}
    NoCluster = none
    Gone <- NoNumber
    NodeCluster <- NodesInClusters
    DepCluster <- DepsInCluster
    NodeWatched <- OwnNodes
    DepManaged <- AllManaged
    EnableSync = TRUE
    EditReplicas = {1}
    Scenarios <- UserAndNode
PROPERTIES Converges WaitersServed
CHECK_DEADLOCK FALSE
