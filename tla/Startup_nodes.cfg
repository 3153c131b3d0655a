SPECIFICATION PartsSpec
CONSTANTS
    h1 = h1
    h2 = h2
    Beat = {h1, h2}
    r1 = r1
    r2 = r2
    q1 = q1
    n1 = n1
    n2 = n2
    Remover = {r1}
    Reader = {q1}
    Namespace = {n1, n2}
    Home = n1
    MaxPods = 2
    MaxErrors = 1
    MaxMoves = 2
INVARIANTS RunsWithItsTunnels AcknowledgedMeansTold LogsOfOwnBase
PROPERTIES ProxyServesOrDies ContextClosesServers UnreachableRemoved
CHECK_DEADLOCK FALSE
