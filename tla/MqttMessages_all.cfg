SPECIFICATION PartsSpec
CONSTANTS
    b1 = b1
    c1 = c1
    c2 = c2
    d1 = d1
    d2 = d2
    m1 = m1
    m2 = m2
    Node = {b1}
    Caller = {c1, c2}
    Lifetime = 1
    Published = {"simpleBiz", "heart"}
    Budgets <- SomeBudgets
    MaxInbox = 1
    Port = {0, 1238, 8080}
    State = {"ACTIVATED", "activated", "RESOLVED"}
    Memory <- SomeNumbers
    Time <- SomeNumbers
    Reason = {"x", "y"}
    BizState = {"ACTIVATED", "BROKEN"}
    MaxRecords = 2
    Deployment = {d1, d2}
    Cluster = {"", "c1", "c2"}
    Biz = {m1, m2}
    Version = {1}
    Label <- SomeLabels
    Affinity <- SomeAffinities
    CreationTime = 2
SYMMETRY Symmetric
INVARIANTS
    TypeOK DeadStaySilent RegisteredHears
    ContentKept BaselineOrdered
PROPERTIES HeartbeatsInOrder UnregisteredSilent
CHECK_DEADLOCK FALSE
