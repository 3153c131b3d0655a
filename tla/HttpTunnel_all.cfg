SPECIFICATION FairSpec
CONSTANTS
    b1 = b1
    h1 = h1
    h2 = h2
    m1 = m1
    m2 = m2
    Node = {b1}
    Handler = {h1, h2}
    Caller = {m1}
    MaxStarts = 1
    MaxCalls = 2
INVARIANTS MutexHeld HeartbeatWins OutcomesReported
PROPERTIES HeartbeatsServed BasesFollowed
CHECK_DEADLOCK FALSE
