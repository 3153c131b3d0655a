SPECIFICATION FairSpec
CONSTANTS
    a = a
    b = b
    x = x
    y = y
    z = z
    Node = {a, b}
    Call = {x, y}
    MaxRequests = 3
    MaxBizChanges = 2
    MaxKnownChanges = 1
INVARIANT LockedWhileQuerying
PROPERTIES DeliveriesInOrder CallsReturn MarkedRequestServed
CHECK_DEADLOCK FALSE
