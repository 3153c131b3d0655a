SPECIFICATION FairSpec
CONSTANTS
    a = a
    b = b
    x = x
    y = y
    z = z
    Node = {a, b}
    Call = {x, y}
    MaxRequests = 2
    MaxBizChanges = 0
    MaxKnownChanges = 0
PROPERTY RequestServed
CHECK_DEADLOCK FALSE
