SPECIFICATION FairSpec
CONSTANTS
    b1 = b1
    c1 = c1
    c2 = c2
    Node = {b1}
    Caller = {c1}
    Lifetime = 1
    Published = {}
    Budgets <- LivenessBudgets
    MaxInbox = 2
PROPERTIES BasesDiscovered
CHECK_DEADLOCK FALSE
