SPECIFICATION FairSpec
CONSTANTS
    b1 = b1
    c1 = c1
    c2 = c2
    Node = {b1}
    Caller = {c1}
    Lifetime = 1
    Published = {"bizOperation"}
    Budgets <- ResponseBudgets
    MaxInbox = 1
PROPERTIES ResponsesConsumed
CHECK_DEADLOCK FALSE
