SPECIFICATION PartsSpec
CONSTANTS
    b1 = b1
    b2 = b2
    c1 = c1
    c2 = c2
    w1 = w1
    w2 = w2
    Biz = {b1, b2}
    MqttBiz = {b1}
    QueryCommand = {"health"}
    Call = {c1, c2}
    Worker = {w1, w2}
    MaxCommands = 2
    MaxFailures = 1
    MaxRestarts = 1
    MaxPublished = 3
    MaxLosses = 1
INVARIANT OutcomesAgree
PROPERTIES ToldWasTrue ReportsRepaired LastCommandRuns
CHECK_DEADLOCK FALSE
