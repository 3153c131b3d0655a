SPECIFICATION FairSpec
CONSTANTS
    BaseNumList = {1, 2}
    ModuleNumList = {1, 2}
    Budgets <- SomeBudgets
INVARIANTS TypeOK RoundsComplete OwnPodsMeasured SavedRoundsKept SavedRoundsNotRepeated
PROPERTIES AllRoundsMeasured
CHECK_DEADLOCK FALSE
