SPECIFICATION FairSpec
CONSTANTS
    Pods = {"a", "b"}
    First = "a"
    MaxComments = 2
    MaxCommits = 2
    MaxAutofix = 1
    MaxInfra = 1
    Budgets <- SomeBudgets
INVARIANTS TypeOK AnsweredOnce NothingGhosted PingedOnce AutofixIsBounded
PROPERTIES ImplementsHandledOnce WatermarkAdvances LastAskIsAnswered RedIsTakenUp
CHECK_DEADLOCK FALSE
