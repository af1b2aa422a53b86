SPECIFICATION FairSpec
CONSTANTS
    Pods = {"a", "b"}
    First = "a"
    MaxComments = 2
    MaxCommits = 2
    MaxAutofix = 1
    MaxInfra = 1
    Budgets <- OnlyRemark
PROPERTIES AskIsAnswered
CHECK_DEADLOCK FALSE
