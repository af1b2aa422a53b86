SPECIFICATION FairSpec
CONSTANTS
    Pods = {"a", "b"}
    First = "a"
    MaxPosts = 2
    MaxRows = 4
    Budgets <- SomeBudgets
INVARIANTS OneTicketPerPost CommandsRunOnce
PROPERTIES ImplementsHandledOnce RestartIsObeyed SweptIsTaken
CHECK_DEADLOCK FALSE
