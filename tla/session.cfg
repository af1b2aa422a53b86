SPECIFICATION Spec
CONSTANTS
    TeamPosts = {1, 3}
    DmPosts = {2}
    MaxSteps = 2
    MaxFaults = 1
INVARIANTS DecisionsAreSignedOff NothingSwallowed RevivalsAreEarned IterationsAreBudgeted
CHECK_DEADLOCK FALSE
