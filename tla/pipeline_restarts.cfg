SPECIFICATION FairSpec
CONSTANTS
    Discovered = {1, 2}
    PlanReady = {11, 12, 13}
    MaxAttempts = 1
    MaxSteps = 2
    MaxRows = 1
    MaxMRs = 1
    MaxResets = 0
    MaxFaults = 1
    MaxTouches = 0
INVARIANT RunsAreBudgeted
PROPERTIES DiscoveredMovesOn CodingMovesOn SessionMovesOn
CHECK_DEADLOCK FALSE
