SPECIFICATION Spec
CONSTANTS
    Discovered = {1, 2}
    PlanReady = {11, 12}
    MaxAttempts = 1
    MaxSteps = 1
    MaxRows = 2
    MaxMRs = 2
    MaxResets = 1
    MaxFaults = 1
    MaxTouches = 1
CONSTRAINT FaultOrEdit
INVARIANTS OneOpenMR StatusIsBacked LateWritesAreFew OrphansAreFaults ReadyIsUnderWay
CHECK_DEADLOCK FALSE
