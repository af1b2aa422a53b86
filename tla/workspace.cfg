SPECIFICATION FairSpec
CONSTANTS
    Requests = {"r1", "r2"}
    MaxCommits = 4
    MaxHuman = 1
    MaxCrashes = 1
    MaxFaults = 3
INVARIANTS HistoryKept WorkspaceIsOwn ClonesAreWhole
PROPERTIES IterationsEnd
CHECK_DEADLOCK FALSE
