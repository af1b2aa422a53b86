SPECIFICATION FairSpec
CONSTANTS
    TeamPosts = {1}
    DmPosts = {2}
    MaxSteps = 2
    MaxFaults = 0
PROPERTIES AnswerIsHandedOver
CHECK_DEADLOCK FALSE
