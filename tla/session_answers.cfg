SPECIFICATION FairSpec
CONSTANTS
    TeamPosts = {2}
    DmPosts = {1}
    MaxSteps = 2
    MaxFaults = 1
PROPERTIES ReplyIsHandedOver SilenceIsConsent
CHECK_DEADLOCK FALSE
