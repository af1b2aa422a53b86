SPECIFICATION FairSpec
CONSTANTS
    Consumers = {c1}
    Messages = {1, 2}
    Unhandled = {2}
    Lease = 5
    RenewEvery = 1
    MaxTxn = 1
    MaxStall = 0
    Tolerated = 0
PROPERTIES EventuallyFinished
