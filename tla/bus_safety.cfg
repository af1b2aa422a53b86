SPECIFICATION Spec
CONSTANTS
    Consumers = {c1, c2}
    Messages = {1}
    Unhandled = {}
    Lease = 10
    RenewEvery = 1
    MaxTxn = 1
    MaxStall = 1
    Tolerated = 1
SYMMETRY Symmetry
INVARIANTS ExclusiveUnlessLapsed HeartbeatTolerance NothingLost
PROPERTIES ImplementsPort
