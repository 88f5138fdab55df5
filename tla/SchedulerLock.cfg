SPECIFICATION Spec
CONSTANTS
    p1 = p1
    p2 = p2
    None = None
    Instances <- MCInstances
    Owners <- MCInstances
    OwnerOf <- MCOwnerOf
    Lease = 4
    Renew = 1
    OpTimeout = 1
    MaxAttempts = 2
    MaxClock = 7
    MaxRevision = 4
    MaxAbandoned = 1
CHECK_DEADLOCK FALSE
SYMMETRY Symmetry
INVARIANTS
    TypeOK
    MutualExclusion
    RunningHoldsLiveLease
    RecoveryBound
    LeaseProtocol
PROPERTIES
    LeaseNotStolen
    ImplementsLock
