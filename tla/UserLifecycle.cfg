SPECIFICATION Spec
CONSTANTS
    admin = admin
    None = None
    Jobs = {"expire", "limit", "activate", "reset"}
    Admins = {admin}
    Requests = {"disable", "enable", "resetUsage", "nextPlan", "modify"}
    Created <- MCCreated
    Payloads <- MCPayloads
    Overlap = FALSE
    CanFail = TRUE
    MaxClock = 2
    MaxMetered = 2
    MaxLimit = 1
    MaxQueue = 1
INVARIANTS
    TypeOK
    NodesFollow
    OnHoldHasDuration
    NeverOvercounted
    CutOffForReason
    RowProtocol
