SPECIFICATION Spec
CONSTANTS
    admin = admin
    None = None
    Jobs = {"expire", "limit"}
    Admins = {admin}
    Requests = {"modify"}
    Created <- MCCreated
    Payloads <- NextPlans
    Overlap = FALSE
    CanFail = FALSE
    MaxClock = 2
    MaxMetered = 2
    MaxLimit = 1
    MaxQueue = 1
PROPERTY PlanAsPredicted
