SPECIFICATION FairSpec
CONSTANTS
    admin = admin
    None = None
    Jobs = {"expire", "limit", "activate"}
    Admins = {admin}
    Requests = {"disable", "enable"}
    Created <- Reviewed
    Payloads <- NoPayloads
    Overlap = TRUE
    CanFail = FALSE
    MaxClock = 1
    MaxMetered = 1
    MaxLimit = 1
    MaxQueue = 1
PROPERTY ReviewsHappen
