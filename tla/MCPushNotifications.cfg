SPECIFICATION Spec
CONSTANTS
    Messages = {m1, m2}
    MAX_REQUEST_RETRIES = 1
    MaxNotices = 2
    MaxRequests = 2
    MaxFailures = 2
    MayCrash = TRUE
SYMMETRY MCSymmetry
INVARIANTS
    TypeOK
    PushedOnce
    RevokedWhenRead
CHECK_DEADLOCK FALSE
