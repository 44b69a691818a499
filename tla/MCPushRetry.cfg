SPECIFICATION Spec
CONSTANTS
    Messages = {m1, m2}
    MAX_REQUEST_RETRIES = 1
    MaxNotices = 1
    MaxRequests = 0
    MaxFailures = 1
    MayCrash = FALSE
INVARIANTS
    ActiveIsPushed
CHECK_DEADLOCK FALSE
