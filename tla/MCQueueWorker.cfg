SPECIFICATION FairSpec
CONSTANTS
    Events = {e1, e2}
    BatchSizes = {1, 2}
    MAX_REQUEST_RETRIES = 2
    MaxInterruptions = 2
INVARIANTS
    TypeOK
    Accounted
    RepeatsAreInterruptions
PROPERTY
    Drains
CHECK_DEADLOCK FALSE
