SPECIFICATION Spec
CONSTANTS
    Events = {e1, e2}
    BatchSizes = {1}
    MAX_REQUEST_RETRIES = 1
    MaxInterruptions = 1
INVARIANTS
    InterruptedIsRequeued
CHECK_DEADLOCK FALSE
