SPECIFICATION FairSpec
CONSTANTS
    n1 = n1
    e1 = e1
    e2 = e2
    NoBody = NoBody
    Bodies <- MCBodies
    QueueNames <- MCQueueNames
    QueueOf <- MCQueueOf
    Consumed <- MCConsumed
    MaxFailures = 2
INVARIANTS
    TypeOK
    AssertionsHold
    NeverDeaf
    OnlyDeferredRepeat
PROPERTIES
    EventuallyReceived
    EventuallyProcessed
CHECK_DEADLOCK FALSE
