SPECIFICATION Spec
CONSTANTS
    q1 = q1
    q2 = q2
    q3 = q3
    Queues <- MCQueues
    MessageQueues <- MCQueues
    MessageData <- MCMessageData
    MAX_REQUEST_RETRIES = 1
    MaxMessages = 2
    MaxFailures = 2
SYMMETRY MCSymmetry
INVARIANTS
    TypeOK
    NotifiedOrSeen
    NoticedOnce
    NotificationsInv
