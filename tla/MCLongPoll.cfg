SPECIFICATION Spec
CONSTANTS
    restart = restart
    flags = flags
    VirtualTypes <- MCVirtualTypes
    Plain = plain
    Restart = restart
    None = None
    AcceptsRestart = TRUE
    MaxEvents = 2
    MaxMishaps = 2
INVARIANTS
    TypeOK
    DeliveryInv
    ExactlyOnce
    NeverRefused
    WaitingHandler
    NoHandlerLeak
    OneLoop
PROPERTY
    ImplementsDelivery
CHECK_DEADLOCK FALSE
