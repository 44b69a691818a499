SPECIFICATION FairSpec
CONSTANTS
    restart = restart
    flags = flags
    VirtualTypes <- MCLiveVirtualTypes
    Plain = plain
    Restart = restart
    None = None
    AcceptsRestart = TRUE
    MaxEvents = 2
    MaxMishaps = 2
PROPERTY
    EventuallyDelivered
CHECK_DEADLOCK FALSE
