SPECIFICATION FairSpec
CONSTANTS
    Stats = {"audit", "humans", "read"}
    UserStats = {"audit", "read"}
    LoggingStats = {"read"}
    dependencies <- MCdependencies
    time_increment <- MCtime_increment
    Ends <- MCEnds
    MaxHour = 2
    MaxFacts = 1
    MaxCrashes = 2
INVARIANTS
    TypeOK
    FilledIsExact
    NothingAhead
    LoggedIsKept
PROPERTY
    EventuallyFilled
CHECK_DEADLOCK FALSE
