SPECIFICATION Spec
CONSTANTS
    FlagOps <- MCFlagOps
    Flags <- MCFlags
    Messages = {1, 2}
    OtherTypes <- MCOtherTypes
    MaxEvents = 4
INVARIANT FlagsConverge
