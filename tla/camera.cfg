SPECIFICATION FairSpec
CONSTANTS
    MaxSessions = 2
    MaxTroubles = 1
    CleanMayHang = TRUE
INVARIANT OneInitializer
PROPERTIES
    PluggedGetsConnected
    ShutdownEnds
CHECK_DEADLOCK FALSE
