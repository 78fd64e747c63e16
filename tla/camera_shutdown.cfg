SPECIFICATION FairSpec
CONSTANTS
    MaxSessions = 1
    MaxTroubles = 1
    CleanMayHang = FALSE
PROPERTY DestructorStopsThreads
CHECK_DEADLOCK FALSE
