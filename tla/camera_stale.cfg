SPECIFICATION FairSpec
CONSTANTS
    MaxSessions = 2
    MaxTroubles = 0
    CleanMayHang = FALSE
PROPERTY ConnectedIsThisStay
CHECK_DEADLOCK FALSE
