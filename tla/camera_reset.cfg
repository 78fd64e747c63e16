SPECIFICATION Spec
CONSTANTS
    MaxSessions = 2
    MaxTroubles = 1
    CleanMayHang = FALSE
INVARIANT ResetHasDeviceAlone
CHECK_DEADLOCK FALSE
