SPECIFICATION FairSpec
CONSTANTS
    enable_point_cloud = TRUE
    MaxFrames = 1
    MaxCalls = 1
CHECK_DEADLOCK FALSE
PROPERTY StopSignalHeard
