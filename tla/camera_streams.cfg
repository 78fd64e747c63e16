SPECIFICATION FairSpec
CONSTANTS
    enable_point_cloud = TRUE
    MaxFrames = 3
    MaxCalls = 3
CHECK_DEADLOCK FALSE
INVARIANTS
    BufferLives
PROPERTIES
    CleanEnds
    FramesComeOut
