SPECIFICATION Spec
CONSTANTS
    Sectors = 2
    BufferSize = 2
    ModeFields <- OneField
    MaxStarts = 2
    MaxTx = 2
    MaxRevs = 4
    MaxRx = 2
    MaxLost = 1
    MaxTimeouts = 1
    Spurious = TRUE
INVARIANT AvailableWhenSignalled
CHECK_DEADLOCK FALSE
