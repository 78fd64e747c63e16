SPECIFICATION FairSpec
CONSTANTS
    Sectors = 2
    BufferSize = 2
    ModeFields <- OneField
    MaxStarts = 2
    MaxTx = 2
    MaxRevs = 4
    MaxRx = 2
    MaxLost = 1
    MaxTimeouts = 1
    Spurious = FALSE
INVARIANT AvailableWhenSignalled RevolutionOfThisStart
PROPERTY StartDelivers
CHECK_DEADLOCK FALSE
