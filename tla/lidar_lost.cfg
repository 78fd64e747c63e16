SPECIFICATION Spec
CONSTANTS
    Sectors = 2
    BufferSize = 4
    ModeFields <- OneField
    MaxStarts = 2
    MaxTx = 2
    MaxRevs = 4
    MaxRx = 2
    MaxLost = 1
    MaxTimeouts = 1
    Spurious = FALSE
INVARIANT NodesOfOneScan
CHECK_DEADLOCK FALSE
