SPECIFICATION Spec
CONSTANTS
    Frontiers <- MCFrontiers
    Pos <- MCPos
    Extent <- MCExtent
    Close <- MCClose
    Home = 0
    PotentialScale = 3
    GainScale = 1
    return_to_init = TRUE
    MaxCommands = 2
    MaxChanges = 1
    MaxInFlight = 1
    Nav2Faults = {"abort", "reject"}
PROPERTIES
    PausedSendsNoGoal
CHECK_DEADLOCK FALSE
