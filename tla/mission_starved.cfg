SPECIFICATION FairSpec
CONSTANTS
    DockGoals = {}
    PatrolGoals = {p1}
    Monitor = monitor
    MaxTicks = 1
    DockFaults = {}
    Configured = 1
    Requests <- Endless
    RoundBound = 1
    PatrolFaults = {}
    NavFails = FALSE
PROPERTY
    LowBatteryReachesCharger
