SPECIFICATION Spec
CONSTANTS
    DockGoals = {}
    PatrolGoals = {p1}
    Monitor = monitor
    MaxTicks = 1
    DockFaults = {"kill"}
    Configured = 1
    Requests <- OneRound
    RoundBound = 1
    PatrolFaults = {"reject"}
    NavFails = TRUE
PROPERTIES
    DockBehaves
    PatrolBehaves
