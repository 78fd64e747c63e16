SPECIFICATION FairSpec
CONSTANTS
    Goals = {g1}
    Monitor = monitor
    MaxTicks = 1
    Faults = {"kill", "lifecycle", "raise"}
PROPERTIES
    DockingEnds
    GoalEnds
    LowBatteryServed
