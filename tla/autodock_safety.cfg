SPECIFICATION Spec
CONSTANTS
    Goals = {g1, g2}
    Monitor = monitor
    MaxTicks = 2
    Faults = {"tf"}
SYMMETRY GoalSymmetry
INVARIANTS
    OneSequence
    DockingFlagTruth
    BackupOwnsBase
    NoStrayNavigation
PROPERTY
    ServesOneGoal
