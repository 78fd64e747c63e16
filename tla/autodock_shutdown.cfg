SPECIFICATION FairSpec
CONSTANTS
    Goals = {g1}
    Monitor = monitor
    MaxTicks = 1
    Faults = {"interrupt", "raise", "kill"}
INVARIANTS
    Nav2Restored
    ExitRestoresNav2
PROPERTY
    StopEnds
