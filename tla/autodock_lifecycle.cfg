SPECIFICATION Spec
CONSTANTS
    Goals = {g1}
    Monitor = monitor
    MaxTicks = 1
    Faults = {"lifecycle"}
INVARIANT
    Nav2Restored
