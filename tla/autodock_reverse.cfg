SPECIFICATION Spec
CONSTANTS
    Goals = {g1}
    Monitor = monitor
    MaxTicks = 1
    Faults = {"raise"}
INVARIANT
    ReverseSupervised
