SPECIFICATION Spec
CONSTANTS
    Goals = {g1, g2}
    Configured = 2
    Requests <- SomeRequests
    RoundBound = 2
    Faults = {"reject"}
INVARIANT CountedWasReported
