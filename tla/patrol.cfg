SPECIFICATION FairSpec
CONSTANTS
    Goals = {g1, g2}
    Configured = 2
    Requests <- SomeRequests
    RoundBound = 2
    Faults = {"reject", "raise", "stop"}
INVARIANTS
    CountedWasReached
    VisitsCountedOnce
PROPERTIES
    NoAbandonedNavigation
    ServesOneGoal
    SuccessMeansAllRounds
    CancelEnds
    TimedPatrolEnds
