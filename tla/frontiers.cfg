SPECIFICATION SearchSpec
CONSTANTS
    Grids <- StillAndChanging
    Ordered = TRUE
    Positions = {0, 4, 9}
    min_frontier_size = 2
    OriginX = 3
    OriginY = 6
INVARIANTS
    CopyIsCurrent
    FindsTheFrontiers
