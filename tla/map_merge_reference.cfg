SPECIFICATION Spec
CONSTANTS
    Robots = {"base", "scout", "stray"}
    have_initial_poses = {TRUE}
    InitPose <- Poses2
    MaxStamp = 3
INVARIANT AnyResolutionWorks
CHECK_DEADLOCK FALSE
