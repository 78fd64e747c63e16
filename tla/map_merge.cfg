SPECIFICATION FairSpec
CONSTANTS
    Robots = {"base", "scout", "stray"}
    have_initial_poses = {TRUE, FALSE}
    InitPose <- Poses2
    MaxStamp = 3
INVARIANTS
    PatchesAreNewer
    OwnTransform
    KnownPosesSurvive
PROPERTIES
    GetsMerged
CHECK_DEADLOCK FALSE
