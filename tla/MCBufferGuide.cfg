SPECIFICATION GuideSpec
CONSTANTS
    GUIDE_SIZE = 4
    Parallelism = 2
    MaxItems = 7
INVARIANTS
    SpanCapacity
    NothingLost
    OrderFollowsLoc
    BatchesIndependent
CHECK_DEADLOCK FALSE
