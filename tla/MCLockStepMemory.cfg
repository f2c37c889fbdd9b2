SPECIFICATION MemFairSpec
CONSTANTS
    WorkerCnt = 2
    LOCK_STEP_ELEM_SIZE = 2
    MaxTasks = 4
    Reordered = FALSE
INVARIANTS
    SliceIsFresh
PROPERTY PoolTerminates
