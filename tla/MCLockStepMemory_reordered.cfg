SPECIFICATION MemSpec
CONSTANTS
    WorkerCnt = 2
    LOCK_STEP_ELEM_SIZE = 1
    MaxTasks = 4
    Reordered = TRUE
INVARIANT SliceIsFresh
