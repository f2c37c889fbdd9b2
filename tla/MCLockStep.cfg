SPECIFICATION FairSpec
CONSTANTS
    WorkerCnt = 2
    LOCK_STEP_ELEM_SIZE = 2
    MaxTasks = 5
INVARIANTS
    TypeOK
    DataExclusion
    ElementsFit
    CorrelationHolds
    DrainedTasksRan
    PanicReported
PROPERTIES
    PoolTerminates
    ImplementsBatchExecutor
