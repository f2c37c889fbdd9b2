SPECIFICATION FairSpec
CONSTANTS
    GUIDE_SIZE = 3
    Parallelism = 2
    MaxItems = 4
    PlaceCnt = 5
    ChannelCapacity = 2
    BufferCapacity = 2
    MaxAwaits = 1
    Circuits <- MCCircuits
INVARIANTS
    MtTypeOK
    BatchTasksReady
    ReleasedIsTracked
    NoResolverStuck
PROPERTIES
    AwaitedResolved
    ImplementsWitnessDag
    CallsReturn
