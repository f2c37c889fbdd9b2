SPECIFICATION FairSpec
CONSTANTS
    GUIDE_SIZE = 3
    Parallelism = 2
    MaxItems = 4
    PlaceCnt = 5
    ChannelCapacity = 2
    BufferCapacity = 2
    BufSizes = {1, 2, 3}
    Resolvers <- MCResolvers
    Scripts <- MCScripts
INVARIANTS
    SafeToExecute
    OrderReplayed
PROPERTIES
    AwaitedResolved
    ImplementsWitnessDag
    CallsReturn
