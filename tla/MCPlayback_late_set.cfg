SPECIFICATION Spec
CONSTANTS
    GUIDE_SIZE = 3
    Parallelism = 2
    MaxItems = 2
    PlaceCnt = 5
    ChannelCapacity = 2
    BufferCapacity = 2
    BufSizes = {2}
    Resolvers <- MCResolvers
    Scripts <- MCNonChronological
INVARIANT SafeToExecute
