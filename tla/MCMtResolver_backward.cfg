SPECIFICATION Spec
CONSTANTS
    GUIDE_SIZE = 3
    Parallelism = 2
    MaxItems = 2
    PlaceCnt = 4
    ChannelCapacity = 2
    BufferCapacity = 2
    MaxAwaits = 1
    Circuits <- MCBackward
INVARIANT NoResolverStuck
