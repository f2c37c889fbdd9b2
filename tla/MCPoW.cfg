SPECIFICATION FairSpec
CONSTANTS
    NumWorkers = 2
    Rounds = 2
    NoResult = 10
INVARIANTS
    NothingPassedOver
    PanicMeansNone
PROPERTIES
    ResultStable
    SearchEnds
