SPECIFICATION Spec
CONSTANTS
    AW = 4
    CW = 2
    CharBits = 12
    NumAtZ = 3
    LookupTerms = 1
    Configs <- MCConfigs
INVARIANTS HonestProofAccepted ChallengesBind NothingDrawnTwice
