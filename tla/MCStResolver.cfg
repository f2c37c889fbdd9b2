SPECIFICATION Spec
CONSTANTS
    PlaceCnt = 7
    Circuits <- MCCircuits
INVARIANTS
    StTypeOK
    TakenIsReady
    PrefixResolved
PROPERTIES
    StImplementsWitnessDag
