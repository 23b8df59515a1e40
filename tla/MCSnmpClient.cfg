SPECIFICATION Spec
CONSTANTS
    NumRequests = 2
    MibSize = 3
    MaxReps = 2
    MaxOdd = 1
INVARIANTS
    TypeOK
    SetOnce
    WalksAreSafe
    PointersAreValid
    OnlyWalksAndUnsentLeak
    WalkReturnsSubtree
    WalkFailsOnlyAtEndOfMib
    FuturesEndWithClient
PROPERTIES
    EveryRequestEnds
CHECK_DEADLOCK FALSE
