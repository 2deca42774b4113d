SPECIFICATION Spec
CONSTANTS
    None = None
    Bar <- MCBar
    Evidence <- MCEvidence
    Zone <- MCZone
    LastMinute = 3
    EntryStart = 1
    EntryEnd = 2
    ForcedExit = 3
    InitialStop = 4
    Activation = 3
    Distance = 3
    LastTapeMinute = 4
    TrendInterval = 2
    TapePrice <- MCTapePrice
CHECK_DEADLOCK FALSE
INVARIANTS
    TypeOK
    NoStaleOrders
    RegimeIsNoVeto
    NoLookAhead
PROPERTIES
    StopsHonoured
    OneFillPerWave
