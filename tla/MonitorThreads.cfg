SPECIFICATION Spec
CONSTANTS
    LastScan = 3
    LastContext = 2
    ScanContent <- MCScanContent
    ContextContent <- MCContextContent
    None = None
    FlowSignal = {"SOXX", "QQQ"}
    MaximumQuoteAge = 2
    Balanced = 5
    Deadband = 2
    FullResponse = 25
    FullDepth = 100
    Absent = Absent
CHECK_DEADLOCK FALSE
INVARIANTS
    TypeOK
    EnrichedAnew
PROPERTIES
    Settles
    ShutsDown
