SPECIFICATION Spec
CONSTANTS
    Key = {"right", "left", "control-right", "tab", "4", "[", "]", "q"}
    Size <- MCSize
    Scans <- MCScans
INVARIANTS
    TypeOK
    ScreenCurrent
    KeysDecoded
    PagesPartitionRows
    FitsTerminal
