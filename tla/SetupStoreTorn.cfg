SPECIFICATION Spec
CONSTANTS
    Symbol = {qqq}
    Kind = {"ready"}
    Bucket = {b5}
    EntryPrice = {2}
    Bar <- MCBar
    Horizon = 2
    TargetDistance = 1
    StopDistance = 1
    LastMinute = 4
    SaveResult = {"ok", "torn"}
CHECK_DEADLOCK FALSE
PROPERTIES
    ImplementsLedger
