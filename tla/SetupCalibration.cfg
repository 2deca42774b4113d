SPECIFICATION Spec
CONSTANTS
    Symbol = {qqq}
    Kind = {"ready"}
    Bucket = {b5}
    EntryPrice = {0, 2}
    Bar <- MCBar
    Horizon = 2
    TargetDistance = 1
    StopDistance = 1
    LastMinute = 4
    SaveResult = {"ok", "refused"}
INVARIANTS
    TypeOK
    Disjoint
    MemoryCoversDisk
PROPERTIES
    OutcomesFrozen
    ImplementsLedger
