SPECIFICATION Spec
CONSTANTS
    Contract = {tqqq, other}
    Allowed = {tqqq}
    Lot <- MCLot
    Price = {1, 3}
    Field = {"mark", "last", "bid", "ask"}
    Profit = {1}
    Unset = Unset
    LastRequest = 2
CHECK_DEADLOCK FALSE
INVARIANTS
    TypeOK
    RequestsMatchPositions
    PeakOfThisLot
    LotsPublished
