SPECIFICATION Spec
CONSTANTS
    Symbol = {spy, vix}
    Optional = {vix}
    MaxWindow = 2
    LiveDays = 1
    Lookback = 3
    Cut = {1, 3, 5}
    PerDay = 1
    Latest = 4
    Cause = {"pacing", "closed", "connectivity"}
CHECK_DEADLOCK FALSE
INVARIANTS
    InterruptionsRetried
