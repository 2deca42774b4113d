SPECIFICATION BacktestSpec
CONSTANTS
    Symbol = {qqq, vix}
    Optional = {vix}
    Cached = {qqq}
    MaxWindow = 2
    LiveDays = 1
    Lookback = 3
    Cut = {1, 4, 10}
    PerDay = 2
    BacktestDays = {3}
    RecentDays = 1
    Latest = 9
    Cause = {"pacing", "request"}
CHECK_DEADLOCK FALSE
INVARIANTS
    TypeOK
    CompleteAtOnce
    BacktestCovered
PROPERTIES
    StopEndsThread
