SPECIFICATION MonitorSpec
CONSTANTS
    Request = {spy, qqq}
    Optional = {}
    Sync = {spy, qqq}
    Benchmark = {spy, qqq}
    Mode = {TRUE}
    Delivered = {1, 2}
    Fault = {"closed"}
    LastMinute = 1
    WarmUp = 1
CHECK_DEADLOCK FALSE
PROPERTIES
    FinalBarsKept
