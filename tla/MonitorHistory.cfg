SPECIFICATION MonitorSpec
CONSTANTS
    Request = {spy, qqq, xlk}
    Optional = {}
    Sync = {spy, qqq, xlk}
    Benchmark = {spy, qqq}
    Mode = {TRUE}
    Delivered = {2}
    Fault = {"closed"}
    LastMinute = 2
    WarmUp = 2
CHECK_DEADLOCK FALSE
INVARIANTS
    MemoryCoversCache
    ScanCoversHandOver
