SPECIFICATION Spec
CONSTANTS
    Request = {spy, qqq, vix}
    Optional = {vix}
    Sync = {spy, qqq}
    Mode = {TRUE, FALSE}
    Delivered = {1, 2}
    Fault = {"unreachable", "pacing", "request", "service", "closed", "timestamp"}
    LastMinute = 2
CHECK_DEADLOCK FALSE
INVARIANTS
    TypeOK
    NormalReturn
PROPERTIES
    OncePerCommonBar
    Ends
