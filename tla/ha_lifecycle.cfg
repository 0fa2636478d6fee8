\* A switch the documented way, without any fault, while the Jobs page may Restart.
SPECIFICATION LifeSpec
CONSTANTS
    Side = {a, b}
    Op = {o1}
    Neutral = Neutral
    NoOne = NoOne
    Offered = {"release", "promote"}
    Faults = {}
    Wizard = TRUE
    StopTimesOut = FALSE
    MaxETag = 5
INVARIANT NoDoubleRun
CHECK_DEADLOCK FALSE
