\* Switches back and forth whose jobs take few checkpoints, without any fault.
SPECIFICATION Spec
CONSTANTS
    Side = {a, b}
    Op = {o1}
    Neutral = Neutral
    NoOne = NoOne
    Offered = {"release", "promote"}
    Faults = {}
    Wizard = TRUE
    StopTimesOut = FALSE
    MaxETag = 7
PROPERTY NoEarlierStart
CHECK_DEADLOCK FALSE
