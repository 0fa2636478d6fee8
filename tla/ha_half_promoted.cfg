\* A console restarts between the two S3 writes of a Promote.
SPECIFICATION Spec
CONSTANTS
    Side = {a, b}
    Op = {o1}
    Neutral = Neutral
    NoOne = NoOne
    Offered = {"release", "promote"}
    Faults = {"crash"}
    Wizard = TRUE
    StopTimesOut = FALSE
    MaxETag = 5
INVARIANT HalfPromotionWarned
CHECK_DEADLOCK FALSE
