\* Releases and plain Promotes overlap freely, with S3 failures and restarts.
SPECIFICATION Spec
CONSTANTS
    a = a
    b = b
    o1 = o1
    o2 = o2
    Side = {a, b}
    Op = {o1, o2}
    Neutral = Neutral
    NoOne = NoOne
    Offered = {"release", "promote"}
    Faults = {"s3", "crash"}
    Wizard = FALSE
    StopTimesOut = TRUE
    MaxETag = 3
SYMMETRY Symmetry
INVARIANTS TypeOK CASInv UniqueClaim
PROPERTY ImplementsOwnership
CHECK_DEADLOCK FALSE
