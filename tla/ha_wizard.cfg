\* The documented procedure, one operation at a time, with every fault.
SPECIFICATION FairSpec
CONSTANTS
    a = a
    b = b
    o1 = o1
    o2 = o2
    Side = {a, b}
    Op = {o1}
    Neutral = Neutral
    NoOne = NoOne
    Offered = {"release", "promote", "claim", "suspend", "resume"}
    Faults = {"s3", "k8s", "pod", "crash"}
    Wizard = TRUE
    StopTimesOut = FALSE
    MaxETag = 5
INVARIANTS WizardInv NoDoubleRun RunnerOwns ReleasedMeansStopped
PROPERTIES FreshRecovery OwnerStarts ImplementsOwnership Switchover
CHECK_DEADLOCK FALSE
