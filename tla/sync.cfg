\* Two deployments that share an item: ticker and manual cycles among
\* rotations, with every fault.
SPECIFICATION Spec
CONSTANTS
    a = a
    b = b
    manual = manual
    Ticker = Ticker
    NoDep = NoDep
    N = 2
    Dep = {a, b}
    Mode <- MixedModes
    Targets <- Shared
    HADep = {}
    ReplayDep = {}
    Caller = {Ticker, manual}
    Faults = {"bao", "k8s", "pod", "crash"}
    MaxVersion = 2
INVARIANTS TypeOK SyncInv Delivered RestartHasCause
PROPERTY ImplementsDelivery
CHECK_DEADLOCK FALSE
