\* One deployment with two items, in an HA group and replayed at times.
SPECIFICATION FairSpec
CONSTANTS
    a = a
    b = b
    manual = manual
    Ticker = Ticker
    NoDep = NoDep
    N = 2
    Dep = {a}
    Mode <- MixedModes
    Targets <- Alone
    HADep = {a}
    ReplayDep = {a}
    Caller = {Ticker, manual}
    Faults = {"bao", "k8s", "pod", "crash"}
    MaxVersion = 2
INVARIANTS RestartsInterlocked
PROPERTIES Converges
CHECK_DEADLOCK FALSE
