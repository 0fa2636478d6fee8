\* Two items of one deployment, the first by reference and the second by
\* name: what is claimed of restarts does not hold while listing fails.
SPECIFICATION Spec
CONSTANTS
    a = a
    b = b
    manual = manual
    Ticker = Ticker
    NoDep = NoDep
    N = 2
    Dep = {a}
    Mode <- MixedModes
    Targets <- Alone
    HADep = {}
    ReplayDep = {}
    Caller = {Ticker, manual}
    Faults = {"k8s"}
    MaxVersion = 2
INVARIANT RestartOnlyOnChange
CHECK_DEADLOCK FALSE
