\* The panel's use of replay and revert among lifecycle operations, with every fault.
SPECIFICATION FairSpec
CONSTANTS
    Offered = {"suspend", "resume", "rollback", "restart", "replay", "revert", "deploy"}
    Faults = {"k8s", "pod", "crash"}
    Millis = {1, 2}
    MaxBase = 2
    Panel = TRUE
    CleanDeploys = TRUE
    StopTimesOut = TRUE
INVARIANTS TypeOK ReplayInv OriginalKept Revertible ModeRestored SessionReplays
PROPERTIES ReplayTakesHold RevertCompletes RestartCompletes
CHECK_DEADLOCK FALSE
