\* One replay and its revert, of a deployment that may come without an upgradeMode.
SPECIFICATION Spec
CONSTANTS
    Offered = {"replay", "revert"}
    Faults = {}
    Millis = {1}
    MaxBase = 1
    Panel = TRUE
    CleanDeploys = TRUE
    StopTimesOut = FALSE
INVARIANT UpgradeModeRestored
CHECK_DEADLOCK FALSE
