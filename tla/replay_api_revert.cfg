\* A revert through the API, where a replay has been cut short before its session.
SPECIFICATION Spec
CONSTANTS
    Offered = {"replay", "revert"}
    Faults = {"crash"}
    Millis = {1}
    MaxBase = 1
    Panel = FALSE
    CleanDeploys = TRUE
    StopTimesOut = FALSE
INVARIANT ModeRestored
CHECK_DEADLOCK FALSE
