\* The counter of secret sync, in seconds: the process restarts while the
\* counter runs ahead of the clock, which is never set back.
SPECIFICATION NonceSpec
CONSTANTS
    Caller = {"sync"}
    MaxClock = 2
PROPERTY IncreasingNonces
