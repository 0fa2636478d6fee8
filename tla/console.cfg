\* Two of three operations at a time on one deployment; console restarts.
\* A replay, which here is a revert without its redeploy, is left out.
SPECIFICATION FairSpec
CONSTANTS
    t1 = t1
    t2 = t2
    Caller = {t1, t2}
    Nobody = Nobody
    Offered = {"savepoint", "restart", "revert", "rollback", "suspend", "resume", "promote"}
    MaxOps = 3
    MaxKeep = 1
    MaxClock = 1
INVARIANTS TypeOK RegistryRemembers NoSilentStop ConsoleInv
PROPERTIES PagesEnd IncreasingNonces PageHonest RedeploysSeen RestartUndoesItsOwn
