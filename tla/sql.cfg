\* Replays and reverts of jobs with comments, quotes and several tables.
SPECIFICATION Spec
CONSTANTS
    Words <- MCWords
    Texts <- MCTexts
    Tables = {"t1", "t2", "IF"}
    Millis = {"1", "2"}
    Resets = {"latest"}
    Form = "readable"
INVARIANTS OnlyStartupChanges RefusesTheUnclear RewriteIsLocal
