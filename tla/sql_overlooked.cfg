\* A comment stands between WITH and its options in one of two Kafka tables:
\* a replay without a name falls on the other one.
SPECIFICATION Spec
CONSTANTS
    Words <- MCWords
    Texts <- MCTexts
    Tables = {"t1", "t2", "IF"}
    Millis = {"1", "2"}
    Resets = {"latest"}
    Form = "overlooked"
INVARIANT FindsTheNamed
