\* A table is created IF NOT EXISTS: the name of it that is asked for is
\* not the word that the code knows it by.
SPECIFICATION Spec
CONSTANTS
    Words <- MCWords
    Texts <- MCTexts
    Tables = {"t1", "t2", "IF"}
    Millis = {"1", "2"}
    Resets = {"latest"}
    Form = "named"
INVARIANT FindsTheNamed
