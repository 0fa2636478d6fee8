\* A table's earlier definition was left in the text as a comment.
SPECIFICATION Spec
CONSTANTS
    Words <- MCWords
    Texts <- MCTexts
    Tables = {"t1", "t2", "IF"}
    Millis = {"1", "2"}
    Resets = {"latest"}
    Form = "commented"
INVARIANT OnlyStartupChanges
