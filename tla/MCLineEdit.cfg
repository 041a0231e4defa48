\* Lines of up to three bytes, a ring of two of them.
SPECIFICATION Spec
CONSTANTS
    Char = {"a", " "}
    BLANK = " "
    NUL = "nul"
    CAP = 4
    HISTORY_SIZE = 2
    MaxKeys = 12
\* The bound on the keys ends a behaviour.
CHECK_DEADLOCK FALSE
INVARIANT Sound
PROPERTIES FileInOrder EditorSpec
