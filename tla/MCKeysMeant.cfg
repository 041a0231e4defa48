\* What ^U and Enter are meant to do, each violated (tlc -continue).
SPECIFICATION Spec
CONSTANTS
    Char = {"a", " "}
    BLANK = " "
    NUL = "nul"
    CAP = 4
    HISTORY_SIZE = 2
    MaxKeys = 12
CHECK_DEADLOCK FALSE
PROPERTIES KillLeftAsMeant EnterAsMeant
