\* A program with its output redirected.
CONSTANTS
    Shell = sh
    Server = fs
    Slot = {s1, s2, s3}
    GenMod = 3
    Status = {0, 1}
    Kind = {"run>"}
    NULL = NULL
SPECIFICATION Spec
INVARIANT AnswerFromServer
CHECK_DEADLOCK FALSE
