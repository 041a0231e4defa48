\* The two ways a child waits for ever, each violated (tlc -continue).
CONSTANTS
    Shell = sh
    Server = fs
    Slot = {s1, s2, s3}
    GenMod = 3
    Status = {0, 1}
    Kind = {"run"}
    NULL = NULL
SPECIFICATION Spec
INVARIANTS AlwaysChild NoneLost
CHECK_DEADLOCK FALSE
