\* Three free slots, ids that repeat after three uses; a shell that waits for ever is a stop.
CONSTANTS
    Shell = sh
    Server = fs
    Slot = {s1, s2, s3}
    GenMod = 3
    Status = {0, 1}
    Kind = {"run", "builtin|", "builtin>"}
    NULL = NULL
SPECIFICATION FairSpec
INVARIANTS Sound StatusPassed Quiet ShellHears
PROPERTY PromptReturns
CHECK_DEADLOCK FALSE
