CONSTANTS
    Proc = {a, b}
    Creator = a
    NSlots = 2
    PIPE_SIZE = 2
    PosMod = 4
    MaxIO = 1
    MaxBytes = 2
    MaxDups = 0
SPECIFICATION Spec
INVARIANT EofMeansDrained
CHECK_DEADLOCK FALSE
