CONSTANTS
    Proc = {a, b, c}
    Creator = a
    NSlots = 2
    PIPE_SIZE = 2
    PosMod = 4
    MaxIO = 1
    MaxBytes = 3
    MaxDups = 0
SPECIFICATION Spec
INVARIANT ClosedSound
CHECK_DEADLOCK FALSE
