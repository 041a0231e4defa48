CONSTANTS
    Proc = {a, b, c}
    Creator = a
    NSlots = 2
    PIPE_SIZE = 1
    PosMod = 2
    MaxIO = 1
    MaxBytes = 0
    MaxDups = 1
SPECIFICATION Spec
SYMMETRY Symmetry
INVARIANT ClosedUnlessForking
CHECK_DEADLOCK FALSE
