CONSTANTS
    Proc = {a, b}
    Creator = a
    NSlots = 2
    PIPE_SIZE = 2
    PosMod = 4
    MaxIO = 2
    MaxBytes = 5
    MaxDups = 0
SPECIFICATION FairSpec
INVARIANTS FifoOrder RingBound
PROPERTIES ReaderReleased WriterReleased
CHECK_DEADLOCK FALSE
