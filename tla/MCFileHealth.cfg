\* Two properties, each violated (tlc -continue), four calls, no power failure.
SPECIFICATION Spec
CONSTANTS
    one = one
    two = two
    sub = sub
    NULL = NULL
    Client = {c1, c2}
    NBLOCK = 7
    NDIRECT = 1
    NINDIRECT = 2
    FILE2BLK = 2
    MAXOPEN = 2
    MaxCalls = 4
    MaxBoots = 0
    Name <- MCName
    Word <- MCWord
    Disk <- MCDisk
SYMMETRY Symmetry
INVARIANTS NeverStale NoPanic
CHECK_DEADLOCK FALSE
