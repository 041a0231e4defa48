\* Two clients, four calls, one power failure; the bound on the calls ends a behaviour.
SPECIFICATION Spec
CONSTANTS
    one = one
    two = two
    sub = sub
    NULL = NULL
    Client = {c1, c2}
    NBLOCK = 7
    NDIRECT = 1
    NINDIRECT = 2
    FILE2BLK = 2
    MAXOPEN = 2
    MaxCalls = 4
    MaxBoots = 1
    Name <- MCName
    Word <- MCWord
    Disk <- MCDisk
SYMMETRY Symmetry
INVARIANTS StoreSound DiskMarked ClosedIsOnDisk
PROPERTY OpenStable
CHECK_DEADLOCK FALSE
