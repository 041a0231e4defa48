CONSTANTS
    NULL = NULL
    HEAD = HEAD
    NENV = 4
    NASID = 3
    MaxPri = 2
    MaxGen = 4
SPECIFICATION FairSpec
INVARIANTS
    SchedListExact
    CurenvRunnable
    PanicOnlyWhenIdle
    RecvingBlocked
    FreeListExact
    AsidsExact
PROPERTIES
    YieldRotates NoStarvation
