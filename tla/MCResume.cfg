CONSTANTS
    NULL = NULL
    HEAD = HEAD
    NENV = 3
    NASID = 3
    MaxPri = 1
    MaxGen = 4
SPECIFICATION ResumeSpec
INVARIANT SchedListExact
