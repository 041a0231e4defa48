\* Three envs and a page of each kind; every env may have exited in the end.
SPECIFICATION Spec
CONSTANTS
    s = s
    t = t
    l = l
    UCOW = UCOW
    UTEMP = UTEMP
    NULL = NULL
    Env = {e1, e2, e3}
    First = e1
    Val = {0, 1}
    Zero = 0
    Page <- MCPage
    Image <- MCImage
    Va <- MCVa
    Shared <- MCShared
    ReadOnly <- MCReadOnly
    Stack <- MCStack
INVARIANT Sound
PROPERTY MemSpec
VIEW View
SYMMETRY Symmetry
CHECK_DEADLOCK FALSE
