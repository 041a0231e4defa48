\* Two properties, each violated (tlc -continue).
CONSTANTS
    Env = {sh, e1}
    Root = sh
    Name = {n1, n2, n3}
    Val = {v1}
    NVARS = 2
    NoParent = NoParent
SPECIFICATION Spec
INVARIANT TableFits
PROPERTY SyncFits
CHECK_DEADLOCK FALSE
