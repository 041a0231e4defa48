\* A shell and two children, two names, tables of two; every env may have ended.
CONSTANTS
    Env = {sh, e1, e2}
    Root = sh
    Name = {n1, n2}
    Val = {v1}
    NVARS = 2
    NoParent = NoParent
SPECIFICATION Spec
SYMMETRY Symmetry
INVARIANTS NamesUnique Inherited
PROPERTIES ReadonlyKept LocalKept
CHECK_DEADLOCK FALSE
