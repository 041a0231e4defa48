\* Every small line, and every small tree spelled two ways, in any order.
SPECIFICATION Spec
CONSTANTS
    NULL = NULL
    Tree <- MCTree
    Raw <- MCRaw
    VarTable <- MCVarTable
    Failing <- MCFailing
    Exiting <- MCExiting
    Unopenable <- MCUnopenable
\* exit ends the shell.
CHECK_DEADLOCK FALSE
INVARIANTS Sound TreeBack FlatRun
