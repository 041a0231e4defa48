\* pp_ref counts to 1 only: three mappings of one page, and one of them taken away.
CONSTANTS
    zero = zero
    u1 = u1
    u2 = u2
    w = w
    t0 = t0
    t1 = t1
    Env = {e1}
    Asid = {a1}
    Page = {p1, p2, p3, p4}
    UserVa = {u1, u2, w}
    ZeroVa = zero
    GuardVa = {w}
    Table = {t0, t1}
    Self = self
    Pdx <- MCPdx
    Pair <- MCPair
    RefMod = 2
    Touched = {}
    Granted = {"W"}
    NULL = NULL
    MISS = MISS
SPECIFICATION Spec
SYMMETRY Symmetry
INVARIANT FreeUnused
