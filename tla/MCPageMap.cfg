\* Three envs on two ASIDs and five pages: sharing, exhaustion, failed calls, TLB.
CONSTANTS
    zero = zero
    u1 = u1
    u2 = u2
    w = w
    t0 = t0
    t1 = t1
    Env = {e1, e2, e3}
    Asid = {a1, a2}
    Page = {p1, p2, p3, p4, p5}
    UserVa = {u1, w}
    ZeroVa = zero
    GuardVa = {w}
    Table = {t0, t1}
    Self = self
    Pdx <- MCPdx
    Pair <- MCPair
    RefMod = 65536
    Touched = {u1}
    Granted = {"R", "W"}
    NULL = NULL
    MISS = MISS
SPECIFICATION Spec
SYMMETRY Symmetry
INVARIANTS RefExact TablesSound FreeUnused TlbSound
PROPERTY NeverHalfMapped
