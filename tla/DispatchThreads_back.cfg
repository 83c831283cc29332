SPECIFICATION Spec
CONSTANTS
    Threads = {t1, t2}
    Ids = {r1, r2}
    Buffers = {b1, b2, b3}
    Calls = {"silu"}
    None = None
SYMMETRY Symmetry
INVARIANT PutsItsOwnBack
CHECK_DEADLOCK FALSE
