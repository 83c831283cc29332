SPECIFICATION Spec
CONSTANTS
    Threads = {t1, t2}
    Ids = {r1, r2}
    Buffers = {b1, b2, b3}
    Calls = {"embedding", "capture"}
    None = None
SYMMETRY Symmetry
INVARIANT NoCircularWait
CHECK_DEADLOCK FALSE
