SPECIFICATION Spec
CONSTANTS
    Threads = {t1, t2}
    Ids = {r1, r2}
    Buffers = {b1, b2}
    Calls = {"silu", "embedding", "capture", "replay", "attention"}
    None = None
SYMMETRY Symmetry
INVARIANTS
    TypeOK
    BuffersHaveOneOwner
    LookupSeesItsOwnFlag
    CombineSeesItsOwnSplit
    OneCircleOnly
CHECK_DEADLOCK FALSE
