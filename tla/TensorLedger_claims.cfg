SPECIFICATION Spec
CONSTANTS
    Ids = {r1, r2}
    Vals = {v1}
    Kernels = {"embedding"}
    MaxAllocations = 3
    None = None
INVARIANT ClaimsOnlyWhatIsHeld
CHECK_DEADLOCK FALSE
