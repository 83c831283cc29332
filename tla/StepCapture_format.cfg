SPECIFICATION Spec
CONSTANTS
    Ids = {r1, r2, r3}
    Addrs = {a1, a2, a3}
    Shapes <- OneFloat
    Formats = {TRUE, FALSE}
    Vals = {0}
    Step <- OneLookup
    Advances <- NoAdvances
    MaxCaptures = 1
    MaxOffset = 0
    MaxInputs = 0
    None = None
SYMMETRY Symmetry
INVARIANT ReplayReadsCapturedFormat
CHECK_DEADLOCK FALSE
