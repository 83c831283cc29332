SPECIFICATION Spec
CONSTANTS
    Ids = {r1, r2, r3}
    Addrs = {a1, a2, a3}
    Shapes <- RowsAndColumns
    Formats = {FALSE}
    Vals = {0}
    Step <- DecodeStep
    Advances <- DecodeAdvances
    MaxCaptures = 1
    MaxOffset = 1
    MaxInputs = 0
    None = None
SYMMETRY Symmetry
INVARIANTS
    TypeOK
    ReplayTouchesOnlyHeldBuffers
    ReplayStaysInBounds
CHECK_DEADLOCK FALSE
