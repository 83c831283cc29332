SPECIFICATION Spec
CONSTANTS
    Ids = {r1, r2, r3}
    Addrs = {a1, a2, a3}
    Shapes <- Columns
    Formats = {FALSE}
    Vals = {0, 1}
    Step <- TwoLookups
    Advances <- NoAdvances
    MaxCaptures = 1
    MaxOffset = 0
    MaxInputs = 1
    None = None
SYMMETRY Symmetry
INVARIANT SuppliedIdsAreChecked
CHECK_DEADLOCK FALSE
