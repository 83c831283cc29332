SPECIFICATION Spec
CONSTANTS
    Ids = {r1, r2, r3}
    Addrs = {a1, a2, a3}
    Shapes <- OneFloat
    Formats = {FALSE}
    Vals = {0, 1}
    Step <- OneLookup
    Advances <- NoAdvances
    MaxCaptures = 1
    MaxOffset = 0
    MaxInputs = 1
    None = None
SYMMETRY Symmetry
INVARIANT EveryReplayMeetsValidIds
CHECK_DEADLOCK FALSE
