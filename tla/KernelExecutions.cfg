SPECIFICATION Spec
CONSTANTS
    Threads = {t1, t2}
    Invocations = {i1, i2}
    Requests = {q1}
    Capacity = 2
    MaxOrdinal = 3
    None = None
SYMMETRY Symmetry
INVARIANTS
    TypeOK
    HandlesLeadToTheirResults
    ResultsHaveHolders
    LogIsBounded
PROPERTY ImplementsRecentLog
CHECK_DEADLOCK FALSE
