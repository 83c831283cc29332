SPECIFICATION Spec
CONSTANTS
    Ids = {r1, r2}
    Vals = {v1, v2}
    Kernels = {"matmul", "add-half", "kv-write"}
    MaxAllocations = 4
    None = None
SYMMETRY Symmetry
INVARIANTS
    TypeOK
    LedgerExact
    FailedDispatchKeepsValues
    DispatchFindsItsInputs
    CompactOnlyWhereRead
PROPERTIES
    CallerRecordsStand
    ImplementsTable
CHECK_DEADLOCK FALSE
