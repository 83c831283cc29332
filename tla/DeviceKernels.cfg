SPECIFICATION KernelsSpec
CONSTANTS
    BlockThreads = 6
    LaneThreads = 4
    MaxLanes = 2
    Dimensions = {1, 2, 3, 7}
    ChunkCounts = {3}
    WarpColumns = 2
    SplitK = 4
    Unroll = 3
    GroupRows = 2
    RowsUnroll = 2
    TileMinRows = 4
    TileColumns = 2
    TileInner = 8
    MaxGridRows = 7
    ElementBlock = 4
    CountWidth = 64
    TensorRows = 2
    PipelineRows = 4
    TensorColumns = 3
    PipelineAlign = 2
    TensorCores = TRUE
    ChunkKeys = 3
    GroupedDims <- MCGroupedDims
    MaxGroup = 2
    PrefillRows = 6
    PrefillDims = {4}
    PrefillAlign = 4
    TiledDims <- MCTiledDims
    TileQueries = 3
    ReduceSlots = 1
    SharedFloats = 10
    NoWindow = NoWindow
    SignBit = 8
    Infinity = 5
    ColumnRange = 8
    Warp = 4
    Block = 4
    MaxBlocks = 1
    WideExponent = 4
    WideMantissa = 4
    HalfExponent = 2
    HalfMantissa = 2
    BrainMantissa = 2
    MatmulCalls <- MCMatmulCalls
    GatedCalls <- MCGatedCalls
    AttentionCalls <- MCAttentionCalls
    GreedyCalls <- MCGreedyCalls
INVARIANTS
    TypeOK
    NoDataRace
    ResultIsFixed
    BarriersAreMet
    EachElementIsWrittenOnce
    SplitKernelsAddInOneOrder
    FusedAgreesWithSeparate
    EveryKeyHasOneChunk
    EveryPartialHasOneWriter
    ScoresFitTheirBlock
    QueriesScoreWhatTheyAttendTo
    GreedySelectsTheFirstBest
    HalvesAreNearest
    HalvesWidenExactly
PROPERTIES
    StepsRunOut
    BlockEnds
CHECK_DEADLOCK FALSE
