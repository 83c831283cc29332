---------------------------- MODULE DeviceKernels ----------------------------
(***************************************************************************)
(* The kernels together: a block of attention_combine_kernel that runs, or *)
(* one call of a kernel whose launch and result are worked out at once.    *)
(* A call is chosen in the initial state; every property is about the      *)
(* calls of one kernel.                                                    *)
(***************************************************************************)
EXTENDS AttentionCombine, MatmulLaunch, AttentionLaunch, GreedySelect, HalfPrecision

CONSTANTS
    MatmulCalls,    \* bound: the shapes and layouts multiplied
    GatedCalls,     \* bound: those of the fused gated matmul
    AttentionCalls, \* bound: the attentions launched
    GreedyCalls     \* bound: the rows of logits selected from

ASSUME CallsOK ==
    /\ \A c \in MatmulCalls : {c.m, c.k, c.n} \subseteq Nat
    /\ \A g \in GatedCalls : g.m \in Nat /\ g.transposeB \in BOOLEAN
    /\ \A c \in AttentionCalls :
        /\ {c.seq, c.rows, c.keys, c.heads, c.kvHeads, c.dim} \subseteq Nat
        /\ c.window \in Nat \cup {NoWindow}
        /\ {c.causal, c.captured, c.advances} \subseteq BOOLEAN
    /\ \A g \in GreedyCalls :
        /\ g.cols \in Nat
        /\ g.logits \in [0..(g.cols - 1) -> 0..(2 * SignBit - 1)]
        /\ g.divided \in [0..(SignBit - 1) -> 0..(SignBit - 1)]

VARIABLE call

NoCall == [kernel |-> "none"]

CallsOf(kernel, arguments) == {[kernel |-> kernel, of |-> a] : a \in arguments}
Calls ==
    CallsOf("matmul", MatmulCalls) \cup CallsOf("gated", GatedCalls)
        \cup CallsOf("attention", AttentionCalls) \cup CallsOf("greedy", GreedyCalls)
        \cup CallsOf("to half", Patterns(Wide)) \cup CallsOf("from half", Patterns(Half))
        \cup CallsOf("from bfloat16", Patterns(Brain))

\* No block is under way: the only one, of one chunk without keys, has ended.
BlockEnded ==
    /\ launch = [dim |-> 1, chunks |-> 1, cached |-> FALSE, max |-> [c \in {0} |-> 0]]
    /\ at = [t \in Threads |-> "done"]
    /\ waiting = {}
    /\ regs = [t \in Threads |-> [stride |-> 1, d0 |-> 1, max |-> 0, total |-> FixedTotal]]
    /\ reduce = [t \in Threads |-> <<>>]
    /\ weight = [c \in Chunks |-> <<>>]
    /\ out = [d \in {0} |-> FixedSum]
    /\ touched = {}

KernelsInit ==
    \/ Init /\ call = NoCall
    \/ call \in Calls /\ BlockEnded

KernelsNext == Next /\ UNCHANGED call

KernelsSpec == KernelsInit /\ [][KernelsNext]_<<vars, call>> /\ Fairness

----------------------------------------------------------------------------
(* Matmuls.                                                                *)

\* Whatever kernel a matmul's shape and layout choose, its blocks and
\* threads write every element of the output and none twice: short last
\* groups of rows, narrow last tiles, rows beyond a grid's.  An output of
\* 2^32 elements or more is left out: matmul_kernel's launch loses count.
EachElementIsWrittenOnce ==
    call.kernel = "matmul" =>
        LET c == call.of
            writes == MatmulWrites(c, MatmulKernel(c))
        IN  c.m * c.n < CountWidth =>
                /\ {w.element : w \in writes} = (0..(c.m - 1)) \X (0..(c.n - 1))
                /\ Cardinality(writes) = c.m * c.n

\* "All are bit-identical row by row" (split_k_rows): unrolled by eight, by
\* four, or staged tile by tile, a slice adds its own inners once, ascending.
SplitKernelsAddInOneOrder ==
    call.kernel = "matmul" =>
        \A slice \in 0..(SplitK - 1), kernel \in {"single", "rows", "tile"} :
            Lists(SliceInners(kernel, slice, call.of.k),
                  {i \in 0..(call.of.k - 1) : i % SplitK = slice})

\* gated_matmul is "bit-identical to both matmuls followed by" silu_mul: it
\* takes for both products the arithmetic each would have had alone.  But
\* not for a long input when only one of its weights is compact, whose
\* matmul would use the Tensor Cores.
FusedAgreesWithSeparate ==
    call.kernel = "gated" =>
        LET g == call.of
            gate == Product(g, g.gateCompact)
            up == Product(g, g.upCompact)
            mixed == LongCompact(gate) # LongCompact(up)
        IN  ~mixed => GatedArithmetic(g) =
                <<Arithmetic(gate, MatmulKernel(gate)), Arithmetic(up, MatmulKernel(up))>>

----------------------------------------------------------------------------
(* Attention.                                                              *)

IsAttention(kernels) == call.kernel = "attention" /\ Accepted(call.of) /\ AttentionKernel(call.of) \in kernels

\* "Every key a replay may admit has a chunk": at every offset a replay may
\* have, each key the query attends to is in exactly one chunk, and no other
\* key is, so that nothing beyond the rows of K is read.
EveryKeyHasOneChunk ==
    IsAttention({"split"}) =>
        LET c == call.of
            chunks == 0..(ChunkCount(c) - 1)
        IN  \A o \in 0..MaxOffset(c) :
              LET keys(chunk) == ChunkOfKeys(c, chunk, o)
              IN  /\ UNION {keys(chunk) : chunk \in chunks} = Attended(c, c.keys - 1 + o, c.keys + o)
                  /\ \A a, b \in chunks : a # b => keys(a) \cap keys(b) = {}
                  /\ \A chunk \in chunks : keys(chunk) \subseteq 0..(c.rows - 1)

\* A head's partial of a chunk is written by one block, which reads that
\* head's rows of K and V, into floats of the scratch that are nobody else's.
EveryPartialHasOneWriter ==
    IsAttention({"split"}) =>
        LET c == call.of
            heads == 0..(c.heads - 1)
            chunks == 0..(ChunkCount(c) - 1)
            writers(h, chunk) == {b \in SplitBlocks(c) : b[1] = chunk /\ h \in BlockHeads(c, b)}
            floats(h, chunk) == PartialAt(c, h, chunk)..(PartialAt(c, h, chunk) + c.dim + 1)
        IN  /\ \A b \in SplitBlocks(c) : BlockHeads(c, b) \subseteq heads
            /\ \A h \in heads, chunk \in chunks :
                /\ Cardinality(writers(h, chunk)) = 1
                /\ Grouped(c) => \A b \in writers(h, chunk) : b[2] = KvHead(c, h)
                /\ floats(h, chunk) \subseteq 0..(PartialFloats(c) - 1)
            /\ \A h, i \in heads, a, b \in chunks :
                <<h, a>> # <<i, b>> => floats(h, a) \cap floats(i, b) = {}

\* The scores of a block stay in the shared memory it was launched with, in
\* every replay as well.
ScoresFitTheirBlock ==
    IsAttention({"block"}) =>
        \A query \in 0..(call.of.seq - 1), o \in 0..MaxOffset(call.of) :
            Len(RangeOfKeys(call.of, query, o)) <= ScoreRows(call.of)

\* Block by block, thread by thread or tile by tile, a query scores the keys
\* it attends to, each once, in ascending order.
QueriesScoreWhatTheyAttendTo ==
    IsAttention({"tiled", "block", "thread"}) =>
        LET c == call.of
        IN  \A query \in 0..(c.seq - 1), o \in 0..MaxOffset(c) :
              Lists(IF AttentionKernel(c) = "tiled" THEN TiledKeys(c, query)
                    ELSE RangeOfKeys(c, query, o),
                    Attended(c, Position(c, query, o), c.keys + o))

----------------------------------------------------------------------------
(* Greedy selection and conversions.                                       *)

\* "as the Runtime's host greedy selection picks it": the lowest of the best
\* eligible columns, ties of division and signed zeros included, up to the
\* last column whose number still fits.
GreedySelectsTheFirstBest ==
    call.kernel = "greedy" /\ ~NoSuchRow(call.of) => Selected(call.of) = HostSelection(call.of)

\* f32 goes to the nearest f16 and to the nearest bfloat16, ties to even:
\* where a carry runs into the exponent, past the largest, below the
\* smallest normal and below half the smallest.  A NaN stays one.
HalvesAreNearest ==
    call.kernel = "to half" =>
        LET bits == call.of
        IN  IF IsNaN(Wide, bits)
            THEN IsNaN(Half, WideToHalf(bits)) /\ IsNaN(Brain, WideToBrain(bits))
            ELSE /\ WideToHalf(bits) \in Nearest(Half, Value(Wide, bits), Sign(Wide, bits))
                 /\ WideToBrain(bits) \in Nearest(Brain, Value(Wide, bits), Sign(Wide, bits))

\* f16 and bfloat16 go to f32 without loss, the subnormals of f16, which f32
\* has as normals, included.
HalvesWidenExactly ==
    call.kernel \in {"from half", "from bfloat16"} =>
        LET isHalf == call.kernel = "from half"
            f == IF isHalf THEN Half ELSE Brain
            wide == IF isHalf THEN HalfToWide(call.of) ELSE BrainToWide(call.of)
        IN  IF IsNaN(f, call.of) THEN IsNaN(Wide, wide)
            ELSE /\ Sign(Wide, wide) = Sign(f, call.of)
                 /\ IF Exponent(f, call.of) = AllOnes(f)
                    THEN Exponent(Wide, wide) = AllOnes(Wide) /\ Mantissa(Wide, wide) = 0
                    ELSE Value(Wide, wide) = Value(f, call.of)
=============================================================================
