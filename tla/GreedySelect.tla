----------------------------- MODULE GreedySelect ----------------------------
(***************************************************************************)
(* Greedy token selection on the Device (CudaKernels::greedy_select,       *)
(* greedy_select_kernel): every eligible column of a row of logits becomes *)
(* one number, its score's bits above its complement, and threads, warps   *)
(* and blocks keep the largest.                                            *)
(*                                                                         *)
(* A score is the bits of a float: a sign bit and a magnitude, which is    *)
(* ordered as the numbers are, Infinity and NaNs last.  Division by the    *)
(* temperature is a map of magnitudes that keeps their order but may make  *)
(* two of them equal, or infinite.                                         *)
(***************************************************************************)
EXTENDS Integers, Sequences, FiniteSets, FiniteSetsExt

CONSTANTS
    SignBit,     \* 2^31
    Infinity,    \* the bits of infinity: larger magnitudes are NaNs
    ColumnRange, \* columns are numbered modulo this: 2^32
    Warp,        \* threads of a warp: 32
    Block,       \* threads of a block: 256
    MaxBlocks    \* most blocks of a launch: 256

ASSUME GreedyConstantsOK ==
    /\ {SignBit, Infinity, ColumnRange, Warp, Block, MaxBlocks} \subseteq Nat \ {0}
    /\ Infinity < SignBit
    /\ Block % Warp = 0
    \* A power of two: no divisor of it but 1 is odd.
    /\ \A d \in 1..Warp : Warp % d = 0 => d = 1 \/ d % 2 = 0

Magnitude(bits) == bits % SignBit
Negative(bits) == bits >= SignBit
Finite(bits) == Magnitude(bits) < Infinity

\* The logits have no such row, or columns their number's bits cannot tell.
NoSuchRow(g) == g.cols = 0 \/ g.row >= g.rows \/ g.cols > ColumnRange - 1

----------------------------------------------------------------------------
(* The kernel.                                                             *)

Excluded(g, i) == \E r \in 1..Len(g.ranges) : i >= g.ranges[r][1] /\ i < g.ranges[r][2]
Eligible(g, i) == Finite(g.logits[i]) /\ ~Excluded(g, i)

Divided(g, bits) == g.divided[Magnitude(bits)] + (IF Negative(bits) THEN SignBit ELSE 0)

\* Plausible bug: -0 is left as it is.
SignedZero(bits) == bits

\* -0 becomes +0, which it equals.
OneZero(bits) == IF Magnitude(bits) = 0 THEN 0 ELSE bits

\* As unsigned numbers the result is ordered as the floats are.
Ordered(bits) == IF Negative(bits) THEN 2 * SignBit - 1 - bits ELSE bits + SignBit

Key(g, i) ==
    Ordered(OneZero(Divided(g, g.logits[i]))) * ColumnRange + (ColumnRange - 1 - (i % ColumnRange))

Grid(g) ==
    LET blocks == (g.cols + Block - 1) \div Block IN IF blocks < MaxBlocks THEN blocks ELSE MaxBlocks

\* The best of the columns one thread goes through, a grid apart.
ThreadKey(g, thread) ==
    Max({0} \cup {Key(g, i) : i \in {i \in 0..(g.cols - 1) :
                        i % (Grid(g) * Block) = thread /\ Eligible(g, i)}})

\* One exchange of a warp: a lane looks at the one `offset` above it, if any.
ShuffleDown(keys, offset) ==
    [l \in 1..Warp |-> IF l + offset <= Warp THEN Max({keys[l], keys[l + offset]}) ELSE keys[l]]

\* Offsets halve from half a warp down to 1; the first lane is the warp's.
WarpKey(g, warp) ==
    LET reduced[offset \in 0..Warp] ==
            [keys \in [1..Warp -> Nat] |->
                IF offset = 0 THEN keys[1]
                ELSE reduced[offset \div 2][ShuffleDown(keys, offset)]]
    IN  reduced[Warp \div 2][[l \in 1..Warp |-> ThreadKey(g, warp * Warp + l - 1)]]

\* What atomicMax leaves, whatever the order of the warps.
BestKey(g) ==
    Max({0} \cup {WarpKey(g, w) : w \in 0..(((Grid(g) * Block) \div Warp) - 1)})

\* The selected column, in a sequence; no column gives the empty sequence.
Selected(g) ==
    IF BestKey(g) = 0 THEN <<>> ELSE <<ColumnRange - 1 - (BestKey(g) % ColumnRange)>>

----------------------------------------------------------------------------
(* The Runtime's host selection: the first of the largest scores.          *)

Score(g, i) ==
    LET m == g.divided[Magnitude(g.logits[i])] IN IF Negative(g.logits[i]) THEN -m ELSE m

HostSelection(g) ==
    LET eligible == {i \in 0..(g.cols - 1) : Eligible(g, i)}
        best == {i \in eligible : \A j \in eligible : Score(g, j) <= Score(g, i)}
    IN  IF eligible = {} THEN <<>> ELSE <<Min(best)>>
=============================================================================
