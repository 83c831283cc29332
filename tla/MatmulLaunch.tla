---------------------------- MODULE MatmulLaunch -----------------------------
(***************************************************************************)
(* Which kernel a matmul launches, over which grid, and what each kernel's *)
(* threads compute (CudaKernels::matmul_with_addend, gated_matmul;         *)
(* matmul_*_kernel).  A matmul is its shape and the layout and format of   *)
(* its operands.  A float sum depends on the order of its terms, so an     *)
(* element is the sequence of the inners it adds, slice by slice.  What    *)
(* the Tensor Core kernels add up to is left out: they are known by name   *)
(* and by the elements they write.  So are the addend, one addition at the *)
(* end of any of them, and a scratch that cannot grow while capturing.     *)
(***************************************************************************)
EXTENDS Integers, FiniteSets, Listing

CONSTANTS
    WarpColumns,  \* columns of a warp: 32
    SplitK,       \* MATMUL_SPLIT_K, slices of k: 16
    Unroll,       \* MATMUL_UNROLL: 8
    GroupRows,    \* MATMUL_ROWS, rows of a block: 8
    RowsUnroll,   \* MATMUL_ROWS_UNROLL: 4
    TileMinRows,  \* MATMUL_TILE_MIN_ROWS: 64
    TileColumns,  \* MATMUL_TILE_COLUMNS: 4
    TileInner,    \* MATMUL_TILE_INNER: 256
    MaxGridRows,  \* MATMUL_SPLIT_K_MAX_ROWS: 65535
    ElementBlock, \* threads of a block of LaunchConfig::for_num_elems: 1024
    CountWidth,   \* a launch's element count is taken modulo this: 2^32
    TensorRows,   \* TC_BLOCK_M: 64
    PipelineRows, \* TCP_BLOCK_M: 128
    TensorColumns,\* TC_BLOCK_N and TCP_BLOCK_N: 64
    PipelineAlign,\* TCP_ALIGN: 8
    TensorCores   \* whether the tensor kernels have compiled

ASSUME MatmulConstantsOK ==
    /\ {WarpColumns, SplitK, Unroll, GroupRows, RowsUnroll, TileColumns, MaxGridRows,
        ElementBlock, CountWidth, TensorRows, PipelineRows, TensorColumns, PipelineAlign,
        TileInner, TileMinRows} \subseteq Nat \ {0}
    /\ TileInner % SplitK = 0
    /\ GroupRows <= SplitK
    /\ TensorCores \in BOOLEAN

CeilDiv(n, d) == (n + d - 1) \div d

----------------------------------------------------------------------------
(* The choice of a kernel.                                                 *)

\* Whether consecutive columns of b, or inners of a row of a, are adjacent.
ColumnsAdjacent(c) == c.transposeB => c.k = 1
InnersAdjacent(c) == c.transposeA => c.m = 1
InnerStrideOfB(c) == IF c.transposeB THEN 1 ELSE c.n

\* The split-K kernel for a number of rows (split_k_rows).
SplitKernel(m) ==
    CASE m >= TileMinRows -> "tile"
      [] m < TileMinRows /\ m > 1 -> "rows"
      [] OTHER -> "single"

LongCompact(c) == c.m >= TileMinRows /\ c.compact /\ TensorCores

Aligned(c) == ~c.transposeA /\ c.k % PipelineAlign = 0 /\ c.n % PipelineAlign = 0

MatmulKernel(c) ==
    IF LongCompact(c) /\ ~c.transposeB /\ Aligned(c) THEN "pipelined"
    ELSE IF /\ LongCompact(c) /\ InnersAdjacent(c)
            /\ ColumnsAdjacent(c) /\ InnerStrideOfB(c) = c.n THEN "tensor"
    ELSE IF ColumnsAdjacent(c) /\ c.m <= MaxGridRows THEN SplitKernel(c.m)
    ELSE "element"

----------------------------------------------------------------------------
(* The elements of the output that a launch's threads write.  A write is   *)
(* named by its thread and by how many it has made before.                 *)

\* Blocks of w columns and h rows, each thread of which writes one element
\* of its block or more.
Blocks(c, w, h) == (0..(CeilDiv(c.n, w) - 1)) \X (0..(CeilDiv(c.m, h) - 1))

BlockWrites(c, w, h) ==
    {[block |-> b, thread |-> <<x, y>>, element |-> <<b[2] * h + y, b[1] * w + x>>] :
        b \in Blocks(c, w, h), x \in 0..(w - 1), y \in 0..(h - 1)}

\* Slice 0 of a block writes its row.
SingleWrites(c) == BlockWrites(c, WarpColumns, 1)

\* Plausible bug: every slice of a block writes a row, as in a whole group.
WholeGroup(m, first) == GroupRows

\* The rows of the group from row `first`.
RowsInGroup(m, first) == IF GroupRows < m - first THEN GroupRows ELSE m - first

\* Slice s writes row s of the group.
RowsWrites(c) ==
    {[block |-> b, thread |-> <<x, s>>, element |-> <<b[2] * GroupRows + s, b[1] * WarpColumns + x>>] :
        b \in Blocks(c, WarpColumns, GroupRows), x \in 0..(WarpColumns - 1), s \in 0..(SplitK - 1)}

TileWrites(c) ==
    LET width == WarpColumns * TileColumns
    IN  {[block |-> b, thread |-> <<x, s, i>>,
          element |-> <<b[2] * GroupRows + s, b[1] * width + x + i * WarpColumns>>] :
            b \in Blocks(c, width, GroupRows), x \in 0..(WarpColumns - 1),
            s \in 0..(SplitK - 1), i \in 0..(TileColumns - 1)}

\* The count of elements is cut to the width of a launch's parameter.
ElementWrites(c) ==
    {[block |-> b, thread |-> x, element |-> <<(b * ElementBlock + x) \div c.n, (b * ElementBlock + x) % c.n>>] :
        b \in 0..(CeilDiv((c.m * c.n) % CountWidth, ElementBlock) - 1), x \in 0..(ElementBlock - 1)}

MatmulWrites(c, kernel) ==
    LET all == CASE kernel = "pipelined" -> BlockWrites(c, TensorColumns, PipelineRows)
                 [] kernel = "tensor" -> BlockWrites(c, TensorColumns, TensorRows)
                 [] kernel = "single" -> SingleWrites(c)
                 [] kernel = "rows" -> RowsWrites(c)
                 [] kernel = "tile" -> TileWrites(c)
                 [] OTHER -> ElementWrites(c)
        Guarded(w) ==
            IF kernel \in {"rows", "tile"}
            THEN w.thread[2] < RowsInGroup(c.m, w.block[2] * GroupRows) /\ w.element[2] < c.n
            ELSE w.element[1] < c.m /\ w.element[2] < c.n
    IN  {w \in all : Guarded(w)}

----------------------------------------------------------------------------
(* The inners a slice of the split-K kernels adds, in the order it does.   *)

\* From one inner on, those a slice adds before `end`.
OneByOne(end) ==
    LET from[i \in Nat] == IF i < end THEN <<i>> \o from[i + SplitK] ELSE <<>> IN from

\* The loop that issues u loads at a time, and the loop for what is left.
UnrolledInners(u, slice, k) ==
    LET from[i \in Nat] ==
            IF i + (u - 1) * SplitK < k
            THEN [j \in 1..u |-> i + (j - 1) * SplitK] \o from[i + u * SplitK]
            ELSE OneByOne(k)[i]
    IN  from[slice]

\* Plausible bug: a tile's slices go on to its end, whatever k.
PastTheEnd(base, k) == base + TileInner

TileEnd(base, k) == IF base + TileInner < k THEN base + TileInner ELSE k

\* A row of a is staged TileInner inners at a time.
TiledInners(slice, k) ==
    LET tiles[base \in Nat] ==
            IF base < k THEN OneByOne(TileEnd(base, k))[base + slice] \o tiles[base + TileInner]
            ELSE <<>>
    IN  tiles[0]

SliceInners(kernel, slice, k) ==
    CASE kernel = "single" -> UnrolledInners(Unroll, slice, k)
      [] kernel = "rows" -> UnrolledInners(RowsUnroll, slice, k)
      [] kernel = "tile" -> TiledInners(slice, k)

\* An element of the output: its slices, in slice order.
Element(kernel, k) == [s \in 1..SplitK |-> SliceInners(kernel, s - 1, k)]

\* The order of providers/cpu.
AscendingElement(k) == From(0, k)

\* What a matmul computes an element by: two elements are the same float if
\* these are equal.
Arithmetic(c, kernel) ==
    CASE kernel \in {"single", "rows", "tile"} -> [by |-> "slices", sums |-> Element(kernel, c.k)]
      [] kernel = "element" -> [by |-> "one sum", sums |-> <<AscendingElement(c.k)>>]
      [] OTHER -> [by |-> kernel, sums |-> <<>>]

----------------------------------------------------------------------------
(* The fused silu(a x gate) * (a x up).                                    *)

\* One of its two products, as a matmul of its own.
Product(g, compact) ==
    [m |-> g.m, k |-> g.k, n |-> g.n, transposeA |-> g.transposeA, transposeB |-> g.transposeB,
     compact |-> compact]

\* Plausible bug: more rows than a grid has are left to the fused kernel.
SeparateIfTransposed(g) == g.transposeB

\* Three operations: two matmuls and silu_mul.  So is a product whose operands
\* have different inners, which matmul refuses: it is left out.
Separate(g) == g.transposeB \/ g.m > MaxGridRows

\* The arithmetic of the two products.
GatedArithmetic(g) ==
    LET gate == Product(g, g.gateCompact)
        up == Product(g, g.upCompact)
        tensor == LongCompact(gate) /\ LongCompact(up)
        fused == IF tensor /\ Aligned(gate) THEN "pipelined"
                 ELSE IF tensor /\ InnersAdjacent(gate) THEN "tensor"
                 ELSE SplitKernel(g.m)
    IN  IF Separate(g)
        THEN <<Arithmetic(gate, MatmulKernel(gate)), Arithmetic(up, MatmulKernel(up))>>
        ELSE <<Arithmetic(gate, fused), Arithmetic(up, fused)>>
=============================================================================
