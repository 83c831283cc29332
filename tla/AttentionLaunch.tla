--------------------------- MODULE AttentionLaunch ---------------------------
(***************************************************************************)
(* Which kernel an attention launches, with how many blocks and how much   *)
(* shared memory, and which keys its threads score                         *)
(* (CudaKernels::attention_bounded, attention_split; attention_*_kernel).  *)
(* A captured launch is launched again by every replay, with the key count *)
(* and the query position moved on by an offset that the launch could not  *)
(* know.  Scores and values are left out; so are the Tensor Core kernels'  *)
(* inner loops, and row widths, which the code holds to the head counts.   *)
(*                                                                         *)
(* A call is a record: seq query rows; rows of K and V, keys of them that  *)
(* count (all, unless a key_count is given); heads, kvHeads, dim, window,  *)
(* causal; captured, and advances: its key_count is given and is one of    *)
(* the attributes that move on from replay to replay.                      *)
(***************************************************************************)
EXTENDS Integers, FiniteSets, Listing

CONSTANTS
    ChunkKeys,    \* ATTENTION_CHUNK_KEYS: 128
    GroupedDims,  \* grouped_decode_kernel, dimension -> keys: 64 -> 64, 128 -> 32
    MaxGroup,     \* ATTENTION_GQA_MAX_GROUP: 8
    PrefillRows,  \* rows from which the Tensor Core prefill may run: 16
    PrefillDims,  \* tensor_core_prefill_attention's: 64, 128; none without Tensor Cores
    PrefillAlign, \* TCP_ALIGN: 8
    TiledDims,    \* dimension -> key_tile of a tiled kernel: 4 -> 64, ..., 128 -> 32
    TileQueries,  \* ATTENTION_TILE_QUERIES: 64
    ReduceSlots,  \* ATTENTION_THREADS: 128
    SharedFloats, \* ATTENTION_MAX_SHARED_BYTES / 4
    NoWindow      \* no window_size

ASSUME AttentionConstantsOK ==
    /\ {ChunkKeys, MaxGroup, PrefillRows, PrefillAlign, TileQueries, ReduceSlots, SharedFloats}
         \subseteq Nat \ {0}
    /\ \A d \in DOMAIN GroupedDims : GroupedDims[d] \in Nat \ {0}
    /\ \A d \in DOMAIN TiledDims : TiledDims[d] \in Nat \ {0}
    /\ NoWindow \notin Nat

----------------------------------------------------------------------------
(* The checks, and the choice of a kernel.                                 *)

Accepted(c) ==
    /\ c.heads > 0 /\ c.dim > 0 /\ c.kvHeads > 0
    /\ c.heads % c.kvHeads = 0
    /\ c.window # 0
    /\ c.window # NoWindow => c.causal
    /\ c.keys <= c.rows
    /\ c.seq <= c.keys

\* The offset a launch is given reaches this far: end_capture refuses a
\* replay beyond it (advancing_offset).
Advances(c) == c.captured /\ c.advances
MaxOffset(c) == IF Advances(c) THEN c.rows - c.keys ELSE 0

\* Plausible bug: room for the scores of the step that was captured only.
ScoresOfThisStep(c) == c.keys

\* The scores a block keeps: a replay may admit every row.
ScoreRows(c) == IF Advances(c) THEN c.rows ELSE c.keys

FitsShared(c) == c.dim + ReduceSlots + ScoreRows(c) <= SharedFloats

\* The Tensor Cores, on K and V split into bfloat16 terms; or tiles of queries.
Prefills(c) ==
    /\ c.seq >= PrefillRows
    /\ c.dim \in PrefillDims
    /\ ~c.captured
    /\ (c.kvHeads * c.dim) % PrefillAlign = 0
Tiles(c) == c.dim \in DOMAIN TiledDims /\ ~c.captured

\* One thread for each query and head has no room for an offset.
WithoutBlock(c) == IF c.captured THEN "refused" ELSE "thread"

AttentionKernel(c) ==
    IF c.seq = 1 THEN "split"
    ELSE IF Prefills(c) THEN "prefill"
    ELSE IF Tiles(c) THEN "tiled"
    ELSE IF FitsShared(c) THEN "block"
    ELSE WithoutBlock(c)

----------------------------------------------------------------------------
(* The keys a query admits, as the kernels bound them; o is the offset.    *)

Position(c, query, o) == c.keys - c.seq + query + o

KeyUpper(c, query, o) == IF c.causal THEN Position(c, query, o) + 1 ELSE c.keys + o

Back(c) == c.window - 1
BackTo(c, position) == IF position > Back(c) THEN position - Back(c) ELSE 0

KeyLower(c, query, o) ==
    IF c.window = NoWindow THEN 0
    ELSE LET lower == BackTo(c, Position(c, query, o)) upper == KeyUpper(c, query, o)
         IN  IF lower > upper THEN upper ELSE lower

----------------------------------------------------------------------------
(* A decode step: its keys in chunks, each scored by blocks of its own,    *)
(* one per head or one per group of heads.                                 *)

Group(c) == c.heads \div c.kvHeads
Grouped(c) == c.dim \in DOMAIN GroupedDims /\ Group(c) <= MaxGroup

KeysPerChunk(c) == IF Grouped(c) THEN GroupedDims[c.dim] ELSE ChunkKeys

\* Plausible bug: chunks for the keys there are now.
ChunksOfThisStep(c) ==
    LET n == (c.keys + KeysPerChunk(c) - 1) \div KeysPerChunk(c) IN IF n > 1 THEN n ELSE 1

\* Every key a replay may admit has a chunk.
ChunkCount(c) ==
    LET n == (c.rows + KeysPerChunk(c) - 1) \div KeysPerChunk(c) IN IF n > 1 THEN n ELSE 1

\* The keys first..last - 1 of a chunk.
ChunkFirst(c, chunk, o) == KeyLower(c, 0, o) + chunk * KeysPerChunk(c)
ChunkLast(c, chunk, o) ==
    LET last == ChunkFirst(c, chunk, o) + KeysPerChunk(c)
    IN  IF last > KeyUpper(c, 0, o) THEN KeyUpper(c, 0, o) ELSE last
ChunkOfKeys(c, chunk, o) == ChunkFirst(c, chunk, o)..(ChunkLast(c, chunk, o) - 1)

\* The blocks of the split kernel.
SplitBlocks(c) == (0..(ChunkCount(c) - 1)) \X (0..((IF Grouped(c) THEN c.kvHeads ELSE c.heads) - 1))

\* Plausible bug: a group's heads are numbered as if groups had one each.
HeadsWithoutGroup(c, b) == IF Grouped(c) THEN {b[2] + g : g \in 0..(Group(c) - 1)} ELSE {b[2]}

\* The heads that a block serves.
BlockHeads(c, b) == IF Grouped(c) THEN {b[2] * Group(c) + g : g \in 0..(Group(c) - 1)} ELSE {b[2]}

\* Where in the scratch a block writes a head's partial, dim + 2 floats, and
\* how many floats the scratch holds.
PartialAt(c, head, chunk) == (head * ChunkCount(c) + chunk) * (c.dim + 2)
PartialFloats(c) == c.heads * ChunkCount(c) * (c.dim + 2)

\* The head of K and V it reads.
KvHead(c, head) == head \div Group(c)

----------------------------------------------------------------------------
(* A prefill: tiles of queries pass over tiles of keys.                    *)

TileFirst(query) == (query \div TileQueries) * TileQueries

\* The last query of a tile, and its first, bound the keys it stages.
TileUpper(c, query) ==
    LET last == TileFirst(query) + TileQueries - 1
    IN  KeyUpper(c, IF last >= c.seq THEN c.seq - 1 ELSE last, 0)

\* Plausible bug: the tile starts where its last query's window does.
TileLowerOfLast(c, query) ==
    IF c.window = NoWindow THEN 0
    ELSE LET last == TileFirst(query) + TileQueries - 1
         IN  BackTo(c, Position(c, IF last >= c.seq THEN c.seq - 1 ELSE last, 0))

TileLower(c, query) ==
    IF c.window = NoWindow THEN 0 ELSE BackTo(c, Position(c, TileFirst(query), 0))

\* The keys of a tile that starts at `tile` end before this one.
TileEndKey(c, query, tile) ==
    LET width == TiledDims[c.dim] upper == TileUpper(c, query)
    IN  IF upper - tile < width THEN upper ELSE tile + width

Admits(c, query, key) == key >= KeyLower(c, query, 0) /\ key < KeyUpper(c, query, 0)

\* The keys a query scores of a tile, and of all, tile by tile of staged keys.
KeysOfTile(c, query, tile) ==
    LET from[key \in Nat] ==
            IF key < TileEndKey(c, query, tile)
            THEN (IF Admits(c, query, key) THEN <<key>> ELSE <<>>) \o from[key + 1]
            ELSE <<>>
    IN  from[tile]

TiledKeys(c, query) ==
    LET from[tile \in Nat] ==
            IF tile < TileUpper(c, query)
            THEN KeysOfTile(c, query, tile) \o from[tile + TiledDims[c.dim]]
            ELSE <<>>
    IN  from[TileLower(c, query)]

\* The other kernels go from the lower to the upper bound.
RangeOfKeys(c, query, o) ==
    From(KeyLower(c, query, o), KeyUpper(c, query, o) - KeyLower(c, query, o))

----------------------------------------------------------------------------
(* What attention is to compute, as providers/cpu has it.                  *)

\* Of a history of n keys, a query at a position attends to itself and the
\* keys before, or to all, and with a window to that many keys at most.
Attended(c, position, n) ==
    {key \in 0..(n - 1) :
        /\ c.causal => key <= position
        /\ c.window # NoWindow => position - key < c.window}
=============================================================================
