--------------------------- MODULE MCDeviceKernels ---------------------------
EXTENDS DeviceKernels, TLC

Matmul(ms, ks, ns) ==
    [m : ms, k : ks, n : ns, transposeA : BOOLEAN, transposeB : BOOLEAN, compact : BOOLEAN]
MCMatmulCalls == Matmul(1..9, {1, 4}, 1..9) \cup Matmul({1, 2, 4}, 1..30, {1})

MCGatedCalls ==
    [m : {1, 3, 4, 7, 8}, k : {1, 4, 5}, n : {1, 4, 5}, transposeA : BOOLEAN, transposeB : BOOLEAN,
     gateCompact : BOOLEAN, upCompact : BOOLEAN]

\* Heads of 1, 2, 4 and 5 dimensions: 2 and 4 have a grouped kernel, 2 and 4
\* a tiled one, 4 one for the Tensor Cores.
Attention(seqs, r, heads) ==
    {[seq |-> s, rows |-> r, keys |-> n, heads |-> h[1], kvHeads |-> h[2], dim |-> d,
      window |-> w, causal |-> c, captured |-> m # "eager", advances |-> m = "advancing"] :
        s \in seqs, n \in 1..r, h \in heads, d \in {1, 2, 4, 5},
        w \in {NoWindow, 1, 3, 4}, c \in BOOLEAN, m \in {"eager", "captured", "advancing"}}
MCAttentionCalls ==
    UNION {Attention({1}, r, {<<1, 1>>, <<4, 2>>, <<3, 1>>}) : r \in 1..9}
      \cup UNION {Attention({2, 3, 5, 7}, r, {<<1, 1>>}) : r \in {3, 6, 8, 9}}

MCGroupedDims == (2 :> 3) @@ (4 :> 2)
MCTiledDims == (2 :> 3) @@ (4 :> 2)

\* Zeros and small numbers of both signs, an infinity and a NaN.
Logits(n, bits) == [0..(n - 1) -> bits]
Row(logits, n, ranges, divided) ==
    [logits |-> logits, cols |-> n, row |-> 0, rows |-> 1, ranges |-> ranges, divided |-> divided]
Magnitudes == 0..(SignBit - 1)
Divisions == {[m \in Magnitudes |-> m],
              [m \in Magnitudes |-> IF m < Infinity THEN m \div 2 ELSE m],
              [m \in Magnitudes |-> IF m > 1 /\ m < Infinity THEN Infinity ELSE m]}
MCGreedyCalls ==
    UNION {{Row(l, n, r, d) : l \in Logits(n, {0, 1, 3, 5, 6, 8, 9, 10}), d \in Divisions,
                              r \in {<<>>, <<<<0, 1>>>>, <<<<1, 2>>, <<2, 9>>>>}} : n \in 0..3}
      \cup UNION {{Row(l, n, <<>>, d) : l \in Logits(n, {0, 8, 2}), d \in Divisions} : n \in 5..7}
=============================================================================
