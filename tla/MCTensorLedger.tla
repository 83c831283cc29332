--------------------------- MODULE MCTensorLedger ----------------------------
EXTENDS TensorLedger, TLC

Symmetry == Permutations(Ids) \cup Permutations(Vals)
=============================================================================
