-------------------------- MODULE MCDispatchThreads --------------------------
EXTENDS DispatchThreads, TLC

Symmetry == Permutations(Threads) \cup Permutations(Ids) \cup Permutations(Buffers)
=============================================================================
