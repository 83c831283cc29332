-------------------------- MODULE MCKernelExecutions -------------------------
EXTENDS KernelExecutions, TLC

Symmetry == Permutations(Threads) \cup Permutations(Invocations)
=============================================================================
