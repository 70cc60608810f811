--------------------------- MODULE MCMutationLock ---------------------------
EXTENDS MutationLock, TLC

Symmetry == Permutations(Processes)
=============================================================================
