----------------------------- MODULE MCRecovery -----------------------------
EXTENDS Recovery, TLC

Symmetry == Permutations(Coordinators) \cup Permutations(Names)
=============================================================================
