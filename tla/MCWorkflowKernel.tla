-------------------------- MODULE MCWorkflowKernel --------------------------
EXTENDS WorkflowKernel, TLC

Symmetry == Permutations(ObservationIds) \cup Permutations(Fingerprints) \cup Permutations(Holdings)
=============================================================================
