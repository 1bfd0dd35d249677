-------------------------- MODULE MCCompletionStore --------------------------
EXTENDS CompletionStore, TLC

Symmetry == Permutations(Task) \cup Permutations(Caller)
=============================================================================
