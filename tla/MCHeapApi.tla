------------------------------ MODULE MCHeapApi ------------------------------
EXTENDS HeapApi, TLC

\* Threads and the bins of a thread are alike.
Symmetry == Permutations(Threads) \cup Permutations(Bins)
==============================================================================
