----------------------------- MODULE MCArenaHeap -----------------------------
(* Instances of ArenaHeap for TLC: the threads are interchangeable. *)
EXTENDS ArenaHeap

ThreadSymmetry == Permutations(Threads)
==============================================================================
