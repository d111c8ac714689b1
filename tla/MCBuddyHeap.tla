----------------------------- MODULE MCBuddyHeap -----------------------------
(* Instances of BuddyHeap for TLC: the threads are interchangeable. *)
EXTENDS BuddyHeap, TLC

ThreadSymmetry == Permutations(Threads)
==============================================================================
