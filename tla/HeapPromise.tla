----------------------------- MODULE HeapPromise -----------------------------
(***************************************************************************)
(* What an allocator promises to the program that calls it, whatever it   *)
(* does inside: the byte ranges it has handed out and not taken back never *)
(* share a byte.  hw3/malloc.h and hw4/malloc.h declare the calls.         *)
(***************************************************************************)
EXTENDS Integers

VARIABLE extents   \* the ranges the program holds: records [lo, len]

\* Two ranges share no byte.
Apart(e, f) == \/ e.lo + e.len <= f.lo
               \/ f.lo + f.len <= e.lo

Init == extents = {}

\* A call returns a range that is clear of every range still held.
Grant == \E e \in extents' :
            /\ e \notin extents
            /\ extents' = extents \cup {e}
            /\ \A f \in extents : Apart(e, f)

\* The program gives one range back.
Return == \E e \in extents : extents' = extents \ {e}

Next == Grant \/ Return

Spec == Init /\ [][Next]_extents
==============================================================================
