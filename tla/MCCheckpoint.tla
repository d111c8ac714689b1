---------------------------- MODULE MCCheckpoint ----------------------------
(* Instances of Checkpoint for TLC: the memory map of a small process.   *)
EXTENDS Checkpoint

\* Data, a guard page, a larger region, the stack, and vsyscall, which is above
\* it and cannot be read although its line says it can.
Line(size, r, vsyscall) == [size |-> size, r |-> r, vsyscall |-> vsyscall]
FiveRegions == <<Line(2, TRUE, FALSE), Line(1, FALSE, FALSE), Line(4, TRUE, FALSE),
                 Line(2, TRUE, FALSE), Line(1, TRUE, TRUE)>>
==============================================================================
