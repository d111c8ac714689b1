-------------------------- MODULE CheckpointPromise --------------------------
(***************************************************************************)
(* What hw2 promises: a restart goes on with the memory a process had when *)
(* it was checkpointed, all of it, or does not go on at all.               *)
(***************************************************************************)
CONSTANTS
  Memories,  \* what the memory of the program may hold
  Nobody,    \* no process runs the program
  NoImage    \* no complete image exists

VARIABLES
  mem,  \* the memory of the process that runs the program, or Nobody
  img   \* the memory the image stands for, or NoImage

vars == <<mem, img>>

Init == mem \in Memories /\ img = NoImage

Work    == mem # Nobody /\ mem' \in Memories /\ UNCHANGED img
Save    == mem # Nobody /\ img' = mem /\ UNCHANGED mem
Die     == mem' = Nobody /\ UNCHANGED img
Restore == mem = Nobody /\ img # NoImage /\ mem' = img /\ UNCHANGED img
Discard == img' = NoImage /\ UNCHANGED mem

Next == Work \/ Save \/ Die \/ Restore \/ Discard
Spec == Init /\ [][Next]_vars
==============================================================================
