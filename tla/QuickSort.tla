------------------------------- MODULE QuickSort -------------------------------
(***************************************************************************)
(* hw1.asm: quick_sort on an array of string pointers, as the MIPS machine *)
(* runs it.  A step is a basic block; the registers and the stack are the  *)
(* machine's, and lengths and offsets are in bytes, four to a pointer.     *)
(* Pointers are abstracted to the strings they lead to.                    *)
(***************************************************************************)
EXTENDS Integers, SequencesExt

CONSTANTS
  Names,  \* the strings: sequences of ASCII codes, without the terminator
  Length  \* how many there are in the array

ASSUME ConstantsAssumption ==
  /\ Names \subseteq Seq(1 .. 127) /\ Names # {}
  /\ Length \in Nat \ {0}

Offsets == {4 * k : k \in 0 .. Length - 1}

VARIABLES
  input,           \* what the array held at first
  data,            \* the array at dataAddr
  pc,              \* the next basic block
  ra,              \* $ra
  a0, a1,          \* the arguments
  s0, s1, s2,      \* a, len, pivot: saved by whoever is called
  s3, s4,          \* i, last: not saved
  stack            \* the frames, the last one on top

args  == <<a0, a1>>
saved == <<s0, s1, s2>>
vars  == <<input, data, pc, ra, args, saved, s3, s4, stack>>

\* The characters of a string, and the terminator.
Char(x, i) == IF i \in DOMAIN x THEN x[i] ELSE 0

\* str_lt, whose name says the opposite: whether x is y or comes after it.
\* Variant: only the first characters are looked at.
StrLtFirst(x, y) == Char(x, 1) >= Char(y, 1)
StrLt(x, y) ==
  LET end == CHOOSE i \in 1 .. Len(x) + 1 :
               /\ Char(x, i) = 0 \/ Char(x, i) # Char(y, i)
               /\ \A j \in 1 .. i - 1 : Char(x, j) # 0 /\ Char(x, j) = Char(y, j)
  IN Char(x, end) >= Char(y, end)

\* swap_str_ptrs.
Swapped(i, j) == [data EXCEPT ![i] = data[j], ![j] = data[i]]

------------------------------------------------------------------------------
\* A call: its arguments, and where it comes back to.
Call(a, len, back) == pc' = "quick_sort" /\ a0' = a /\ a1' = len /\ ra' = back

\* One pointer or none: nothing to do.  Variant: none only.
NoneLeft(len) == len <= 0
AtMostOne(len) == len <= 4
QuickSortReturn ==
  /\ pc = "quick_sort" /\ AtMostOne(a1)
  /\ pc' = ra
  /\ UNCHANGED <<input, data, ra, args, saved, s3, s4, stack>>

\* The prologue, and the setup of the locals.
Frame == [ra |-> ra, s0 |-> s0, s1 |-> s1, s2 |-> s2]
Prologue ==
  /\ pc = "quick_sort" /\ ~ AtMostOne(a1)
  /\ stack' = Append(stack, Frame)
  /\ s0' = a0 /\ s1' = a1 /\ s2' = 0 /\ s3' = 0 /\ s4' = a1 - 4
  /\ pc' = "partition"
  /\ UNCHANGED <<input, data, ra, args>>

\* One turn of the loop, after which i has advanced in any case; the calls in it
\* leave their return address behind.
\* Variant: the branch passes over the increment too.
AdvancedIfSwapped(greater) == IF greater THEN s3 + 4 ELSE s3
Advanced(greater) == s3 + 4
Partition ==
  /\ pc = "partition"
  /\ LET greater == StrLt(data[s0 + s3], data[s0 + s4])
     IN /\ IF greater THEN data' = Swapped(s0 + s3, s0 + s2) /\ s2' = s2 + 4
                      ELSE UNCHANGED <<data, s2>>
        /\ s3' = Advanced(greater)
  /\ pc' = IF s3' < s4 THEN "partition" ELSE "place_pivot"
  /\ ra' = "partition"
  /\ UNCHANGED <<input, args, s0, s1, s4, stack>>

\* The pivot goes between the parts, and the left one is sorted.
PlacePivot ==
  /\ pc = "place_pivot"
  /\ data' = Swapped(s0 + s2, s0 + s4)
  /\ Call(s0, s2, "left_done")
  /\ UNCHANGED <<input, saved, s3, s4, stack>>

\* Then the right one, which begins behind the pivot.
SortRight ==
  /\ pc = "left_done"
  /\ Call(s0 + s2 + 4, s1 - s2 - 4, "right_done")
  /\ UNCHANGED <<input, data, saved, s3, s4, stack>>

\* The epilogue.  Variant: $s2 is not restored.
NotRestored == s2
Restored == Last(stack).s2
Epilogue ==
  /\ pc = "right_done"
  /\ s0' = Last(stack).s0 /\ s1' = Last(stack).s1 /\ s2' = Restored
  /\ ra' = Last(stack).ra /\ pc' = Last(stack).ra
  /\ stack' = Front(stack)
  /\ UNCHANGED <<input, data, args, s3, s4>>

Init ==
  /\ input \in [Offsets -> Names] /\ data = input
  /\ pc = "quick_sort" /\ ra = "main" /\ a0 = 0 /\ a1 = 4 * Length
  /\ s0 = 0 /\ s1 = 4 * Length /\ s2 = 0   \* as print_array leaves them
  /\ s3 = 0 /\ s4 = 0 /\ stack = <<>>

Next == QuickSortReturn \/ Prologue \/ Partition \/ PlacePivot \/ SortRight \/ Epilogue

Spec == Init /\ [][Next]_vars /\ WF_vars(Next)
------------------------------------------------------------------------------
(* Properties.                                                             *)

\* The calls under way: a, len and pivot of each, the callers' from the frames
\* that saved them.  The first frame holds what main had.
Calls ==
  {<<stack[k].s0, stack[k].s1, stack[k].s2>> : k \in 2 .. Len(stack)}
    \cup (IF stack = <<>> THEN {} ELSE {saved})

\* Every load and store of a call stays in the part of the array it was given,
\* and that part inside the array: a crossed index or an empty part would show.
InPart ==
  /\ \A c \in Calls : c[1] >= 0 /\ c[1] + c[2] <= 4 * Length /\ c[3] >= 0 /\ c[3] < c[2]
  /\ pc = "partition" => s2 <= s3 /\ s3 < s4 /\ s4 = s1 - 4
  /\ pc = "quick_sort" => a1 >= 0 /\ a0 >= 0 /\ a0 + a1 <= 4 * Length

\* A pivot that has been placed stays between its parts, while the calls below
\* it sort them: what is left of it sorts before it and what is right after it.
PivotsPlaced ==
  \A c \in Calls : (c # saved \/ pc \in {"left_done", "right_done"}) =>
    \A i \in Offsets :
      /\ c[1] <= i /\ i < c[1] + c[3] => StrLt(data[i], data[c[1] + c[3]])
      /\ c[1] + c[3] < i /\ i < c[1] + c[2] => ~ StrLt(data[i], data[c[1] + c[3]])

\* After is the order of the strings, from its definition: y is a proper prefix
\* of x, or smaller where they first differ.
After(x, y) ==
  \/ IsStrictPrefix(y, x)
  \/ \E i \in DOMAIN x \cap DOMAIN y : x[i] > y[i] /\ \A j \in 1 .. i - 1 : x[j] = y[j]

\* main gets the names it gave, none lost or doubled, in descending order, and
\* its registers as they were.
Copies(array, n) == Cardinality({i \in Offsets : array[i] = n})
Sorted ==
  pc = "main" =>
    /\ \A n \in Names : Copies(data, n) = Copies(input, n)
    /\ \A i, j \in Offsets : i < j => data[i] = data[j] \/ After(data[i], data[j])
    /\ stack = <<>> /\ saved = <<0, 4 * Length, 0>>

\* The sort comes to an end.
Terminates == <>(pc = "main")
==============================================================================
