------------------------------ MODULE Checkpoint ------------------------------
(***************************************************************************)
(* Checkpoint and restart (hw2): a signal handler writes every readable    *)
(* region of the process, each behind a header, and then its registers to  *)
(* ./myckpt; myrestart maps the regions back and jumps into the registers. *)
(*                                                                         *)
(* The image is a sequence of units: a header is one, the data of a region *)
(* as many as the region has, the registers ContextSize.  A read or write  *)
(* moves any number of them, or fails.  The process may be killed at any   *)
(* step; an image then stays as far as it has been written.                *)
(*                                                                         *)
(* One process at a time: the program, or the restarter that becomes it.   *)
(***************************************************************************)
EXTENDS Integers, SequencesExt

CONSTANTS
  Values,       \* what the pages of a region may hold
  Layout,       \* the lines of /proc/self/maps: [size, r, vsyscall] of each region
  Stack,        \* the region that holds the frame of sig_handler
  ContextSize,  \* sizeof(ucontext_t)
  Root,         \* whether the process may write to a file of mode 0400
  Nobody, NoImage

Regions == DOMAIN Layout

\* processRegion: a region counts as readable when its line says `r' and does
\* not name vsyscall.
IsReadable(line) == line.r /\ ~ line.vsyscall
Saved == {r \in Regions : IsReadable(Layout[r])}

\* What a page may hold does not say that there is no page.
ASSUME LayoutAssumption ==
  /\ "unmapped" \notin Values
  /\ Layout \in Seq([size : Nat \ {0}, r : BOOLEAN, vsyscall : BOOLEAN])
  /\ Stack \in Saved /\ ContextSize \in Nat \ {0} /\ Root \in BOOLEAN

VARIABLES
  memory,  \* what each region holds: of the stack, `restart'; "torn" is neither
  image,   \* ./myckpt: whether it is there, and its units
  pc,      \* where the process is; "dead" when there is none
  armed,   \* SIGUSR2 is handled: not in a restored process
  fd,      \* the descriptor of the image is good
  region,  \* the region being written or read
  at,      \* the offset in the image
  done,    \* how many units of the header, region or registers are through
  retry,   \* `retry' of my_read, my_write and read_exact
  off      \* read_already is no longer the offset

place == <<region, at, done, retry>>
vars == <<memory, image, pc, armed, fd, place, off>>

Unit(what, r, i, val) == [what |-> what, region |-> r, index |-> i, val |-> val]
Header(r) == Unit("header", r, 1, "none")
Context == [i \in 1 .. ContextSize |-> Unit("context", 0, i, "none")]
Data(r) == [i \in 1 .. Layout[r].size |-> Unit("data", r, i, memory[r])]

\* What is written at each place; what is read back has the same length.
Chunk == CASE pc = "header" -> <<Header(region)>>
           [] pc = "data" -> Data(region)
           [] OTHER -> Context
Wanted == CASE pc = "r_header" -> 1
            [] pc \in {"r_data", "data"} -> Layout[region].size
            [] OTHER -> Len(Chunk)
Left == Wanted - done

\* The process ends, by exit(1) or a kill, or runs code nobody wrote.
Stops(how) ==
  /\ pc' = how /\ memory' = [r \in Regions |-> "unmapped"]
  /\ armed' = FALSE /\ fd' = FALSE /\ off' = FALSE
  /\ region' = 0 /\ at' = 0 /\ done' = 0 /\ retry' = 0

\* my_read, my_write and read_exact call themselves with what is left, at most
\* three times.  Variant: a call that fails does not count.
RetryWhenShort(n) == IF n > 0 THEN retry + 1 ELSE retry
RetryAfter(n) == retry + 1
Again(n) ==
  IF RetryAfter(n) > 3
  THEN Stops("dead")
  ELSE /\ retry' = RetryAfter(n) /\ done' = done + n /\ at' = at + n
       /\ UNCHANGED <<memory, pc, armed, fd, region, off>>

\* The next header, region or registers begin.
Begin(to, r, n) ==
  pc' = to /\ region' = r /\ at' = at + n /\ done' = 0 /\ retry' = 0

\* The handler, or the restart, is through: the program goes on.
Resume == pc' = "run" /\ fd' = FALSE /\ region' = 0 /\ at' = 0 /\ done' = 0 /\ retry' = 0

Units == image.units

------------------------------------------------------------------------------
(* The program, its handler, and the kernel.                               *)

\* The program writes to its memory.
Work(r, v) ==
  /\ pc = "run" /\ r \in Saved \ {Stack} /\ v # memory[r]
  /\ memory' = [memory EXCEPT ![r] = v]
  /\ UNCHANGED <<image, pc, armed, fd, place, off>>

\* The values of `restart' around save_memory_regions: the memory that is
\* saved says 1.  Variant: it is set afterwards.
FlagSetLate == "clear"
FlagSaved == "restart"

\* open() creates a file of mode 0400: it fails when the file is there already,
\* unless the process is root's.  The handler goes on without a descriptor.
\* Variant: the mode lets the owner write.
OpensAnyway == TRUE
Opens == ~ image.there \/ Root
SigHandler ==
  /\ pc = "run" /\ armed
  /\ fd' \in {FALSE, Opens}
  /\ image' = [image EXCEPT !.there = @ \/ fd']
  /\ memory' = [memory EXCEPT ![Stack] = FlagSaved]
  /\ pc' = "maps"
  /\ UNCHANGED <<armed, place, off>>

\* save_memory_regions passes over what is not readable.
NextSaved(r) == CHOOSE n \in Saved : n > r /\ \A k \in Saved : k > r => n <= k
LastSaved(r) == \A k \in Saved : k <= r

\* my_read of /proc/self/maps.
ReadMaps ==
  /\ pc = "maps"
  /\ \/ Begin("header", NextSaved(0), 0) /\ UNCHANGED <<memory, armed, fd, off>>
     \/ Again(0)
  /\ UNCHANGED image

\* my_write: all that is left, less, or nothing.  Variant: what is left is
\* written from the beginning of the buffer.
RestFromStart(n) == SubSeq(Chunk, 1, n)
Rest(n) == SubSeq(Chunk, done + 1, done + n)
AfterChunk(n) ==
  \/ pc = "header" /\ Begin("data", region, n) /\ UNCHANGED fd
  \/ pc = "data" /\ ~ LastSaved(region) /\ Begin("header", NextSaved(region), n) /\ UNCHANGED fd
  \/ pc = "data" /\ LastSaved(region) /\ Begin("reset", 0, n) /\ UNCHANGED fd
  \/ pc = "context" /\ Resume

Patched(units, chunk) ==
  SubSeq(units, 1, at) \o chunk \o SubSeq(units, at + Len(chunk) + 1, Len(units))

Write(n) ==
  /\ pc \in {"header", "data", "context"} /\ (fd \/ n = 0) /\ n <= Left
  /\ image' = [image EXCEPT !.units = Patched(@, Rest(n))]
  /\ IF n = Left THEN AfterChunk(n) /\ UNCHANGED <<memory, armed, off>> ELSE Again(n)

\* restart = 0, then getcontext.
GetContext ==
  /\ pc = "reset"
  /\ memory' = [memory EXCEPT ![Stack] = "clear"]
  /\ pc' = "test"
  /\ UNCHANGED <<image, armed, fd, place, off>>

\* getcontext returns, in the process that called it or in a restored one.
TestRestart ==
  /\ pc = "test"
  /\ IF memory[Stack] = "restart" THEN Resume ELSE pc' = "context" /\ UNCHANGED <<fd, place>>
  /\ UNCHANGED <<memory, image, armed, off>>

Kill == pc # "dead" /\ Stops("dead") /\ UNCHANGED image

\* make clean-ckpt, while nobody writes or reads the file.
RemoveImage ==
  /\ pc \in {"run", "dead"} /\ image.there
  /\ image' = [there |-> FALSE, units |-> <<>>]
  /\ UNCHANGED <<memory, pc, armed, fd, place, off>>

------------------------------------------------------------------------------
(* myrestart.                                                              *)

\* The loop of restore_memory ends when as much is left as the registers take.
\* Variant: at the end of the file.
LoopEndsAtEnd(n) == ~ off' /\ Len(Units) - (at + n) = 0
LoopEnds(n) == ~ off' /\ Len(Units) - (at + n) = ContextSize
NextChunk(n) == Begin(IF LoopEnds(n) THEN "r_context" ELSE "r_header", 0, n)

\* The restarter starts, finds its stack, unmaps it and opens the image; where
\* one of these fails it exits.
Restart ==
  /\ pc = "dead" /\ image.there
  /\ off' = FALSE /\ NextChunk(0) /\ fd' = TRUE
  /\ UNCHANGED <<memory, image, armed>>

\* read_exact: all that is left, less, or nothing.  -1 is not below an unsigned
\* length, so it is taken as a count: no retry, and read_already loses a byte.
Reading == pc \in {"r_header", "r_data", "r_context"} /\ UNCHANGED image
ReadLess(n) == Reading /\ n < Left /\ at + n <= Len(Units) /\ Again(n)
Readable == at + Left <= Len(Units)
Got == SubSeq(Units, at - done + 1, at + Left)

\* A header: its region is mapped.  mmap fails where a region is mapped
\* already; what is not a header names any address at all.
ReadHeader ==
  /\ Reading /\ pc = "r_header" /\ Readable
  /\ \/ /\ Got[1].what = "header" /\ memory[Got[1].region] = "unmapped"
        /\ Begin("r_data", Got[1].region, Left)
        /\ memory' = [memory EXCEPT ![Got[1].region] = "torn"]
        /\ UNCHANGED <<armed, fd, off>>
     \/ Got[1].what # "header" /\ Stops("wild")
     \/ Stops("dead")

\* Its data, into the zero pages.
Filled == IF \A i \in DOMAIN Got : Got[i] = Unit("data", region, i, Got[1].val)
          THEN Got[1].val ELSE "torn"
ReadData ==
  /\ Reading /\ pc = "r_data" /\ Readable
  /\ memory' = [memory EXCEPT ![region] = Filled]
  /\ UNCHANGED off /\ NextChunk(Left)
  /\ UNCHANGED <<armed, fd>>

\* The registers: the process is the program again, where getcontext returns.
ReadContext ==
  /\ Reading /\ pc = "r_context" /\ Readable
  /\ IF Got = Context
     THEN /\ Begin("test", 0, Left) /\ fd' = FALSE
          /\ UNCHANGED <<memory, armed, off>>
     ELSE Stops("wild")

\* read fails: the header is what it was before (at first: anything), the pages
\* stay zero, the registers are zero.
ReadFails ==
  /\ Reading
  /\ \/ pc = "r_header" /\ \E how \in {"dead"} \cup (IF at = 0 THEN {"wild"} ELSE {}) : Stops(how)
     \/ pc = "r_data" /\ off' = TRUE /\ NextChunk(0) /\ UNCHANGED <<memory, armed, fd>>
     \/ pc = "r_context" /\ Stops("wild")

------------------------------------------------------------------------------
Init ==
  /\ memory \in [Regions -> Values \cup {"clear", "unmapped"}]
  /\ \A r \in Regions : memory[r] \in CASE r = Stack -> {"clear"}
                                         [] r \notin Saved -> {"unmapped"}
                                         [] OTHER -> Values
  /\ image = [there |-> FALSE, units |-> <<>>]
  /\ pc = "run" /\ armed = TRUE /\ fd = FALSE
  /\ region = 0 /\ at = 0 /\ done = 0 /\ retry = 0 /\ off = FALSE

Handler == ReadMaps \/ GetContext \/ TestRestart \/ \E n \in 0 .. Left : Write(n)
Restore ==
  \/ ReadHeader \/ ReadData \/ ReadContext \/ ReadFails
  \/ \E n \in 0 .. Left : ReadLess(n)

Next ==
  \/ \E r \in Regions, v \in Values : Work(r, v)
  \/ SigHandler \/ Handler \/ Restart \/ Restore \/ Kill \/ RemoveImage

Spec == Init /\ [][Next]_vars

\* A process that has been started is scheduled.
FairSpec == Spec /\ WF_vars(Handler) /\ WF_vars(Restore)
------------------------------------------------------------------------------
(* Properties.                                                             *)

\* The image of a memory, when it is written to its end.
Memories == [Saved \ {Stack} -> Values]
ASSUME NoMemoryAssumption == Nobody \notin Memories /\ NoImage \notin Memories

RegionImage(m, r) ==
  IF r \in Saved
  THEN <<Header(r)>> \o [i \in 1 .. Layout[r].size |->
                          Unit("data", r, i, IF r = Stack THEN "restart" ELSE m[r])]
  ELSE <<>>
ImageOf(m) == FlattenSeq([r \in Regions |-> RegionImage(m, r)]) \o Context
Images == {ImageOf(m) : m \in Memories}
Whole == Units \in Images

\* The restarter never takes data for a header, or one region's data for
\* another's, however short the reads and writes were and wherever the writer
\* was killed; in a whole image it finds the registers where it looks for them.
ReaderInStep ==
  ~ off /\ at < Len(Units) =>
    /\ pc = "r_header" => Units[at + 1].what \in {"header"} \cup (IF Whole THEN {} ELSE {"context"})
    /\ pc = "r_data" => Units[at + 1].what = "data" /\ Units[at + 1].region = region
    /\ pc = "r_context" /\ Whole => Units[at + 1].what = "context"

\* Of a restored process only `restart' in its old stack tells it from the one
\* that made the image: it never writes to the image.
RestoredNeverWrites == ~ armed => pc \notin {"maps", "header", "data", "context"}

\* A later checkpoint does not damage an image that is complete: the second
\* open of ckpt.c:43 fails, as the file has mode 0400.
ImageKept == [][Whole /\ image'.there => image' = image]_vars

\* A checkpoint and a restart come to an end, whatever read and write answer.
CallsEnd ==
  /\ pc \in {"maps", "header", "data", "reset", "test", "context"} ~> pc \in {"run", "dead"}
  /\ pc \in {"r_header", "r_data", "r_context"} ~> pc \in {"run", "dead", "wild"}

\* hw2 implements the promise: whoever runs the program has its memory as it
\* was at a checkpoint that was completed, whole.
Program == pc \in {"run", "maps", "header", "data", "reset", "test", "context"}
Promise == INSTANCE CheckpointPromise WITH
  mem <- IF Program THEN [r \in Saved \ {Stack} |-> memory[r]] ELSE Nobody,
  img <- IF Whole THEN CHOOSE m \in Memories : ImageOf(m) = Units ELSE NoImage
KeepsPromise == Promise!Spec
==============================================================================
