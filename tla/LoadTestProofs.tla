---------------------------- MODULE LoadTestProofs ----------------------------
(***************************************************************************)
(* LoadTest for any number of threads: the mutex is main's or one          *)
(* thread's, a flag tells exactly that its thread has come past its work   *)
(* (IInv), and main's counts are what it can see of its threads.           *)
(***************************************************************************)
EXTENDS LoadTest, NumberLemmas, FiniteSetTheorems

MainPlaces == {"start", "loop", "wait", "relock", "scan", "done", "exit"}

TypeOK ==
  /\ n_thr \in ThreadCounts /\ n_total_max \in Totals
  /\ pc \in MainPlaces /\ i \in 0 .. n_thr
  /\ n_running \in Int /\ n_total \in Nat
  /\ flags \in [Slots -> BOOLEAN] /\ thread \in [Slots -> Places]
  /\ turns \in [Slots -> Nat]
  /\ mutex \in Slots \cup {Main, Nobody} /\ woken \in BOOLEAN

\* finish_mutex is held by main outside its wait, or by one thread.
MutexHeld ==
  /\ pc \in {"start", "loop", "scan"} => mutex = Main
  /\ \A t \in Slots : thread[t] \in {"flag", "signal", "unlock"} => mutex = t

\* A flag is set from its thread's SetFlag to main's join of it.
FlagsTrue == \A t \in Slots : flags[t] <=> thread[t] \in {"signal", "unlock", "exited"}

\* main's scan leaves no flag behind, and uses the slots below n_thr.
ScannedClear ==
  /\ \A t \in Slots : thread[t] # "none" => t < n_thr
  /\ pc = "start" => \A t \in Slots : t >= i => thread[t] = "none"
  /\ pc \in {"start", "loop"} => \A t \in Slots : ~ flags[t]
  /\ pc = "scan" => \A t \in Slots : t < i => ~ flags[t]

IInv == TypeOK /\ MutexHeld /\ FlagsTrue /\ ScannedClear /\ NoLostWakeUp

------------------------------------------------------------------------------
\* A finite set of numbers has a greatest element, which is its Max.
LEMMA MaxOfFinite ==
  ASSUME NEW T \in SUBSET Nat, T # {}, IsFiniteSet(T)
  PROVE  Max(T) \in T /\ \A x \in T : x <= Max(T)
<1>1. PICK n \in Nat : ExistsSurjection(1 .. n, T)
  BY FS_NatSurjection
<1>2. PICK f \in [1 .. n -> T] : \A x \in T : \E j \in 1 .. n : f[j] = x
  BY <1>1 DEF ExistsSurjection, Surjection
<1>3. PICK b \in Nat : \A j \in 1 .. n : f[j] <= b
  <2>1. f \in [1 .. n -> Nat]
    OBVIOUS
  <2> QED
    BY <2>1, FunctionBounded
<1>4. \A x \in T : x <= b
  BY <1>2, <1>3
<1>5. \E x \in T : \A y \in T : x >= y
  BY <1>4, GreatestNumber
<1>6. Max(T) \in T /\ \A y \in T : Max(T) >= y
  BY <1>5 DEF Max
<1> QED
  BY <1>6

\* n_thr slots are used of those there are.
LEMMA SlotFacts ==
  /\ Max(ThreadCounts) \in Nat \ {0}
  /\ \A n \in ThreadCounts : n \in Nat \ {0} /\ 0 .. n - 1 \subseteq Slots
  /\ Slots \subseteq Nat /\ IsFiniteSet(Slots)
<1>1. /\ Max(ThreadCounts) \in ThreadCounts
      /\ \A n \in ThreadCounts : n <= Max(ThreadCounts) /\ n \in Nat \ {0}
  BY ConstantsAssumption, MaxOfFinite
<1> QED
  BY <1>1, FS_Interval, SMTT(30) DEF Slots

------------------------------------------------------------------------------
\* The program starts with no thread, and main has the mutex.
LEMMA InitIInv == Init => IInv
<1> SUFFICES ASSUME Init PROVE IInv
  OBVIOUS
<1>1. TypeOK
  <2>1. n_thr \in ThreadCounts /\ i \in 0 .. n_thr
    BY SlotFacts DEF Init
  <2> QED
    <3>1. /\ flags \in [Slots -> BOOLEAN] /\ thread \in [Slots -> Places]
          /\ turns \in [Slots -> Nat]
      BY DEF Init, Places
    <3>2. pc \in MainPlaces /\ mutex \in Slots \cup {Main, Nobody}
      BY DEF Init, MainPlaces
    <3>3. n_running \in Int /\ n_total \in Nat /\ n_total_max \in Totals
      BY DEF Init
    <3>4. woken \in BOOLEAN
      BY DEF Init
    <3> QED
      BY <2>1, <3>1, <3>2, <3>3, <3>4 DEF TypeOK
<1> QED
  BY <1>1 DEF Init, IInv, MutexHeld, FlagsTrue, ScannedClear, NoLostWakeUp, Main, Nobody

\* A thread of its own, and a place that it moves to.
LEMMA MovesFacts ==
  ASSUME TypeOK, NEW t \in Slots, NEW from \in Places \ {"none"},
         NEW to \in Places \ {"none"}, Moves(t, from, to)
  PROVE  /\ thread' \in [Slots -> Places]
         /\ thread[t] = from /\ thread'[t] = to
         /\ \A u \in Slots \ {t} : thread'[u] = thread[u]
BY DEF Moves, TypeOK

\* A thread that makes turns, is through, or ends the process: only the thread
\* that holds the mutex sets its flag, signals and gives the mutex up.
LEMMA ThreadIInv ==
  ASSUME IInv, NEW t \in Slots,
         \/ Finishes(t) \/ Exit(t) \/ \E f, a \in Actions : Turn(t, f, a)
  PROVE  IInv'
<1> USE DEF IInv
<1>1. CASE Through(t)
  <2>1. /\ thread' \in [Slots -> Places] /\ thread[t] = "work" /\ thread'[t] = "lock"
        /\ \A u \in Slots \ {t} : thread'[u] = thread[u]
    BY <1>1, MovesFacts DEF Through, Places
  <2>2. UNCHANGED <<args, pc, i, counts, flags, turns, mutex, woken>>
    BY <1>1 DEF Through
  <2> QED
    BY <2>1, <2>2 DEF TypeOK, MutexHeld, FlagsTrue, ScannedClear,
       NoLostWakeUp, args, counts
<1>2. CASE LockFinish(t)
  <2>1. /\ thread' \in [Slots -> Places] /\ thread[t] = "lock" /\ thread'[t] = "flag"
        /\ \A u \in Slots \ {t} : thread'[u] = thread[u]
    BY <1>2, MovesFacts DEF LockFinish, Places
  <2>2. /\ UNCHANGED <<args, pc, i, counts, flags, turns, woken>>
        /\ mutex = Nobody /\ mutex' = t
    BY <1>2 DEF LockFinish, MutexFree
  <2>3. pc \notin {"start", "loop", "scan"} /\ \A u \in Slots : mutex # u
    BY <2>2, SlotFacts DEF MutexHeld, Main, Nobody
  <2> QED
    BY <2>1, <2>2, <2>3 DEF TypeOK, MutexHeld, FlagsTrue, ScannedClear,
       NoLostWakeUp, args, counts
<1>3. CASE SetFlag(t)
  <2>1. /\ thread' \in [Slots -> Places] /\ thread[t] = "flag" /\ thread'[t] = "signal"
        /\ \A u \in Slots \ {t} : thread'[u] = thread[u]
    BY <1>3, MovesFacts DEF SetFlag, Places
  <2>2. /\ UNCHANGED <<args, pc, i, counts, turns, mutex, woken>>
        /\ flags' = [flags EXCEPT ![t] = TRUE]
    BY <1>3 DEF SetFlag
  <2>3. pc \notin {"start", "loop", "scan"}
    BY <2>1, SlotFacts DEF MutexHeld, Main
  <2> QED
    BY <2>1, <2>2, <2>3 DEF TypeOK, MutexHeld, FlagsTrue, ScannedClear,
       NoLostWakeUp, args, counts
<1>4. CASE Signal(t)
  <2>1. /\ thread' \in [Slots -> Places] /\ thread[t] = "signal" /\ thread'[t] = "unlock"
        /\ \A u \in Slots \ {t} : thread'[u] = thread[u]
    BY <1>4, MovesFacts DEF Signal, Places
  <2>2. /\ UNCHANGED <<args, pc, i, counts, flags, turns, mutex>>
        /\ woken' = (woken \/ pc = "wait")
    BY <1>4 DEF Signal
  <2> QED
    BY <2>1, <2>2 DEF TypeOK, MutexHeld, FlagsTrue, ScannedClear,
       NoLostWakeUp, args, counts
<1>5. CASE UnlockFinish(t)
  <2>1. /\ thread' \in [Slots -> Places] /\ thread[t] = "unlock" /\ thread'[t] = "exited"
        /\ \A u \in Slots \ {t} : thread'[u] = thread[u]
    BY <1>5, MovesFacts DEF UnlockFinish, Places
  <2>2. /\ UNCHANGED <<args, pc, i, counts, flags, turns, woken>> /\ mutex' = Nobody
    BY <1>5 DEF UnlockFinish
  <2>3. mutex = t /\ t # Main
    BY <2>1, SlotFacts DEF MutexHeld, Main
  <2>4. \A u \in Slots \ {t} : thread[u] \notin {"flag", "signal", "unlock"}
    BY <2>3 DEF MutexHeld
  <2> QED
    BY <2>1, <2>2, <2>3, <2>4 DEF TypeOK, MutexHeld, FlagsTrue, ScannedClear,
       NoLostWakeUp, args, counts
<1>6. CASE Exit(t)
  BY <1>6 DEF Exit, TypeOK, MutexHeld, FlagsTrue, ScannedClear,
     NoLostWakeUp, args, counts, MainPlaces
<1>7. ASSUME NEW f \in Actions, NEW a \in Actions, Turn(t, f, a) PROVE IInv'
  <2>1. turns' \in [Slots -> Nat]
    BY <1>7, ConstantsAssumption DEF Turn, TypeOK
  <2>2. UNCHANGED <<args, pc, i, counts, flags, thread, mutex, woken>>
    BY <1>7 DEF Turn
  <2> QED
    BY <2>1, <2>2 DEF TypeOK, MutexHeld, FlagsTrue, ScannedClear,
       NoLostWakeUp, args, counts
<1> QED
  BY <1>1, <1>2, <1>3, <1>4, <1>5, <1>6, <1>7 DEF Finishes

\* A slot that is started has a thread at work, or none.
LEMMA StartThreadFacts ==
  ASSUME TypeOK, NEW t \in Slots, StartThread(t)
  PROVE  /\ thread' \in [Slots -> Places] /\ turns' \in [Slots -> Nat]
         /\ thread'[t] \in {"none", "work"}
         /\ \A u \in Slots \ {t} : thread'[u] = thread[u]
         /\ FALSE \notin Created => thread'[t] = "work"
<1>1. PICK created \in Created :
        /\ thread' = [thread EXCEPT ![t] = IF created THEN "work" ELSE "none"]
        /\ turns' = [turns EXCEPT ![t] = 0]
  BY DEF StartThread
<1>2. created \in BOOLEAN
  BY ConstantsAssumption
<1> QED
  BY <1>1, <1>2 DEF TypeOK, Places

\* main: its scans leave no flag behind when it gives the mutex up to wait.
LEMMA MainIInv == ASSUME IInv, MainStep \/ WakeUp PROVE IInv'
<1> USE DEF IInv
<1>0. n_thr \in Nat \ {0} /\ 0 .. n_thr - 1 \subseteq Slots /\ Slots \subseteq Nat /\ i \in Nat
  BY SlotFacts DEF TypeOK
<1>1. CASE StartAll
  <2>1. /\ pc = "start" /\ i < n_thr /\ StartThread(i) /\ i' = i + 1
        /\ UNCHANGED <<args, pc, counts, flags, mutex, woken>>
    BY <1>1 DEF StartAll, MoreSlots
  <2>2. i \in Slots /\ thread[i] = "none"
    BY <1>0, <2>1 DEF ScannedClear
  <2>3. /\ thread' \in [Slots -> Places] /\ turns' \in [Slots -> Nat]
        /\ thread'[i] \in {"none", "work"}
        /\ \A u \in Slots \ {i} : thread'[u] = thread[u]
    BY <2>1, <2>2, StartThreadFacts
  <2>4. i' \in 0 .. n_thr
    BY <1>0, <2>1
  <2> QED
    BY <1>0, <2>1, <2>2, <2>3, <2>4
       DEF TypeOK, MutexHeld, FlagsTrue, ScannedClear,
       NoLostWakeUp, args, counts
<1>2. CASE AllStarted
  BY <1>0, <1>2 DEF AllStarted, TypeOK, MutexHeld, FlagsTrue, ScannedClear,
     NoLostWakeUp, args, counts, MainPlaces
<1>3. CASE CondWait
  <2>1. /\ pc = "loop" /\ pc' = "wait" /\ mutex = Main /\ mutex' = Nobody /\ woken' = FALSE
        /\ UNCHANGED <<args, i, counts, flags, thread, turns>>
    BY <1>3 DEF CondWait, MutexHeld
  <2>2. \A t \in Slots : thread[t] \notin {"flag", "signal", "unlock"}
    BY <1>0, <2>1 DEF MutexHeld, Main
  <2> QED
    BY <2>1, <2>2 DEF TypeOK, MutexHeld, FlagsTrue, ScannedClear, NoLostWakeUp,
       args, counts, MainPlaces
<1>4. CASE WakeUp
  BY <1>4 DEF WakeUp, TypeOK, MutexHeld, FlagsTrue, ScannedClear,
     NoLostWakeUp, args, counts, MainPlaces
<1>5. CASE Relock
  <2>1. /\ pc = "relock" /\ pc' = "scan" /\ mutex = Nobody /\ mutex' = Main /\ i' = 0
        /\ UNCHANGED <<args, counts, flags, thread, turns, woken>>
    BY <1>5 DEF Relock
  <2>2. \A t \in Slots : thread[t] \notin {"flag", "signal", "unlock"} /\ ~ (t < 0)
    BY <1>0, <2>1 DEF MutexHeld, Nobody
  <2> QED
    BY <1>0, <2>1, <2>2 DEF TypeOK, MutexHeld, FlagsTrue, ScannedClear, NoLostWakeUp,
       args, counts, MainPlaces
<1>6. CASE NotFlagged
  <2>1. /\ pc = "scan" /\ i < n_thr /\ ~ flags[i] /\ i' = i + 1
        /\ UNCHANGED <<args, pc, counts, flags, thread, turns, mutex, woken>>
    BY <1>6 DEF NotFlagged, MoreSlots
  <2>2. i' \in 0 .. n_thr /\ \A t \in Slots : t < i' => t < i \/ t = i
    BY <1>0, <2>1
  <2> QED
    BY <2>1, <2>2 DEF TypeOK, MutexHeld, FlagsTrue, ScannedClear,
       NoLostWakeUp, args, counts
<1>7. CASE EndThread
  <2>1. /\ pc = "scan" /\ i < n_thr /\ flags[i] /\ i' = i + 1
        /\ flags' = [flags EXCEPT ![i] = FALSE]
        /\ UNCHANGED <<args, pc, mutex, woken>>
    BY <1>7 DEF EndThread, MoreSlots, AfterJoin
  <2>2. /\ i \in Slots /\ i' \in 0 .. n_thr
        /\ \A t \in Slots : t < i' => t < i \/ t = i
    BY <1>0, <2>1
  <2>3. /\ thread' \in [Slots -> Places] /\ turns' \in [Slots -> Nat]
        /\ thread'[i] \in {"none", "work"}
        /\ \A u \in Slots \ {i} : thread'[u] = thread[u]
        /\ n_running' \in Int /\ n_total' \in Nat
    <3>1. CASE Enough
      BY <1>7, <2>2, <3>1 DEF EndThread, TypeOK, Places
    <3>2. CASE ~ Enough
      <4>1. /\ StartThread(i) /\ n_running' = n_running /\ n_total' = n_total + 1
        BY <1>7, <3>2 DEF EndThread
      <4>2. n_running' \in Int /\ n_total' \in Nat
        BY <4>1 DEF TypeOK
      <4> QED
        BY <2>2, <4>1, <4>2, StartThreadFacts
    <3> QED
      BY <3>1, <3>2
  <2>4. flags' \in [Slots -> BOOLEAN] /\ ~ flags'[i]
        /\ \A u \in Slots \ {i} : flags'[u] = flags[u]
    BY <2>1, <2>2 DEF TypeOK
  <2> QED
    BY <2>1, <2>2, <2>3, <2>4
       DEF TypeOK, MutexHeld, FlagsTrue, ScannedClear, NoLostWakeUp, args
<1>8. CASE AllScanned
  <2>1. \A t \in Slots : thread[t] # "none" => t < i
    BY <1>8 DEF AllScanned, ScannedClear
  <2>2. \A t \in Slots : ~ flags[t]
    BY <1>8, <2>1 DEF AllScanned, ScannedClear, FlagsTrue
  <2> QED
    BY <1>8, <2>2 DEF AllScanned, TypeOK, MutexHeld, FlagsTrue, ScannedClear, NoLostWakeUp,
       args, counts, MainPlaces
<1>9. CASE Done
  <2>1. \A t \in Slots : thread[t] \notin {"flag", "signal", "unlock"}
    BY <1>0, <1>9 DEF Done, MutexHeld, Main
  <2> QED
    BY <1>9, <2>1 DEF Done, TypeOK, MutexHeld, FlagsTrue, ScannedClear, NoLostWakeUp,
       args, counts, MainPlaces
<1> QED
  BY <1>1, <1>2, <1>3, <1>4, <1>5, <1>6, <1>7, <1>8, <1>9 DEF MainStep

\* Every step keeps the invariant.
LEMMA NextIInv == IInv /\ [Next]_vars => IInv'
<1> SUFFICES ASSUME IInv, [Next]_vars PROVE IInv'
  OBVIOUS
<1>1. CASE UNCHANGED vars
  BY <1>1 DEF vars, args, counts, IInv, TypeOK, MutexHeld, FlagsTrue, ScannedClear,
     NoLostWakeUp
<1> QED
  BY <1>1, ThreadIInv, MainIInv DEF Next

\* The inductive invariant holds in every state.
LEMMA Invariance == Spec => []IInv
BY InitIInv, NextIInv, PTL DEF Spec

\* However threads, wake-ups for nothing and signals that nobody waits for
\* interleave, main does not wait beside a flag without a signal on its way: for
\* any number of threads, also when pthread_create fails.
THEOREM NoSignalIsLost == Spec => []NoLostWakeUp
<1>1. IInv => NoLostWakeUp
  BY DEF IInv
<1> QED
  BY <1>1, Invariance, PTL

\* pthread_join, which main calls with the mutex locked, never waits: the thread
\* of a flag that main sees has given the mutex up and is gone.
THEOREM JoinsNeverWait == Spec => []JoinsReturn
<1>1. IInv => JoinsReturn
  BY SlotFacts DEF IInv, JoinsReturn, FlagsTrue, MutexHeld, Main
<1> QED
  BY <1>1, Invariance, PTL

------------------------------------------------------------------------------
(* main's counts, where every pthread_create succeeds.                     *)

\* What main knows of its threads at each point of its way.
Counts ==
  /\ pc = "start" => Alive = 0 .. i - 1 /\ n_total = 0
  /\ pc \in {"loop", "wait", "relock", "scan", "done"} => n_running = Cardinality(Alive)
  /\ n_total <= n_thr \/ n_total <= n_total_max

\* Every step keeps the counts: main counts a thread as it starts it, and no
\* longer once it has joined it.
LEMMA NextCounts ==
  ASSUME FALSE \notin Created, IInv, Counts, [Next]_vars
  PROVE  Counts'
<1>0. /\ n_thr \in Nat \ {0} /\ 0 .. n_thr - 1 \subseteq Slots /\ Slots \subseteq Nat
      /\ i \in Nat /\ IsFiniteSet(Alive)
      /\ n_total_max \in Int /\ n_total \in Nat /\ n_running \in Int
  BY SlotFacts, FS_Subset, ConstantsAssumption DEF IInv, TypeOK, Alive
<1>2. CASE UNCHANGED vars
  BY <1>2 DEF vars, args, counts, Alive, Counts
<1>3. ASSUME NEW t \in Slots,
             Finishes(t) \/ Exit(t) \/ \E f, a \in Actions : Turn(t, f, a)
      PROVE  Counts'
  <2>1. /\ UNCHANGED <<i, n_running, n_total, n_thr, n_total_max>>
        /\ pc' = pc \/ pc' = "exit"
    BY <1>3 DEF Finishes, Through, LockFinish, SetFlag, Signal, UnlockFinish, Exit, Turn,
       args, counts
  <2>2. Alive' = Alive
    BY <1>3 DEF Finishes, Through, LockFinish, SetFlag, Signal, UnlockFinish, Exit, Turn,
       Moves, Alive, IInv, TypeOK
  <2> QED
    BY <2>1, <2>2 DEF Counts
<1>4. CASE StartAll
  <2>1. /\ pc = "start" /\ pc' = "start" /\ i < n_thr /\ StartThread(i) /\ i' = i + 1
        /\ UNCHANGED <<n_running, n_total, n_thr, n_total_max>>
    BY <1>4 DEF StartAll, MoreSlots, args, counts
  <2>2. i \in Slots
    BY <1>0, <2>1
  <2>3. thread'[i] = "work" /\ \A u \in Slots \ {i} : thread'[u] = thread[u]
    BY <2>1, <2>2, StartThreadFacts DEF IInv
  <2>4. Alive' = Alive \cup {i}
    BY <2>2, <2>3 DEF Alive
  <2>5. (0 .. i - 1) \cup {i} = 0 .. i' - 1
    BY <1>0, <2>1
  <2> QED
    BY <2>1, <2>4, <2>5 DEF Counts
<1>5. CASE AllStarted
  <2>1. /\ pc = "start" /\ i = n_thr /\ n_running' = n_thr /\ n_total' = n_thr
        /\ pc' = "loop" /\ UNCHANGED <<n_thr, n_total_max, thread>>
    BY <1>5 DEF AllStarted, args
  <2>2. Alive' = 0 .. n_thr - 1
    BY <2>1 DEF Counts, Alive
  <2>3. Cardinality(0 .. n_thr - 1) = n_thr
    BY <1>0, FS_Interval
  <2> QED
    BY <1>0, <2>1, <2>2, <2>3 DEF Counts
<1>6. CASE EndThread
  <2>1. /\ pc = "scan" /\ pc' = "scan" /\ i < n_thr /\ flags[i] /\ thread[i] = "exited"
        /\ UNCHANGED <<n_thr, n_total_max>>
    BY <1>6 DEF EndThread, MoreSlots, args
  <2>2. i \in Slots /\ i \in Alive
    BY <1>0, <2>1 DEF Alive
  <2>3. CASE Enough
    <3>1. n_running' = n_running - 1 /\ n_total' = n_total
          /\ thread' = [thread EXCEPT ![i] = "none"]
      BY <1>6, <2>3 DEF EndThread
    <3>2. Alive' = Alive \ {i}
      BY <2>2, <3>1 DEF Alive, IInv, TypeOK
    <3>3. Cardinality(Alive \ {i}) = Cardinality(Alive) - 1
      BY <1>0, <2>2, FS_RemoveElement
    <3> QED
      BY <2>1, <3>1, <3>2, <3>3 DEF Counts
  <2>4. CASE ~ Enough
    <3>1. n_running' = n_running /\ n_total' = n_total + 1 /\ StartThread(i)
          /\ n_total < n_total_max
      BY <1>0, <1>6, <2>4 DEF EndThread, Enough
    <3>2. thread'[i] = "work" /\ \A u \in Slots \ {i} : thread'[u] = thread[u]
      BY <2>2, <3>1, StartThreadFacts DEF IInv
    <3>3. Alive' = Alive
      BY <2>2, <3>2 DEF Alive
    <3> QED
      BY <1>0, <2>1, <3>1, <3>3 DEF Counts
  <2> QED
    BY <2>3, <2>4
<1>7. CASE CondWait \/ WakeUp \/ NotFlagged \/ AllScanned \/ Done \/ Relock
  <2>1. /\ pc # "start" /\ pc' # "start" /\ UNCHANGED <<n_running, n_total, n_thr, n_total_max>>
        /\ pc \in {"loop", "wait", "relock", "scan"} /\ thread' = thread
    BY <1>7 DEF CondWait, WakeUp, NotFlagged, AllScanned, Done, Relock, args, counts
  <2> QED
    BY <2>1 DEF Counts, Alive
<1> QED
  BY <1>2, <1>3, <1>4, <1>5, <1>6, <1>7 DEF Next, MainStep

\* The counts that main keeps of its threads are true when it waits and when it
\* ends, however many threads it runs, if every one of them can be created: the
\* test does not look whether it could.
THEOREM CountsAreTrue ==
  ASSUME FALSE \notin Created
  PROVE  Spec => []CountsTrue
<1>1. Init => Counts
  <2> SUFFICES ASSUME Init PROVE Counts
    OBVIOUS
  <2>1. Alive = 0 .. i - 1
    BY DEF Init, Alive
  <2>2. n_thr \in Nat /\ n_total = 0
    BY SlotFacts DEF Init
  <2> QED
    BY <2>1, <2>2 DEF Init, Counts
<1>2. IInv /\ Counts /\ [Next]_vars => Counts'
  BY NextCounts
<1>3. IInv /\ Counts => CountsTrue
  <2> SUFFICES ASSUME IInv, Counts PROVE CountsTrue
    OBVIOUS
  <2>1. n_thr \in Int /\ n_total_max \in Int /\ n_total \in Int
    BY SlotFacts, ConstantsAssumption DEF IInv, TypeOK
  <2>2. \A a, b \in Int : Max({a, b}) >= a /\ Max({a, b}) >= b
    <3> TAKE a, b \in Int
    <3>1. \E x \in {a, b} : \A y \in {a, b} : x >= y
      OBVIOUS
    <3> QED
      BY <3>1 DEF Max
  <2>3. PICK x \in Int : x = Max({n_thr, n_total_max})
    <3>1. \E y \in {n_thr, n_total_max} : \A z \in {n_thr, n_total_max} : y >= z
      BY <2>1
    <3> QED
      BY <2>1, <3>1 DEF Max
  <2>4. x >= n_thr /\ x >= n_total_max
    BY <2>1, <2>2, <2>3
  <2>5. n_total <= n_thr \/ n_total <= n_total_max
    BY DEF Counts
  <2>6. n_total <= x
    BY <2>1, <2>4, <2>5
  <2> QED
    BY <2>3, <2>6 DEF Counts, CountsTrue
<1> QED
  BY <1>1, <1>2, <1>3, Invariance, PTL DEF Spec
==============================================================================
