------------------------------- MODULE LoadTest -------------------------------
(***************************************************************************)
(* The load test of hw3 and hw4 (test1.c): main keeps n_thr threads busy   *)
(* until n_total_max have been started.  A thread that is through sets its *)
(* flag and signals finish_cond; main, which holds finish_mutex except     *)
(* while it waits, joins every flagged thread and starts another.          *)
(*                                                                         *)
(* What a thread does with its bins is in HeapApi; here it makes turns.    *)
(***************************************************************************)
EXTENDS Integers, FiniteSetsExt

CONSTANTS
  ThreadCounts,  \* the values of n_thr that are tried
  Totals,        \* the values of n_total_max that are tried
  MaxTurns,      \* st->max
  Actions,       \* what RANDOM(ACTIONS_MAX) may be
  Created        \* what pthread_create may come to: TRUE, FALSE for EAGAIN

ASSUME ConstantsAssumption ==
  /\ ThreadCounts \subseteq Nat \ {0} /\ IsFiniteSet(ThreadCounts) /\ ThreadCounts # {}
  /\ Totals \subseteq Int /\ MaxTurns \in Nat
  /\ Actions \subseteq Nat /\ Created \subseteq BOOLEAN /\ TRUE \in Created

Slots == 0 .. Max(ThreadCounts) - 1
Main == -1
Nobody == -2

VARIABLES
  n_thr, n_total_max,  \* the arguments of the program
  pc,                  \* where main is
  i,                   \* the slot main has come to
  n_running, n_total,  \* main's counts
  flags,               \* flags of each slot
  thread,              \* where the thread of each slot is
  turns,               \* how far its loop over actions has come
  mutex,               \* the owner of finish_mutex
  woken                \* a signal has reached main's wait

args   == <<n_thr, n_total_max>>
counts == <<n_running, n_total>>
vars == <<args, pc, i, counts, flags, thread, turns, mutex, woken>>

Places == {"none", "work", "lock", "flag", "signal", "unlock", "exited"}

------------------------------------------------------------------------------
(* A thread.                                                               *)

Moves(t, from, to) ==
  pc # "exit" /\ thread[t] = from /\ thread' = [thread EXCEPT ![t] = to]

\* The loop of malloc_test: a turn frees and allocates a random number of bins,
\* which may be none.
Turn(t, freed, allocated) ==
  /\ pc # "exit" /\ thread[t] = "work" /\ turns[t] <= MaxTurns
  /\ turns' = [turns EXCEPT ![t] = @ + freed + allocated]
  /\ UNCHANGED <<args, pc, i, counts, flags, thread, mutex, woken>>

Through(t) ==
  /\ turns[t] > MaxTurns /\ Moves(t, "work", "lock")
  /\ UNCHANGED <<args, pc, i, counts, flags, turns, mutex, woken>>

\* Out of memory, or a bin that does not hold what was written: exit(1).
Exit(t) ==
  /\ pc # "exit" /\ thread[t] = "work" /\ pc' = "exit"
  /\ UNCHANGED <<args, i, counts, flags, thread, turns, mutex, woken>>

\* finish_mutex, flags, finish_cond.  A signal nobody waits for is lost.
\* Variant: the flag is set without the mutex.
NoMutex == TRUE
MutexFree == mutex = Nobody
LockFinish(t) ==
  /\ MutexFree /\ Moves(t, "lock", "flag") /\ mutex' = t
  /\ UNCHANGED <<args, pc, i, counts, flags, turns, woken>>

SetFlag(t) ==
  /\ Moves(t, "flag", "signal") /\ flags' = [flags EXCEPT ![t] = TRUE]
  /\ UNCHANGED <<args, pc, i, counts, turns, mutex, woken>>

Signal(t) ==
  /\ Moves(t, "signal", "unlock") /\ woken' = (woken \/ pc = "wait")
  /\ UNCHANGED <<args, pc, i, counts, flags, turns, mutex>>

UnlockFinish(t) ==
  /\ Moves(t, "unlock", "exited") /\ mutex' = Nobody
  /\ UNCHANGED <<args, pc, i, counts, flags, turns, woken>>

------------------------------------------------------------------------------
(* main.                                                                   *)

\* The loops over the slots.
MoreSlots == i < n_thr

\* my_start_thread does not look at what pthread_create returned.
StartThread(t) ==
  \E created \in Created :
    /\ thread' = [thread EXCEPT ![t] = IF created THEN "work" ELSE "none"]
    /\ turns' = [turns EXCEPT ![t] = 0]

StartAll ==
  /\ pc = "start" /\ MoreSlots
  /\ StartThread(i) /\ i' = i + 1
  /\ UNCHANGED <<args, pc, counts, flags, mutex, woken>>

AllStarted ==
  /\ pc = "start" /\ i = n_thr
  /\ n_running' = n_thr /\ n_total' = n_thr /\ pc' = "loop"
  /\ UNCHANGED <<args, i, flags, thread, turns, mutex, woken>>

\* pthread_cond_wait gives the mutex up and waits in one step.
CondWait ==
  /\ pc = "loop" /\ n_running > 0
  /\ mutex' = Nobody /\ woken' = FALSE /\ pc' = "wait"
  /\ UNCHANGED <<args, i, counts, flags, thread, turns>>

\* It returns when it has been signalled; it may return without.
WakeUp ==
  /\ pc = "wait" /\ pc' = "relock"
  /\ UNCHANGED <<args, i, counts, flags, thread, turns, mutex, woken>>

Relock ==
  /\ pc = "relock" /\ mutex = Nobody
  /\ mutex' = Main /\ i' = 0 /\ pc' = "scan"
  /\ UNCHANGED <<args, counts, flags, thread, turns, woken>>

\* Every slot is looked at after each wait.  Variant: the scan ends at the
\* first thread it has joined, as those of the other thread libraries do.
AfterJoinBreak == n_thr
AfterJoin == i + 1

NotFlagged ==
  /\ pc = "scan" /\ MoreSlots /\ ~ flags[i] /\ i' = i + 1
  /\ UNCHANGED <<args, pc, counts, flags, thread, turns, mutex, woken>>

\* pthread_join, then my_end_thread.  Variant: one thread too many.
EnoughLate == n_total > n_total_max
Enough == n_total >= n_total_max
EndThread ==
  /\ pc = "scan" /\ MoreSlots /\ flags[i] /\ thread[i] = "exited"
  /\ flags' = [flags EXCEPT ![i] = FALSE] /\ i' = AfterJoin
  /\ IF Enough
     THEN /\ n_running' = n_running - 1 /\ thread' = [thread EXCEPT ![i] = "none"]
          /\ UNCHANGED <<n_total, turns>>
     ELSE n_total' = n_total + 1 /\ StartThread(i) /\ UNCHANGED n_running
  /\ UNCHANGED <<args, pc, mutex, woken>>

AllScanned ==
  /\ pc = "scan" /\ i = n_thr /\ pc' = "loop"
  /\ UNCHANGED <<args, i, counts, flags, thread, turns, mutex, woken>>

Done ==
  /\ pc = "loop" /\ n_running = 0
  /\ mutex' = Nobody /\ pc' = "done"
  /\ UNCHANGED <<args, i, counts, flags, thread, turns, woken>>

------------------------------------------------------------------------------
Init ==
  /\ n_thr \in ThreadCounts /\ n_total_max \in Totals
  /\ pc = "start" /\ i = 0 /\ n_running = 0 /\ n_total = 0
  /\ flags = [t \in Slots |-> FALSE] /\ thread = [t \in Slots |-> "none"]
  /\ turns = [t \in Slots |-> 0]
  /\ mutex = Main /\ woken = FALSE

MainStep ==
  \/ StartAll \/ AllStarted \/ CondWait \/ Relock
  \/ NotFlagged \/ EndThread \/ AllScanned \/ Done
Finishes(t) == Through(t) \/ LockFinish(t) \/ SetFlag(t) \/ Signal(t) \/ UnlockFinish(t)

Next ==
  \/ MainStep \/ WakeUp
  \/ \E t \in Slots : Finishes(t) \/ Exit(t) \/ (\E f, a \in Actions : Turn(t, f, a))

Spec == Init /\ [][Next]_vars

\* Every thread is scheduled, a signal wakes main, and the random numbers are
\* not all zero for ever.  The mutex does not starve a thread while main wakes
\* up for nothing again and again.
FairSpec ==
  /\ Spec /\ WF_vars(MainStep) /\ WF_vars(woken /\ WakeUp)
  /\ \A t \in Slots : /\ WF_vars(Finishes(t)) /\ SF_vars(LockFinish(t))
                      /\ WF_vars(\E f, a \in Actions : f + a > 0 /\ Turn(t, f, a))

------------------------------------------------------------------------------
(* Properties.                                                             *)

Alive == {t \in Slots : thread[t] # "none"}

\* main's counts are true when it waits and at the end: n_running threads have
\* not been joined, and n_total is not above what was asked for.
CountsTrue ==
  pc \in {"loop", "wait", "relock", "done"} =>
    /\ n_running = Cardinality(Alive)
    /\ n_total <= Max({n_thr, n_total_max})

\* No wake-up is lost: main does not wait beside a flag whose thread has given
\* the mutex up without a signal that is on its way.
NoLostWakeUp ==
  pc = "wait" /\ ~ woken => \A t \in Slots : flags[t] => thread[t] = "signal"

\* main never waits for a thread that is not on its way out: the flag of the
\* thread it joins was set by that thread, after its work.
JoinsReturn ==
  pc = "scan" => \A t \in Slots : flags[t] => thread[t] = "exited"

\* The test comes to its end, having started as many threads as it was asked
\* to, unless a thread ended the process.
Ends == <>(pc = "exit" \/ (pc = "done" /\ n_total >= n_total_max))
==============================================================================
