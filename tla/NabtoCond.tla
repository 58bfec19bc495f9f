----------------------------- MODULE NabtoCond ------------------------------
(***************************************************************************)
(* The mutex and the condition variable of nabto_device_threads_freertos.c *)
(* at the granularity of their atomic instructions: one FreeRTOS call or   *)
(* one load, increment or compare-and-swap of cond->waiting_threads is one *)
(* step.  Threads are the Nabto threads and the lwIP thread; any of them   *)
(* may be preempted between two steps.                                     *)
(***************************************************************************)
EXTENDS Naturals, FiniteSets

CONSTANTS
  Threads,   \* every thread that uses this mutex and condition
  Waiters,   \* those that may wait on the condition
  SemMax,    \* largest count of cond->semaphore (INT_MAX in the code)
  WaitMax    \* bound on cond->waiting_threads (2^32 - 1 in the code)

ASSUME ThreadsAssumption == IsFiniteSet(Threads) /\ Waiters \subseteq Threads
ASSUME SemMaxAssumption == SemMax \in Nat /\ Cardinality(Threads) <= SemMax
ASSUME WaitMaxAssumption == WaitMax \in Nat

VARIABLES
  waiting,  \* cond->waiting_threads
  sem,      \* count of cond->semaphore
  mutex,    \* count of mut->mutex: 1 free, 0 taken
  inside,   \* inside[t]: t is between a lock and the matching unlock
  timed,    \* timed[t]: t is in a Take with a finite delay (ms > 0)
  local,    \* local_waiting_threads of t's operation, 0 once it is dead
  pc        \* where t is in that operation, "run" when it is in none

vars == <<waiting, sem, mutex, inside, timed, local, pc>>

PcValues == {"run", "unlock", "take", "relock", "timedout", "dec", "reload",
             "sigload", "sigcas", "give"}

\* The state after nabto_device_threads_create_mutex and _create_condition.
Init ==
  /\ waiting = 0
  /\ sem = 0
  /\ mutex = 1
  /\ inside = [t \in Threads |-> FALSE]
  /\ timed = [t \in Threads |-> FALSE]
  /\ local = [t \in Threads |-> 0]
  /\ pc = [t \in Threads |-> "run"]

Goto(t, from, to) ==
  /\ pc[t] = from
  /\ pc' = [pc EXCEPT ![t] = to]

\* xSemaphoreTakeFromISR never blocks and its result is ignored: the thread
\* goes on whether or not the mutex was free.
LockStep(t) ==
  /\ mutex' = 0
  /\ inside' = [inside EXCEPT ![t] = TRUE]

\* Mutant of UnlockStep: a counting semaphore in the mutex's place.
UnlockStepCounting(t) ==
  /\ mutex' = mutex + 1
  /\ inside' = [inside EXCEPT ![t] = FALSE]

\* xSemaphoreGiveFromISR gives the mutex whoever took it; it saturates at 1.
UnlockStep(t) ==
  /\ mutex' = 1
  /\ inside' = [inside EXCEPT ![t] = FALSE]

MutexLock(t) ==
  /\ ~ inside[t]
  /\ Goto(t, "run", "run")
  /\ LockStep(t)
  /\ UNCHANGED <<waiting, sem, timed, local>>

MutexUnlock(t) ==
  /\ inside[t]
  /\ Goto(t, "run", "run")
  /\ UnlockStep(t)
  /\ UNCHANGED <<waiting, sem, timed, local>>

-----------------------------------------------------------------------------
\* nabto_device_threads_cond_timed_wait, entered with the mutex locked.

\* Atomic_Increment_u32 returns the value before the increment.
WaitRegister(t) ==
  /\ t \in Waiters
  /\ inside[t]
  /\ waiting < WaitMax
  /\ Goto(t, "run", "unlock")
  /\ \E b \in BOOLEAN : timed' = [timed EXCEPT ![t] = b]
  /\ local' = [local EXCEPT ![t] = waiting]
  /\ waiting' = waiting + 1
  /\ UNCHANGED <<sem, mutex, inside>>

WaitUnlock(t) ==
  /\ Goto(t, "unlock", "take")
  /\ UnlockStep(t)
  /\ UNCHANGED <<waiting, sem, timed, local>>

WaitTake(t) ==
  /\ sem > 0
  /\ Goto(t, "take", "relock")
  /\ sem' = sem - 1
  /\ timed' = [timed EXCEPT ![t] = FALSE]
  /\ local' = [local EXCEPT ![t] = 0]
  /\ UNCHANGED <<waiting, mutex, inside>>

\* Mutant of WaitTimeout: a do-while loop, entered with local = 0 too.
WaitTimeoutDoWhile(t) ==
  /\ timed[t]
  /\ sem = 0
  /\ Goto(t, "take", "timedout")
  /\ timed' = [timed EXCEPT ![t] = FALSE]
  /\ UNCHANGED <<waiting, sem, mutex, inside, local>>

\* The kernel reports a timeout only after it has seen the semaphore empty
\* once more.  The loop of line 190 is not entered when local is 0.
WaitTimeout(t) ==
  /\ timed[t]
  /\ sem = 0
  /\ Goto(t, "take", IF local[t] > 0 THEN "timedout" ELSE "relock")
  /\ timed' = [timed EXCEPT ![t] = FALSE]
  /\ UNCHANGED <<waiting, sem, mutex, inside, local>>

\* Lines 183 and 187: the mutex is locked again on both paths.
WaitRelock(t) ==
  /\ \/ Goto(t, "relock", "run")
     \/ Goto(t, "timedout", "dec")
  /\ LockStep(t)
  /\ UNCHANGED <<waiting, sem, timed, local>>

\* Atomic_CompareAndSwap_u32 of the count from local to local - 1.
CompareAndSwap(t) ==
  /\ waiting = local[t]
  /\ waiting' = waiting - 1
  /\ local' = [local EXCEPT ![t] = 0]

CompareFails(t) == waiting # local[t] /\ UNCHANGED <<waiting, local>>

\* Mutant of WaitDecrement: a plain store in place of the compare-and-swap.
WaitDecrementStore(t) ==
  /\ Goto(t, "dec", "run")
  /\ waiting' = local[t] - 1
  /\ local' = [local EXCEPT ![t] = 0]
  /\ UNCHANGED <<sem, mutex, inside, timed>>

WaitDecrement(t) ==
  /\ \/ CompareAndSwap(t) /\ Goto(t, "dec", "run")
     \/ CompareFails(t) /\ Goto(t, "dec", "reload")
  /\ UNCHANGED <<sem, mutex, inside, timed>>

\* Mutant of WaitReload: the loop goes round with the value it had.
WaitReloadStale(t) ==
  /\ Goto(t, "reload", "dec")
  /\ UNCHANGED <<waiting, sem, mutex, inside, timed, local>>

WaitReload(t) ==
  /\ Goto(t, "reload", IF waiting > 0 THEN "dec" ELSE "run")
  /\ local' = [local EXCEPT ![t] = waiting]
  /\ UNCHANGED <<waiting, sem, mutex, inside, timed>>

-----------------------------------------------------------------------------
\* nabto_device_threads_cond_signal, called with or without the mutex.

SignalCall(t) ==
  /\ Goto(t, "run", "sigload")
  /\ UNCHANGED <<waiting, sem, mutex, inside, timed, local>>

\* Lines 150 and 162, with the loop test that follows each of them.
SignalLoad(t) ==
  /\ Goto(t, "sigload", IF waiting > 0 THEN "sigcas" ELSE "run")
  /\ local' = [local EXCEPT ![t] = waiting]
  /\ UNCHANGED <<waiting, sem, mutex, inside, timed>>

\* Mutant of SignalCas: a signal that gives up when its swap fails.
SignalCasGivesUp(t) ==
  /\ \/ CompareAndSwap(t) /\ Goto(t, "sigcas", "give")
     \/ CompareFails(t) /\ Goto(t, "sigcas", "run")
  /\ UNCHANGED <<sem, mutex, inside, timed>>

SignalCas(t) ==
  /\ \/ CompareAndSwap(t) /\ Goto(t, "sigcas", "give")
     \/ CompareFails(t) /\ Goto(t, "sigcas", "sigload")
  /\ UNCHANGED <<sem, mutex, inside, timed>>

\* A counting semaphore at its maximum drops the give.
SignalGive(t) ==
  /\ Goto(t, "give", "run")
  /\ sem' = IF sem < SemMax THEN sem + 1 ELSE sem
  /\ UNCHANGED <<waiting, mutex, inside, timed, local>>

-----------------------------------------------------------------------------
\* What a thread does by itself once it is in an operation.
OperationStep(t) ==
  \/ WaitUnlock(t) \/ WaitTake(t) \/ WaitTimeout(t) \/ WaitRelock(t)
  \/ WaitDecrement(t) \/ WaitReload(t)
  \/ SignalLoad(t) \/ SignalCas(t) \/ SignalGive(t)

\* What the SDK decides: to lock, to unlock, to wait, to signal.
ClientStep(t) ==
  \/ MutexLock(t) \/ MutexUnlock(t) \/ WaitRegister(t) \/ SignalCall(t)

Next == \E t \in Threads : OperationStep(t) \/ ClientStep(t)

SafetySpec == Init /\ [][Next]_vars

\* A thread that is ready to run is scheduled, and a timed Take ends: the
\* fairness of the FreeRTOS scheduler.  Nothing makes the SDK call anything.
Spec == SafetySpec /\ \A t \in Threads : WF_vars(OperationStep(t))

-----------------------------------------------------------------------------
TypeOK ==
  /\ waiting \in 0..WaitMax
  /\ sem \in 0..SemMax
  /\ mutex \in {0, 1}
  /\ inside \in [Threads -> BOOLEAN]
  /\ timed \in [Threads -> BOOLEAN]
  /\ local \in [Threads -> 0..WaitMax]
  /\ pc \in [Threads -> PcValues]

\* A compare-and-swap is only tried with a positive expected value, so the
\* unsigned cond->waiting_threads is never decremented below zero.
CountNeverUnderflows ==
  \A t \in Threads : pc[t] \in {"timedout", "dec", "sigcas"} => local[t] > 0

Blocked == {t \in Threads : pc[t] \in {"unlock", "take"}}

\* Timed-out waiters that may still take their registration back.
Leaving == {t \in Threads : pc[t] \in {"timedout", "dec", "reload"}}

\* Everybody who may still consume a registration or a token.
Owed == Blocked \cup Leaving

Giving == {t \in Threads : pc[t] = "give"}

Signalling == {t \in Threads : pc[t] \in {"sigload", "sigcas"}}

\* No lost wakeup: every blocked thread, and every timed-out thread that may
\* still decrement the count, is covered by a registration a signal can find,
\* by a token in the semaphore, or by a signaller about to give one.  So a
\* cond_signal that reads waiting_threads = 0 leaves no blocked thread behind.
NoLostWakeup ==
  Cardinality(Owed) <= waiting + sem + Cardinality(Giving)

\* The condition implements CondSpec: lines 150-163 take effect at the load
\* that finds nobody or at the successful compare-and-swap.
Abs == INSTANCE CondSpec WITH
  blocked <- Blocked,
  signalling <- Signalling,
  grants <- sem + Cardinality(Giving)

ImplementsCondSpec == Abs!Spec

InCasLoop(t) == pc[t] \in {"dec", "reload", "sigload", "sigcas"}

CasLoopEnds(t) == InCasLoop(t) /\ ~ InCasLoop(t)'

\* The compare-and-swap loops of cond_signal and cond_timed_wait are
\* lock-free: while threads stay in them, some thread always gets out.
CasLoopsLockFree ==
  []<>(\A t \in Threads : ~ InCasLoop(t)) \/
  []<><<\E t \in Threads : CasLoopEnds(t)>>_vars

\* When no thread is inside an operation, nobody is registered as waiting.
QuiescentCountIsZero == (\A t \in Threads : pc[t] = "run") => waiting = 0
=============================================================================
