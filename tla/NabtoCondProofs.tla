-------------------------- MODULE NabtoCondProofs ---------------------------
(***************************************************************************)
(* Proofs about NabtoCond for every set of threads and every bound.        *)
(***************************************************************************)
EXTENDS NabtoCond, FiniteSetTheorems, TLAPS

\* The part of the invariant that needs no counting: types, and a positive
\* expected value in every compare-and-swap (cond_signal and cond_timed_wait).
BasicInv == TypeOK /\ CountNeverUnderflows

\* A new mutex and condition.
LEMMA InitBasic == Init => BasicInv
BY WaitMaxAssumption, SemMaxAssumption
   DEF Init, BasicInv, TypeOK, CountNeverUnderflows, PcValues

\* Every step of mutex and condition keeps types and expected values.
LEMMA StepBasic == BasicInv /\ [Next]_vars => BasicInv'
<1> SUFFICES ASSUME BasicInv, [Next]_vars
             PROVE  BasicInv'
  OBVIOUS
<1> USE WaitMaxAssumption, SemMaxAssumption
        DEF BasicInv, TypeOK, CountNeverUnderflows, PcValues, Goto, vars
<1>1. CASE UNCHANGED vars
  BY <1>1
<1>2. ASSUME NEW t \in Threads, OperationStep(t)
      PROVE  BasicInv'
  <2>1. CASE WaitUnlock(t)
    BY <2>1 DEF WaitUnlock, UnlockStep
  <2>2. CASE WaitTake(t)
    BY <2>2 DEF WaitTake
  <2>3. CASE WaitTimeout(t)
    BY <2>3 DEF WaitTimeout
  <2>4. CASE WaitRelock(t)
    BY <2>4 DEF WaitRelock, LockStep
  <2>5. CASE WaitDecrement(t)
    BY <2>5 DEF WaitDecrement, CompareAndSwap, CompareFails
  <2>6. CASE WaitReload(t)
    BY <2>6 DEF WaitReload
  <2>7. CASE SignalLoad(t)
    BY <2>7 DEF SignalLoad
  <2>8. CASE SignalCas(t)
    BY <2>8 DEF SignalCas, CompareAndSwap, CompareFails
  <2>9. CASE SignalGive(t)
    BY <2>9 DEF SignalGive
  <2> QED
    BY <1>2, <2>1, <2>2, <2>3, <2>4, <2>5, <2>6, <2>7, <2>8, <2>9
       DEF OperationStep
<1>3. ASSUME NEW t \in Threads, ClientStep(t)
      PROVE  BasicInv'
  <2>1. CASE MutexLock(t)
    BY <2>1 DEF MutexLock, LockStep
  <2>2. CASE MutexUnlock(t)
    BY <2>2 DEF MutexUnlock, UnlockStep
  <2>3. CASE WaitRegister(t)
    BY <2>3 DEF WaitRegister
  <2>4. CASE SignalCall(t)
    BY <2>4 DEF SignalCall
  <2> QED
    BY <1>3, <2>1, <2>2, <2>3, <2>4 DEF ClientStep
<1> QED
  BY <1>1, <1>2, <1>3 DEF Next

\* Type correctness of the condition variable's state.
THEOREM TypeCorrect == SafetySpec => []TypeOK
<1>1. BasicInv => TypeOK
  BY DEF BasicInv
<1> QED
  BY InitBasic, StepBasic, <1>1, PTL DEF SafetySpec

\* cond->waiting_threads never wraps below zero: no thread compare-and-swaps
\* it from 0, in cond_signal or after a timeout.
THEOREM NoUnderflow == SafetySpec => []CountNeverUnderflows
<1>1. BasicInv => CountNeverUnderflows
  BY DEF BasicInv
<1> QED
  BY InitBasic, StepBasic, <1>1, PTL DEF SafetySpec

-----------------------------------------------------------------------------
\* The sets of threads that NoLostWakeup counts are finite.
LEMMA Counts ==
  /\ IsFiniteSet(Owed) /\ IsFiniteSet(Giving) /\ IsFiniteSet(Blocked)
  /\ Cardinality(Owed) \in Nat /\ Cardinality(Giving) \in Nat
  /\ Cardinality(Blocked) \in Nat /\ Cardinality(Threads) \in Nat
  /\ Cardinality(Owed) <= Cardinality(Threads)
  /\ Cardinality(Blocked) <= Cardinality(Owed)
<1>1. Owed \in SUBSET Threads /\ Giving \in SUBSET Threads
      /\ Blocked \in SUBSET Owed
  BY DEF Owed, Blocked, Leaving, Giving
<1>2. IsFiniteSet(Threads)
  BY ThreadsAssumption
<1>3. IsFiniteSet(Owed) /\ IsFiniteSet(Giving)
      /\ Cardinality(Owed) <= Cardinality(Threads)
  BY <1>1, <1>2, FS_Subset
<1>4. IsFiniteSet(Blocked) /\ Cardinality(Blocked) <= Cardinality(Owed)
  BY <1>1, <1>3, FS_Subset
<1> QED
  BY <1>2, <1>3, <1>4, FS_CardinalityType

\* One thread joining or leaving a finite set of threads.
LEMMA CountAdd ==
  ASSUME NEW S, IsFiniteSet(S), NEW x, x \notin S
  PROVE  Cardinality(S \cup {x}) = Cardinality(S) + 1
BY FS_AddElement

\* The converse of CountAdd.
LEMMA CountRemove ==
  ASSUME NEW S, IsFiniteSet(S), NEW x \in S
  PROVE  Cardinality(S \ {x}) = Cardinality(S) - 1
BY FS_RemoveElement

\* Nobody waits on a new condition.
LEMMA InitCovered == Init => NoLostWakeup
<1> SUFFICES ASSUME Init PROVE NoLostWakeup
  OBVIOUS
<1>1. Owed = {} /\ Giving = {}
  BY DEF Init, Owed, Blocked, Leaving, Giving
<1> QED
  BY <1>1, FS_EmptySet DEF Init, NoLostWakeup

\* A thread that comes to be owed a wakeup brings a registration with it; a
\* registration or token goes only with the thread it covers.
LEMMA StepCovered == BasicInv /\ NoLostWakeup /\ [Next]_vars => NoLostWakeup'
<1> SUFFICES ASSUME BasicInv, NoLostWakeup, [Next]_vars
             PROVE  NoLostWakeup'
  OBVIOUS
<1>c. /\ Cardinality(Owed) <= waiting + sem + Cardinality(Giving)
      /\ waiting \in Nat /\ sem \in Nat /\ SemMax \in Nat
      /\ Cardinality(Threads) <= SemMax
      /\ pc \in [Threads -> PcValues] /\ local \in [Threads -> Nat]
  BY SemMaxAssumption, WaitMaxAssumption
     DEF NoLostWakeup, BasicInv, TypeOK
\* The steps that change nothing NoLostWakeup speaks of.
<1>same. ASSUME Owed' = Owed, Giving' = Giving, waiting' = waiting, sem' = sem
         PROVE  NoLostWakeup'
  BY <1>same, <1>c DEF NoLostWakeup
<1> USE DEF Goto
<1>1. CASE UNCHANGED vars
  <2>1. Owed' = Owed /\ Giving' = Giving /\ waiting' = waiting /\ sem' = sem
    BY <1>1 DEF vars, Owed, Blocked, Leaving, Giving
  <2> QED
    BY <2>1, <1>c, <1>same
<1>2. ASSUME NEW t \in Threads, OperationStep(t)
      PROVE  NoLostWakeup'
  <2>1. CASE WaitUnlock(t)
    <3>1. Owed' = Owed /\ Giving' = Giving
      BY <2>1, <1>c DEF WaitUnlock, Owed, Blocked, Leaving, Giving
    <3> QED
      BY <3>1, <2>1, <1>c, <1>same DEF WaitUnlock
  <2>2. CASE WaitTake(t)
    <3>1. Owed' = Owed \ {t} /\ t \in Owed /\ Giving' = Giving
      BY <2>2, <1>c DEF WaitTake, Owed, Blocked, Leaving, Giving
    <3>2. Cardinality(Owed') = Cardinality(Owed) - 1
      BY <3>1, Counts, CountRemove
    <3> QED
      BY <3>1, <3>2, <2>2, <1>c, Counts DEF WaitTake, NoLostWakeup
  <2>3. CASE WaitTimeout(t)
    <3>1. CASE local[t] > 0
      <4>1. Owed' = Owed /\ Giving' = Giving
        BY <3>1, <2>3, <1>c DEF WaitTimeout, Owed, Blocked, Leaving, Giving
      <4> QED
        BY <4>1, <2>3, <1>c, <1>same DEF WaitTimeout
    <3>2. CASE ~ (local[t] > 0)
      <4>1. Owed' = Owed \ {t} /\ t \in Owed /\ Giving' = Giving
        BY <3>2, <2>3, <1>c DEF WaitTimeout, Owed, Blocked, Leaving, Giving
      <4>2. Cardinality(Owed') = Cardinality(Owed) - 1
        BY <4>1, Counts, CountRemove
      <4> QED
        BY <4>1, <4>2, <2>3, <1>c, Counts DEF WaitTimeout, NoLostWakeup
    <3> QED
      BY <3>1, <3>2
  <2>4. CASE WaitRelock(t)
    <3>1. Owed' = Owed /\ Giving' = Giving
      BY <2>4, <1>c DEF WaitRelock, Owed, Blocked, Leaving, Giving
    <3> QED
      BY <3>1, <2>4, <1>c, <1>same DEF WaitRelock
  <2>5. CASE WaitDecrement(t)
    <3>1. CASE CompareAndSwap(t) /\ Goto(t, "dec", "run")
      <4>1. Owed' = Owed \ {t} /\ t \in Owed /\ Giving' = Giving
        BY <3>1, <1>c DEF Owed, Blocked, Leaving, Giving
      <4>2. Cardinality(Owed') = Cardinality(Owed) - 1
        BY <4>1, Counts, CountRemove
      <4> QED
        BY <4>1, <4>2, <3>1, <2>5, <1>c, Counts
           DEF WaitDecrement, CompareAndSwap, NoLostWakeup
    <3>2. CASE CompareFails(t) /\ Goto(t, "dec", "reload")
      <4>1. Owed' = Owed /\ Giving' = Giving
        BY <3>2, <1>c DEF Owed, Blocked, Leaving, Giving
      <4> QED
        BY <4>1, <3>2, <2>5, <1>c, <1>same DEF WaitDecrement, CompareFails
    <3> QED
      BY <3>1, <3>2, <2>5 DEF WaitDecrement
  <2>6. CASE WaitReload(t)
    <3>1. CASE waiting > 0
      <4>1. Owed' = Owed /\ Giving' = Giving
        BY <3>1, <2>6, <1>c DEF WaitReload, Owed, Blocked, Leaving, Giving
      <4> QED
        BY <4>1, <2>6, <1>c, <1>same DEF WaitReload
    <3>2. CASE ~ (waiting > 0)
      <4>1. Owed' = Owed \ {t} /\ t \in Owed /\ Giving' = Giving
        BY <3>2, <2>6, <1>c DEF WaitReload, Owed, Blocked, Leaving, Giving
      <4>2. Cardinality(Owed') = Cardinality(Owed) - 1
        BY <4>1, Counts, CountRemove
      <4> QED
        BY <4>1, <4>2, <2>6, <1>c, Counts DEF WaitReload, NoLostWakeup
    <3> QED
      BY <3>1, <3>2
  <2>7. CASE SignalLoad(t)
    <3>1. Owed' = Owed /\ Giving' = Giving
      BY <2>7, <1>c DEF SignalLoad, Owed, Blocked, Leaving, Giving
    <3> QED
      BY <3>1, <2>7, <1>c, <1>same DEF SignalLoad
  <2>8. CASE SignalCas(t)
    <3>1. CASE CompareAndSwap(t) /\ Goto(t, "sigcas", "give")
      <4>1. Owed' = Owed /\ Giving' = Giving \cup {t} /\ t \notin Giving
        BY <3>1, <1>c DEF Owed, Blocked, Leaving, Giving
      <4>2. Cardinality(Giving') = Cardinality(Giving) + 1
        BY <4>1, Counts, CountAdd
      <4> QED
        BY <4>1, <4>2, <3>1, <2>8, <1>c, Counts
           DEF SignalCas, CompareAndSwap, NoLostWakeup
    <3>2. CASE CompareFails(t) /\ Goto(t, "sigcas", "sigload")
      <4>1. Owed' = Owed /\ Giving' = Giving
        BY <3>2, <1>c DEF Owed, Blocked, Leaving, Giving
      <4> QED
        BY <4>1, <3>2, <2>8, <1>c, <1>same DEF SignalCas, CompareFails
    <3> QED
      BY <3>1, <3>2, <2>8 DEF SignalCas
  <2>9. CASE SignalGive(t)
    <3>1. Owed' = Owed /\ Giving' = Giving \ {t} /\ t \in Giving
      BY <2>9, <1>c DEF SignalGive, Owed, Blocked, Leaving, Giving
    <3>2. Cardinality(Giving') = Cardinality(Giving) - 1
      BY <3>1, Counts, CountRemove
    <3>3. Cardinality(Giving) > 0
      BY <3>1, Counts, FS_EmptySet
    <3>4. CASE sem < SemMax
      BY <3>1, <3>2, <3>4, <2>9, <1>c, Counts DEF SignalGive, NoLostWakeup
    \* At its maximum the semaphore alone covers every thread.
    <3>5. CASE ~ (sem < SemMax)
      <4>1. sem' = sem /\ waiting' = waiting /\ Cardinality(Owed) <= sem
        BY <3>5, <2>9, <1>c, Counts DEF SignalGive
      <4> QED
        BY <4>1, <3>1, <3>2, <3>3, <1>c, Counts DEF NoLostWakeup
    <3> QED
      BY <3>4, <3>5
  <2> QED
    BY <1>2, <2>1, <2>2, <2>3, <2>4, <2>5, <2>6, <2>7, <2>8, <2>9
       DEF OperationStep
<1>3. ASSUME NEW t \in Threads, ClientStep(t)
      PROVE  NoLostWakeup'
  <2>1. CASE WaitRegister(t)
    <3>1. Owed' = Owed \cup {t} /\ t \notin Owed /\ Giving' = Giving
      BY <2>1, <1>c DEF WaitRegister, Owed, Blocked, Leaving, Giving
    <3>2. Cardinality(Owed') = Cardinality(Owed) + 1
      BY <3>1, Counts, CountAdd
    <3> QED
      BY <3>1, <3>2, <2>1, <1>c, Counts DEF WaitRegister, NoLostWakeup
  <2>2. CASE MutexLock(t) \/ MutexUnlock(t) \/ SignalCall(t)
    <3>1. Owed' = Owed /\ Giving' = Giving
      BY <2>2, <1>c DEF MutexLock, MutexUnlock, SignalCall,
                        Owed, Blocked, Leaving, Giving
    <3> QED
      BY <3>1, <2>2, <1>c, <1>same DEF MutexLock, MutexUnlock, SignalCall
  <2> QED
    BY <1>3, <2>1, <2>2 DEF ClientStep
<1> QED
  BY <1>1, <1>2, <1>3 DEF Next

\* No wakeup is lost, for any number of threads: a cond_signal that finds
\* waiting_threads = 0 leaves no thread blocked without a token on its way.
THEOREM WakeupsCovered == SafetySpec => []NoLostWakeup
BY InitBasic, StepBasic, InitCovered, StepCovered, PTL DEF SafetySpec

-----------------------------------------------------------------------------
\* Every wait is without a timeout: ms is 0 in every call of
\* nabto_device_threads_cond_timed_wait, as nabto_device_threads_cond_wait
\* makes it.
NoTimedWait == \A t \in Threads : ~ timed[t]

\* Without timeouts nobody takes a registration back, and registrations and
\* tokens are exactly as many as the threads they are for.
ExactInv ==
  /\ Leaving = {}
  /\ Cardinality(Owed) = waiting + sem + Cardinality(Giving)

\* Nobody waits and nothing is registered in a new condition.
LEMMA InitExact == Init => ExactInv
<1> SUFFICES ASSUME Init PROVE ExactInv
  OBVIOUS
<1>1. Owed = {} /\ Giving = {} /\ Leaving = {}
  BY DEF Init, Owed, Blocked, Leaving, Giving
<1> QED
  BY <1>1, FS_EmptySet DEF Init, ExactInv

\* Each step moves a registration or a token with the thread it is for.
LEMMA StepExact ==
  BasicInv /\ ExactInv /\ NoTimedWait /\ [Next]_vars => ExactInv'
<1> SUFFICES ASSUME BasicInv, ExactInv, NoTimedWait, [Next]_vars
             PROVE  ExactInv'
  OBVIOUS
<1>c. /\ Cardinality(Owed) = waiting + sem + Cardinality(Giving)
      /\ waiting \in Nat /\ sem \in 0..SemMax /\ SemMax \in Nat
      /\ Cardinality(Threads) <= SemMax
      /\ pc \in [Threads -> PcValues] /\ local \in [Threads -> Nat]
  BY SemMaxAssumption, WaitMaxAssumption DEF ExactInv, BasicInv, TypeOK
<1>n. \A t \in Threads : pc[t] \notin {"timedout", "dec", "reload"}
  BY DEF ExactInv, Leaving
\* The steps that change nothing ExactInv speaks of.
<1>same. ASSUME Owed' = Owed, Giving' = Giving, Leaving' = {},
                waiting' = waiting, sem' = sem
         PROVE  ExactInv'
  BY <1>same, <1>c DEF ExactInv
<1> USE DEF Goto
<1>1. CASE UNCHANGED vars
  <2>1. /\ Owed' = Owed /\ Giving' = Giving /\ Leaving' = {}
        /\ waiting' = waiting /\ sem' = sem
    BY <1>1, <1>n DEF vars, Owed, Blocked, Leaving, Giving
  <2> QED
    BY <2>1, <1>same
<1>2. ASSUME NEW t \in Threads, OperationStep(t)
      PROVE  ExactInv'
  <2>1. CASE WaitUnlock(t) \/ WaitRelock(t) \/ SignalLoad(t)
    <3>1. Owed' = Owed /\ Giving' = Giving /\ Leaving' = {}
      <4>1. CASE WaitUnlock(t)
        BY <4>1, <1>c, <1>n DEF WaitUnlock, Owed, Blocked, Leaving, Giving
      <4>2. CASE WaitRelock(t)
        BY <4>2, <1>c, <1>n DEF WaitRelock, Owed, Blocked, Leaving, Giving
      <4>3. CASE SignalLoad(t)
        BY <4>3, <1>c, <1>n DEF SignalLoad, Owed, Blocked, Leaving, Giving
      <4> QED
        BY <2>1, <4>1, <4>2, <4>3
    <3> QED
      BY <3>1, <2>1, <1>same DEF WaitUnlock, WaitRelock, SignalLoad
  <2>2. CASE WaitTake(t)
    <3>1. /\ Owed' = Owed \ {t} /\ t \in Owed /\ Giving' = Giving
          /\ Leaving' = {}
      BY <2>2, <1>c, <1>n DEF WaitTake, Owed, Blocked, Leaving, Giving
    <3>2. Cardinality(Owed') = Cardinality(Owed) - 1
      BY <3>1, Counts, CountRemove
    <3> QED
      BY <3>1, <3>2, <2>2, <1>c, Counts DEF WaitTake, ExactInv
  \* No wait times out, so no thread is in the loop that follows a timeout.
  <2>3. ~ (WaitTimeout(t) \/ WaitDecrement(t) \/ WaitReload(t))
    BY <1>n DEF NoTimedWait, WaitTimeout, WaitDecrement, WaitReload
  <2>4. CASE SignalCas(t)
    <3>1. CASE CompareAndSwap(t) /\ Goto(t, "sigcas", "give")
      <4>1. /\ Owed' = Owed /\ Giving' = Giving \cup {t} /\ t \notin Giving
            /\ Leaving' = {}
        BY <3>1, <1>c, <1>n DEF Owed, Blocked, Leaving, Giving
      <4>2. Cardinality(Giving') = Cardinality(Giving) + 1
        BY <4>1, Counts, CountAdd
      <4> QED
        BY <4>1, <4>2, <3>1, <2>4, <1>c, Counts
           DEF SignalCas, CompareAndSwap, ExactInv
    <3>2. CASE CompareFails(t) /\ Goto(t, "sigcas", "sigload")
      <4>1. Owed' = Owed /\ Giving' = Giving /\ Leaving' = {}
        BY <3>2, <1>c, <1>n DEF Owed, Blocked, Leaving, Giving
      <4> QED
        BY <4>1, <3>2, <2>4, <1>same DEF SignalCas, CompareFails
    <3> QED
      BY <3>1, <3>2, <2>4 DEF SignalCas
  <2>5. CASE SignalGive(t)
    <3>1. /\ Owed' = Owed /\ Giving' = Giving \ {t} /\ t \in Giving
          /\ Leaving' = {}
      BY <2>5, <1>c, <1>n DEF SignalGive, Owed, Blocked, Leaving, Giving
    <3>2. Cardinality(Giving') = Cardinality(Giving) - 1
      BY <3>1, Counts, CountRemove
    <3>3. Cardinality(Giving) > 0
      BY <3>1, Counts, FS_EmptySet
    \* The thread that the token is for has none yet: there is room for it.
    <3>4. sem < SemMax
      BY <3>3, <1>c, Counts
    <3>5. sem' = sem + 1 /\ waiting' = waiting
      BY <3>4, <2>5 DEF SignalGive
    <3> QED
      BY <3>1, <3>2, <3>5, <1>c, Counts DEF ExactInv
  <2> QED
    BY <1>2, <2>1, <2>2, <2>3, <2>4, <2>5 DEF OperationStep
<1>3. ASSUME NEW t \in Threads, ClientStep(t)
      PROVE  ExactInv'
  <2>1. CASE WaitRegister(t)
    <3>1. /\ Owed' = Owed \cup {t} /\ t \notin Owed /\ Giving' = Giving
          /\ Leaving' = {}
      BY <2>1, <1>c, <1>n DEF WaitRegister, Owed, Blocked, Leaving, Giving
    <3>2. Cardinality(Owed') = Cardinality(Owed) + 1
      BY <3>1, Counts, CountAdd
    <3> QED
      BY <3>1, <3>2, <2>1, <1>c, Counts DEF WaitRegister, ExactInv
  <2>2. CASE MutexLock(t) \/ MutexUnlock(t) \/ SignalCall(t)
    <3>1. Owed' = Owed /\ Giving' = Giving /\ Leaving' = {}
      BY <2>2, <1>c, <1>n DEF MutexLock, MutexUnlock, SignalCall,
                              Owed, Blocked, Leaving, Giving
    <3> QED
      BY <3>1, <2>2, <1>same DEF MutexLock, MutexUnlock, SignalCall
  <2> QED
    BY <1>3, <2>1, <2>2 DEF ClientStep
<1> QED
  BY <1>1, <1>2, <1>3 DEF Next

\* Only a timeout can leave cond->waiting_threads above zero with nobody
\* waiting: if no wait has one, the count is zero whenever the condition is
\* not in use.
THEOREM CountIsExactWithoutTimeouts ==
  SafetySpec /\ []NoTimedWait => []QuiescentCountIsZero
<1>1. BasicInv /\ ExactInv => QuiescentCountIsZero
  <2> SUFFICES ASSUME BasicInv, ExactInv, \A t \in Threads : pc[t] = "run"
               PROVE  waiting = 0
    BY DEF QuiescentCountIsZero
  <2>1. Owed = {} /\ Giving = {}
    BY DEF Owed, Blocked, Leaving, Giving
  <2>2. waiting \in Nat /\ sem \in Nat /\ 0 = waiting + sem + 0
    BY <2>1, FS_EmptySet, SemMaxAssumption, WaitMaxAssumption
       DEF BasicInv, TypeOK, ExactInv
  <2> QED
    BY <2>2
<1> QED
  BY <1>1, InitBasic, StepBasic, InitExact, StepExact, PTL DEF SafetySpec

-----------------------------------------------------------------------------
\* Refinement of CondSpec.

\* The instance has its own copy of FiniteSets: same definition, same value.
LEMMA SameCardinality == ASSUME NEW S PROVE Abs!Cardinality(S) = Cardinality(S)
BY Zenon DEF Abs!Cardinality, Cardinality

\* A new condition is a new abstract one.
LEMMA InitRefines == Init => Abs!Init
<1> SUFFICES ASSUME Init PROVE Abs!Init
  OBVIOUS
<1>1. Blocked = {} /\ Signalling = {} /\ Giving = {}
  BY DEF Init, Blocked, Signalling, Giving
<1> QED
  BY <1>1, FS_EmptySet DEF Init, Abs!Init

\* Each step is a step of CondSpec or changes nothing that it speaks of.
LEMMA StepRefines ==
  BasicInv /\ NoLostWakeup /\ [Next]_vars => [Abs!Next]_(Abs!vars)
<1> SUFFICES ASSUME BasicInv, NoLostWakeup, [Next]_vars
             PROVE  [Abs!Next]_(Abs!vars)
  OBVIOUS
<1>c. /\ Cardinality(Owed) <= waiting + sem + Cardinality(Giving)
      /\ waiting \in Nat /\ sem \in Nat /\ SemMax \in Nat
      /\ Cardinality(Threads) <= SemMax
      /\ pc \in [Threads -> PcValues] /\ local \in [Threads -> Nat]
  BY SemMaxAssumption, WaitMaxAssumption
     DEF NoLostWakeup, BasicInv, TypeOK
<1>same. ASSUME Blocked' = Blocked, Signalling' = Signalling,
                Giving' = Giving, sem' = sem
         PROVE  [Abs!Next]_(Abs!vars)
  BY <1>same DEF Abs!vars
<1> USE DEF Goto, Blocked, Signalling, Giving
<1>1. CASE UNCHANGED vars
  BY <1>1, <1>same DEF vars
<1>2. ASSUME NEW t \in Threads, OperationStep(t)
      PROVE  [Abs!Next]_(Abs!vars)
  <2>1. CASE WaitUnlock(t)
    BY <2>1, <1>c, <1>same DEF WaitUnlock
  <2>2. CASE WaitTake(t)
    <3>1. Blocked' = Blocked \ {t} /\ t \in Blocked
          /\ Signalling' = Signalling /\ Giving' = Giving
      BY <2>2, <1>c DEF WaitTake
    <3>2. sem > 0 /\ sem' = sem - 1
      BY <2>2 DEF WaitTake
    <3> HIDE DEF Blocked, Signalling, Giving
    <3>3. Abs!Wake(t)
      BY <3>1, <3>2, <1>c, Counts DEF Abs!Wake
    <3> QED
      BY <3>3 DEF Abs!Next
  <2>3. CASE WaitTimeout(t)
    <3>1. Blocked' = Blocked \ {t} /\ t \in Blocked
          /\ Signalling' = Signalling /\ Giving' = Giving /\ sem' = sem
      BY <2>3, <1>c DEF WaitTimeout
    <3> HIDE DEF Blocked, Signalling, Giving
    <3>2. Abs!TimeOut(t)
      BY <3>1 DEF Abs!TimeOut
    <3> QED
      BY <3>2 DEF Abs!Next
  <2>4. CASE WaitRelock(t)
    BY <2>4, <1>c, <1>same DEF WaitRelock
  <2>5. CASE WaitDecrement(t)
    BY <2>5, <1>c, <1>same DEF WaitDecrement
  <2>6. CASE WaitReload(t)
    BY <2>6, <1>c, <1>same DEF WaitReload
  <2>7. CASE SignalLoad(t)
    <3>1. CASE waiting > 0
      BY <2>7, <3>1, <1>c, <1>same DEF SignalLoad
    \* The load that finds nobody registered: by NoLostWakeup every blocked
    \* thread has a token coming.
    <3>2. CASE ~ (waiting > 0)
      <4>1. Signalling' = Signalling \ {t} /\ t \in Signalling
            /\ Blocked' = Blocked /\ Giving' = Giving /\ sem' = sem
        BY <2>7, <3>2, <1>c DEF SignalLoad
      <4> HIDE DEF Blocked, Signalling, Giving
      <4>2. Cardinality(Blocked) <= sem + Cardinality(Giving)
        BY <3>2, <1>c, Counts
      <4>3. Abs!SignalNobody(t)
        BY <4>1, <4>2, SameCardinality DEF Abs!SignalNobody
      <4> QED
        BY <4>3 DEF Abs!Next
    <3> QED
      BY <3>1, <3>2
  <2>8. CASE SignalCas(t)
    <3>1. CASE CompareAndSwap(t) /\ Goto(t, "sigcas", "give")
      <4>1. Signalling' = Signalling \ {t} /\ t \in Signalling
            /\ Blocked' = Blocked /\ sem' = sem
            /\ Giving' = Giving \cup {t} /\ t \notin Giving
        BY <3>1, <2>8, <1>c DEF SignalCas
      <4> HIDE DEF Blocked, Signalling, Giving
      <4>2. Cardinality(Giving') = Cardinality(Giving) + 1
        BY <4>1, Counts, CountAdd
      <4>3. sem' + Cardinality(Giving') = (sem + Cardinality(Giving)) + 1
        BY <4>1, <4>2, <1>c, Counts
      <4>4. Abs!SignalGrant(t)
        BY <4>1, <4>3 DEF Abs!SignalGrant
      <4> QED
        BY <4>4 DEF Abs!Next
    <3>2. CASE CompareFails(t) /\ Goto(t, "sigcas", "sigload")
      BY <3>2, <2>8, <1>c, <1>same DEF SignalCas
    <3> QED
      BY <3>1, <3>2, <2>8 DEF SignalCas
  <2>9. CASE SignalGive(t)
    <3>1. Giving' = Giving \ {t} /\ t \in Giving
          /\ Blocked' = Blocked /\ Signalling' = Signalling
      BY <2>9, <1>c DEF SignalGive
    <3>2. sem' = IF sem < SemMax THEN sem + 1 ELSE sem
      BY <2>9 DEF SignalGive
    <3> HIDE DEF Blocked, Signalling, Giving
    <3>3. Cardinality(Giving') = Cardinality(Giving) - 1
          /\ Cardinality(Giving) > 0
      BY <3>1, Counts, CountRemove, FS_EmptySet
    <3>4. CASE sem < SemMax
      <4>1. sem' + Cardinality(Giving') = sem + Cardinality(Giving)
        BY <3>2, <3>3, <3>4, <1>c, Counts
      <4> QED
        BY <4>1, <3>1 DEF Abs!vars
    \* The dropped give: the semaphore alone covers every blocked thread.
    <3>5. CASE ~ (sem < SemMax)
      <4>1. sem' + Cardinality(Giving') = (sem + Cardinality(Giving)) - 1
            /\ Cardinality(Blocked) < sem + Cardinality(Giving)
        BY <3>2, <3>3, <3>5, <1>c, Counts
      <4>2. Abs!DropExcess
        BY <4>1, <3>1, SameCardinality DEF Abs!DropExcess
      <4> QED
        BY <4>2 DEF Abs!Next
    <3> QED
      BY <3>4, <3>5
  <2> QED
    BY <1>2, <2>1, <2>2, <2>3, <2>4, <2>5, <2>6, <2>7, <2>8, <2>9
       DEF OperationStep
<1>3. ASSUME NEW t \in Threads, ClientStep(t)
      PROVE  [Abs!Next]_(Abs!vars)
  <2>1. CASE MutexLock(t) \/ MutexUnlock(t)
    BY <2>1, <1>c, <1>same DEF MutexLock, MutexUnlock
  <2>2. CASE WaitRegister(t)
    <3>1. Blocked' = Blocked \cup {t} /\ t \notin Blocked \cup Signalling
          /\ Signalling' = Signalling /\ Giving' = Giving /\ sem' = sem
      BY <2>2, <1>c DEF WaitRegister
    <3> HIDE DEF Blocked, Signalling, Giving
    <3>2. Abs!Wait(t)
      BY <3>1 DEF Abs!Wait
    <3> QED
      BY <3>2 DEF Abs!Next
  <2>3. CASE SignalCall(t)
    <3>1. Signalling' = Signalling \cup {t} /\ t \notin Blocked \cup Signalling
          /\ Blocked' = Blocked /\ Giving' = Giving /\ sem' = sem
      BY <2>3, <1>c DEF SignalCall
    <3> HIDE DEF Blocked, Signalling, Giving
    <3>2. Abs!SignalCall(t)
      BY <3>1 DEF Abs!SignalCall
    <3> QED
      BY <3>2 DEF Abs!Next
  <2> QED
    BY <1>3, <2>1, <2>2, <2>3 DEF ClientStep
<1> QED
  BY <1>1, <1>2, <1>3 DEF Next

\* Every step of the condition variable is a step of CondSpec or leaves its
\* state alone: the safety part of ImplementsCondSpec.
THEOREM RefinesCondSpec == SafetySpec => Abs!SafetySpec
BY InitBasic, StepBasic, InitCovered, StepCovered, InitRefines, StepRefines, PTL
   DEF SafetySpec, Abs!SafetySpec
=============================================================================
