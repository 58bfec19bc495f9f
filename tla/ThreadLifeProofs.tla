-------------------------- MODULE ThreadLifeProofs --------------------------
(***************************************************************************)
(* The safety properties of ThreadLife, for any threads and any callers of *)
(* join.                                                                   *)
(***************************************************************************)
EXTENDS ThreadLife, FiniteSetTheorems, TLAPS

\* The caller inside join of o holds join_mutex, and holding it pins down the
\* thread: it runs and has both semaphores.
MutexGuards(o) ==
  /\ \A j \in Joiners : jpc[j] \in {At("wait", o), At("clean", o)} => jmutex[o] = j
  /\ jmutex[o] # NoJoiner =>
       obj[o] = "running" /\ sems[o] = 2 /\ task[o] \notin {"none", "deleted"}

\* The barrier is given, and passed, only after the function has returned.
BarrierLate(o) ==
  /\ barrier[o] = 1 => task[o] \in {"suspend", "parked"}
  /\ \A j \in Joiners : jpc[j] = At("clean", o) =>
       task[o] \in {"suspend", "parked"} /\ barrier[o] = 0

\* What exists at each stage of the thread's life.
Stages(o) ==
  /\ obj[o] \in {"none", "made"} => task[o] = "none" /\ sems[o] = 0
  /\ obj[o] = "failed" => task[o] = "none"
  /\ obj[o] = "running" => /\ task[o] # "none"
                           /\ task[o] # "deleted" => sems[o] = 2
  /\ obj[o] = "freed" => task[o] \in {"none", "deleted"}
  /\ task[o] = "deleted" => sems[o] = 0

IInv ==
  TypeOK /\ \A o \in Objects : MutexGuards(o) /\ BarrierLate(o) /\ Stages(o)

-----------------------------------------------------------------------------
\* The places in join are distinct.
LEMMA Places ==
  /\ \A p, q, o, n : At(p, o) = At(q, n) <=> p = q /\ o = n
  /\ \A p, o : At(p, o) # Idle
<1>1. ASSUME NEW p, NEW q, NEW o, NEW n, At(p, o) = At(q, n)
      PROVE  p = q /\ o = n
  <2>1. At(p, o).at = p /\ At(p, o).on = o /\ At(q, n).at = q /\ At(q, n).on = n
    BY DEF At
  <2> QED BY <1>1, <2>1
<1>2. ASSUME NEW p, NEW o PROVE At(p, o) # Idle
  <2>1. DOMAIN At(p, o) = {"at", "on"} /\ DOMAIN Idle = {"at"}
    BY DEF At, Idle
  <2> QED BY <2>1
<1> QED BY <1>1, <1>2

\* The invariant holds before any thread is created.
LEMMA InitIInv == Init => IInv
  BY Places, NoJoinerAssumption
  DEF Init, IInv, TypeOK, MutexGuards, BarrierLate, Stages

\* Steps of create_thread, run, free_thread and the task.
LEMMA ThreadSteps ==
  ASSUME IInv, NEW o \in Objects,
         CreateThread(o) \/ Run(o) \/ TaskStep(o) \/ FreeThread(o)
  PROVE  IInv'
<1> USE DEF IInv
<1>1. jpc' = jpc /\ jmutex' = jmutex
  BY DEF CreateThread, Run, TaskStep, TaskReturn, TaskGive, TaskSuspend, FreeThread
<1>2. CASE CreateThread(o)
  BY <1>1, <1>2 DEF CreateThread, TypeOK, MutexGuards, BarrierLate, Stages
<1>3. CASE Run(o)
  <2>1. TypeOK'
    BY <1>1, <1>3 DEF Run, TypeOK
  <2>2. ASSUME NEW n \in Objects PROVE (MutexGuards(n) /\ BarrierLate(n) /\ Stages(n))'
    BY <1>1, <1>3 DEF Run, TypeOK, MutexGuards, BarrierLate, Stages
  <2> QED BY <2>1, <2>2
<1>4. CASE TaskReturn(o)
  BY <1>1, <1>4 DEF TaskReturn, TypeOK, MutexGuards, BarrierLate, Stages
<1>5. CASE TaskGive(o)
  <2>1. TypeOK'
    BY <1>1, <1>5 DEF TaskGive, TypeOK
  <2>2. ASSUME NEW n \in Objects PROVE (MutexGuards(n) /\ BarrierLate(n) /\ Stages(n))'
    BY <1>1, <1>5 DEF TaskGive, TypeOK, MutexGuards, BarrierLate, Stages
  <2> QED BY <2>1, <2>2
<1>6. CASE TaskSuspend(o)
  BY <1>1, <1>6 DEF TaskSuspend, TypeOK, MutexGuards, BarrierLate, Stages
<1>7. CASE FreeThread(o)
  <2>1. TypeOK'
    BY <1>1, <1>7 DEF FreeThread, TypeOK
  <2>2. jmutex[o] = NoJoiner
    BY <1>7 DEF FreeThread, MutexGuards
  <2>3. ASSUME NEW n \in Objects PROVE (MutexGuards(n) /\ BarrierLate(n) /\ Stages(n))'
    BY <1>1, <1>7, <2>2 DEF FreeThread, TypeOK, MutexGuards, BarrierLate, Stages
  <2> QED BY <2>1, <2>3
<1> QED BY <1>2, <1>3, <1>4, <1>5, <1>6, <1>7 DEF TaskStep

\* Steps of join.
LEMMA JoinSteps ==
  ASSUME IInv, NEW j \in Joiners, NEW o \in Objects,
         JoinEnter(j, o) \/ JoinWait(j, o) \/ JoinClean(j, o)
  PROVE  IInv'
<1> USE NoJoinerAssumption DEF IInv
<1>1. CASE JoinEnter(j, o)
  <2>1. TypeOK'
    BY <1>1 DEF JoinEnter, TypeOK
  <2>2. ASSUME NEW n \in Objects PROVE (MutexGuards(n) /\ BarrierLate(n) /\ Stages(n))'
    BY <1>1, Places DEF JoinEnter, Joinable, TypeOK, MutexGuards, BarrierLate, Stages
  <2> QED BY <2>1, <2>2
<1>2. CASE JoinWait(j, o)
  <2>1. TypeOK'
    BY <1>2 DEF JoinWait, TypeOK
  <2>2. ASSUME NEW n \in Objects PROVE (MutexGuards(n) /\ BarrierLate(n) /\ Stages(n))'
    BY <1>2, Places DEF JoinWait, TypeOK, MutexGuards, BarrierLate, Stages
  <2> QED BY <2>1, <2>2
<1>3. CASE JoinClean(j, o)
  <2>1. jmutex[o] = j /\ sems[o] = 2 /\ obj[o] = "running" /\ barrier[o] = 0
    BY <1>3 DEF JoinClean, MutexGuards, BarrierLate
  <2>2. TypeOK'
    BY <1>3, <2>1 DEF JoinClean, TypeOK
  <2>3. ASSUME NEW n \in Objects PROVE (MutexGuards(n) /\ BarrierLate(n) /\ Stages(n))'
    BY <1>3, <2>1, Places DEF JoinClean, TypeOK, MutexGuards, BarrierLate, Stages
  <2> QED BY <2>2, <2>3
<1> QED BY <1>1, <1>2, <1>3

\* Every step keeps the invariant.
LEMMA NextIInv == IInv /\ [Next]_vars => IInv'
<1> SUFFICES ASSUME IInv, [Next]_vars PROVE IInv'
  OBVIOUS
<1>1. CASE UNCHANGED vars
  BY <1>1 DEF vars, IInv, TypeOK, MutexGuards, BarrierLate, Stages
<1> QED BY <1>1, ThreadSteps, JoinSteps DEF Next, JoinStep

\* The inductive invariant of the threads and their callers of join.
THEOREM Inductive == SafetySpec => []IInv
  BY InitIInv, NextIInv, PTL DEF SafetySpec

\* Every thread, task, barrier and join_mutex keeps its type: the barrier is a
\* binary semaphore, and no more than the two semaphores of run are deleted.
THEOREM TypeCorrect == SafetySpec => []TypeOK
<1>1. IInv => TypeOK
  BY DEF IInv
<1> QED BY <1>1, Inductive, PTL

\* One caller at a time is inside join of a thread, and both of the thread's
\* semaphores exist while it is.
THEOREM CleanerIsUnique == SafetySpec => []OneCleaner
<1>1. IInv => OneCleaner
  <2> SUFFICES ASSUME IInv, NEW o \in Objects
               PROVE  /\ Cardinality(Joining(o)) <= 1
                      /\ Joining(o) # {} => sems[o] = 2 /\ obj[o] = "running"
    BY DEF OneCleaner
  <2>1. Joining(o) \subseteq {jmutex[o]}
    BY DEF IInv, MutexGuards, Joining
  <2>2. Cardinality(Joining(o)) <= 1
    <3>1. IsFiniteSet({jmutex[o]}) /\ Cardinality({jmutex[o]}) = 1
      BY FS_Singleton
    <3> QED BY <2>1, <3>1, FS_Subset
  <2>3. Joining(o) # {} => sems[o] = 2 /\ obj[o] = "running"
    BY NoJoinerAssumption DEF IInv, MutexGuards, Joining
  <2> QED BY <2>2, <2>3
<1> QED BY <1>1, Inductive, PTL

\* A thread that ran and was freed left neither a task nor a semaphore.
THEOREM NothingIsLeft == SafetySpec => []JoinedThreadLeavesNothing
<1>1. IInv => JoinedThreadLeavesNothing
  BY DEF IInv, Stages, JoinedThreadLeavesNothing
<1> QED BY <1>1, Inductive, PTL

\* vTaskDelete in join hits no task that has not given the barrier.
THEOREM TaskIsNotKilled == SafetySpec => TaskNotKilled
<1>1. IInv /\ [Next]_vars =>
        [\A o \in Objects : task[o] \in {"func", "give"} => task'[o] # "deleted"]_vars
  <2> SUFFICES ASSUME IInv, Next, NEW o \in Objects, task[o] \in {"func", "give"}
               PROVE  task'[o] # "deleted"
    OBVIOUS
  <2>1. ASSUME NEW n \in Objects,
               CreateThread(n) \/ Run(n) \/ TaskStep(n) \/ FreeThread(n)
        PROVE  task'[o] # "deleted"
    BY <2>1 DEF IInv, TypeOK, CreateThread, Run, TaskStep, TaskReturn, TaskGive,
       TaskSuspend, FreeThread
  <2>2. ASSUME NEW j \in Joiners, NEW n \in Objects, JoinEnter(j, n) \/ JoinWait(j, n)
        PROVE  task'[o] # "deleted"
    BY <2>2 DEF JoinEnter, JoinWait
  <2>3. ASSUME NEW j \in Joiners, NEW n \in Objects, JoinClean(j, n)
        PROVE  task'[o] # "deleted"
    BY <2>3 DEF IInv, TypeOK, BarrierLate, JoinClean
  <2> QED BY <2>1, <2>2, <2>3 DEF Next, JoinStep
<1> QED BY <1>1, Inductive, PTL DEF SafetySpec, TaskNotKilled
=============================================================================
