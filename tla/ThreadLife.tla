----------------------------- MODULE ThreadLife -----------------------------
(***************************************************************************)
(* The threads of nabto_device_threads_freertos.c from create_thread to    *)
(* free_thread: the task, its two semaphores, and callers of join that     *)
(* race each other and the end of the task.                                *)
(***************************************************************************)
EXTENDS Naturals, FiniteSets

CONSTANTS
  Objects,  \* struct nabto_device_thread objects
  Joiners,  \* threads that may call join
  NoJoiner

ASSUME NoJoinerAssumption == NoJoiner \notin Joiners

VARIABLES
  obj,      \* obj[o]: "none", "made", "failed", "running" or "freed"
  task,     \* task[o]: "none", "func", "give", "suspend", "parked", "deleted"
  barrier,  \* join_barrier[o]: its count, 0 or 1
  jmutex,   \* join_mutex[o]: the joiner that holds it
  sems,     \* sems[o]: semaphores of o that exist
  jpc       \* jpc[j]: "idle", or the object and the place j has reached in join

vars == <<obj, task, barrier, jmutex, sems, jpc>>

Idle == [at |-> "idle"]

At(place, o) == [at |-> place, on |-> o]

Init ==
  /\ obj = [o \in Objects |-> "none"]
  /\ task = [o \in Objects |-> "none"]
  /\ barrier = [o \in Objects |-> 0]
  /\ jmutex = [o \in Objects |-> NoJoiner]
  /\ sems = [o \in Objects |-> 0]
  /\ jpc = [j \in Joiners |-> Idle]

\* Joiners that hold join_mutex of o, or believe they do.
Joining(o) == {j \in Joiners : jpc[j] \in {At("wait", o), At("clean", o)}}

-----------------------------------------------------------------------------
CreateThread(o) ==
  /\ obj[o] = "none"
  /\ obj' = [obj EXCEPT ![o] = "made"]
  /\ UNCHANGED <<task, barrier, jmutex, sems, jpc>>

\* nabto_device_threads_run: both semaphores are created before xTaskCreate,
\* and kept when it fails.
Run(o) ==
  /\ obj[o] = "made"
  /\ sems' = [sems EXCEPT ![o] = 2]
  /\ \/ /\ obj' = [obj EXCEPT ![o] = "running"]
        /\ task' = [task EXCEPT ![o] = "func"]
     \/ /\ obj' = [obj EXCEPT ![o] = "failed"]
        /\ UNCHANGED task
  /\ UNCHANGED <<barrier, jmutex, jpc>>

\* NabtoThreadTask: the thread's function returns, the barrier is given, the
\* task suspends itself.
TaskReturn(o) ==
  /\ task[o] = "func"
  /\ task' = [task EXCEPT ![o] = "give"]
  /\ UNCHANGED <<obj, barrier, jmutex, sems, jpc>>

\* Mutant of TaskGive: the task ends without giving the barrier.
TaskGiveForgotten(o) ==
  /\ task[o] = "give"
  /\ task' = [task EXCEPT ![o] = "suspend"]
  /\ UNCHANGED <<obj, barrier, jmutex, sems, jpc>>

TaskGive(o) ==
  /\ task[o] = "give"
  /\ task' = [task EXCEPT ![o] = "suspend"]
  /\ barrier' = [barrier EXCEPT ![o] = 1]
  /\ UNCHANGED <<obj, jmutex, sems, jpc>>

TaskSuspend(o) ==
  /\ task[o] = "suspend"
  /\ task' = [task EXCEPT ![o] = "parked"]
  /\ UNCHANGED <<obj, barrier, jmutex, sems, jpc>>

\* Join may be called while the thread has not been joined.
Joinable(j, o) == jpc[j] = Idle /\ obj[o] = "running" /\ task[o] # "deleted"

\* Mutant of JoinEnter: the result of the first Take is ignored.
JoinEnterUnchecked(j, o) ==
  /\ Joinable(j, o)
  /\ jmutex' = [jmutex EXCEPT ![o] = j]
  /\ jpc' = [jpc EXCEPT ![j] = At("wait", o)]
  /\ UNCHANGED <<obj, task, barrier, sems>>

\* xSemaphoreTake(join_mutex, 0): whoever is not first returns at once.
JoinEnter(j, o) ==
  /\ Joinable(j, o)
  /\ IF jmutex[o] = NoJoiner
       THEN /\ jmutex' = [jmutex EXCEPT ![o] = j]
            /\ jpc' = [jpc EXCEPT ![j] = At("wait", o)]
       ELSE UNCHANGED <<jmutex, jpc>>
  /\ UNCHANGED <<obj, task, barrier, sems>>

\* Mutant of JoinWait: the wait for the barrier has a timeout.
JoinWaitTimeout(j, o) ==
  /\ jpc[j] = At("wait", o)
  /\ barrier' = [barrier EXCEPT ![o] = 0]
  /\ jpc' = [jpc EXCEPT ![j] = At("clean", o)]
  /\ UNCHANGED <<obj, task, jmutex, sems>>

JoinWait(j, o) ==
  /\ jpc[j] = At("wait", o)
  /\ barrier[o] = 1
  /\ barrier' = [barrier EXCEPT ![o] = 0]
  /\ jpc' = [jpc EXCEPT ![j] = At("clean", o)]
  /\ UNCHANGED <<obj, task, jmutex, sems>>

\* Mutant of JoinClean: one of the two semaphores is not deleted.
JoinCleanOne(j, o) ==
  /\ jpc[j] = At("clean", o)
  /\ jmutex' = [jmutex EXCEPT ![o] = NoJoiner]
  /\ sems' = [sems EXCEPT ![o] = sems[o] - 1]
  /\ task' = [task EXCEPT ![o] = "deleted"]
  /\ jpc' = [jpc EXCEPT ![j] = Idle]
  /\ UNCHANGED <<obj, barrier>>

\* Mutant of JoinClean: one semaphore is deleted twice.
JoinCleanTwice(j, o) ==
  /\ jpc[j] = At("clean", o)
  /\ jmutex' = [jmutex EXCEPT ![o] = NoJoiner]
  /\ sems' = [sems EXCEPT ![o] = sems[o] - 3]
  /\ task' = [task EXCEPT ![o] = "deleted"]
  /\ jpc' = [jpc EXCEPT ![j] = Idle]
  /\ UNCHANGED <<obj, barrier>>

\* Lines 102-112, with the scheduler suspended.
JoinClean(j, o) ==
  /\ jpc[j] = At("clean", o)
  /\ jmutex' = [jmutex EXCEPT ![o] = NoJoiner]
  /\ sems' = [sems EXCEPT ![o] = sems[o] - 2]
  /\ task' = [task EXCEPT ![o] = "deleted"]
  /\ jpc' = [jpc EXCEPT ![j] = Idle]
  /\ UNCHANGED <<obj, barrier>>

\* free_thread frees the structure only: after a join, or if nothing runs.
FreeThread(o) ==
  /\ obj[o] \in {"made", "failed"} \/ (obj[o] = "running" /\ task[o] = "deleted")
  /\ Joining(o) = {}
  /\ obj' = [obj EXCEPT ![o] = "freed"]
  /\ UNCHANGED <<task, barrier, jmutex, sems, jpc>>
TaskStep(o) == TaskReturn(o) \/ TaskGive(o) \/ TaskSuspend(o)

JoinStep(j, o) == JoinWait(j, o) \/ JoinClean(j, o)

Next ==
  \/ \E o \in Objects : CreateThread(o) \/ Run(o) \/ TaskStep(o) \/ FreeThread(o)
  \/ \E j \in Joiners, o \in Objects : JoinEnter(j, o) \/ JoinStep(j, o)

SafetySpec == Init /\ [][Next]_vars

\* The thread's function returns, as a client that joins it expects, and every
\* ready task is scheduled.
Spec ==
  /\ SafetySpec
  /\ \A o \in Objects : WF_vars(TaskStep(o))
  /\ \A j \in Joiners, o \in Objects : WF_vars(JoinStep(j, o))

-----------------------------------------------------------------------------
TypeOK ==
  /\ obj \in [Objects -> {"none", "made", "failed", "running", "freed"}]
  /\ task \in [Objects -> {"none", "func", "give", "suspend", "parked", "deleted"}]
  /\ barrier \in [Objects -> {0, 1}]
  /\ jmutex \in [Objects -> Joiners \cup {NoJoiner}]
  /\ sems \in [Objects -> 0..2]
  /\ jpc \in [Joiners -> {Idle} \cup {At(p, o) : p \in {"wait", "clean"}, o \in Objects}]

\* At most one caller of join waits for a thread and cleans it up, and while it
\* does so both semaphores of the thread exist: none is deleted twice.
OneCleaner ==
  \A o \in Objects :
    /\ Cardinality(Joining(o)) <= 1
    /\ Joining(o) # {} => sems[o] = 2 /\ obj[o] = "running"

\* vTaskDelete never hits a task that is still in its function or has not given
\* the barrier.
TaskNotKilled ==
  [][\A o \in Objects :
       task[o] \in {"func", "give"} => task'[o] # "deleted"]_vars

\* A thread that ran and was freed left neither a task nor a semaphore behind.
JoinedThreadLeavesNothing ==
  \A o \in Objects :
    obj[o] = "freed" /\ task[o] # "none" => task[o] = "deleted" /\ sems[o] = 0

\* A join that waits returns, whether it was called before or after the thread
\* finished, and the task does not stay suspended for ever.
JoinReturns ==
  \A j \in Joiners, o \in Objects :
    jpc[j] = At("wait", o) ~> jpc[j] = Idle /\ task[o] = "deleted"
=============================================================================
