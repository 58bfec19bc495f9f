------------------------------ MODULE CoreLock ------------------------------
(***************************************************************************)
(* LOCK_TCPIP_CORE and UNLOCK_TCPIP_CORE as lwip-port/sys_arch.c implements *)
(* them: a recursive FreeRTOS mutex, and beside it a counter and a holder  *)
(* that sys_check_core_locking consults.  Every assignment to the counter  *)
(* or the holder is a step of its own, so that a thread may be preempted   *)
(* while the three disagree.                                               *)
(***************************************************************************)
EXTENDS Naturals

CONSTANTS
  Threads,    \* the tasks that enter the lwIP core
  NoThread,   \* the null task handle
  MaxDepth    \* how often one thread may hold the lock at once

\* lwip_core_lock_count is a u8_t.
CountModulus == 256

ASSUME NoThreadAssumption == NoThread \notin Threads
ASSUME MaxDepthAssumption == MaxDepth \in 1..(CountModulus - 1)

VARIABLES
  owner,   \* holder of the recursive mutex lock_tcpip_core
  nest,    \* its recursion count
  count,   \* lwip_core_lock_count
  holder,  \* lwip_core_lock_holder_thread
  lpc      \* lpc[t]: where t is in lock or unlock; "in" is inside the core

lockVars == <<owner, nest, count, holder, lpc>>

LpcValues == {"out", "taken", "held", "in", "dec", "clear"}

LockInit ==
  /\ owner = NoThread
  /\ nest = 0
  /\ count = 0
  /\ holder = NoThread
  /\ lpc = [t \in Threads |-> "out"]

\* Mutant of LockTake: the mutex does not exclude.
LockTakeFreely(t) ==
  /\ lpc[t] \in {"out", "in"}
  /\ nest < MaxDepth
  /\ owner' = t
  /\ nest' = nest + 1
  /\ lpc' = [lpc EXCEPT ![t] = "taken"]
  /\ UNCHANGED <<count, holder>>

\* xSemaphoreTakeRecursive waits for ever; the owner takes it again at once.
LockTake(t) ==
  /\ lpc[t] \in {"out", "in"}
  /\ owner \in {NoThread, t}
  /\ nest < MaxDepth
  /\ owner' = t
  /\ nest' = nest + 1
  /\ lpc' = [lpc EXCEPT ![t] = "taken"]
  /\ UNCHANGED <<count, holder>>

\* Mutant of LockSetHolder: the counter is tested after it was incremented.
LockSetHolderLate(t) ==
  /\ lpc[t] = "taken"
  /\ holder' = IF count + 1 = 0 THEN t ELSE holder
  /\ lpc' = [lpc EXCEPT ![t] = "held"]
  /\ UNCHANGED <<owner, nest, count>>

LockSetHolder(t) ==
  /\ lpc[t] = "taken"
  /\ holder' = IF count = 0 THEN t ELSE holder
  /\ lpc' = [lpc EXCEPT ![t] = "held"]
  /\ UNCHANGED <<owner, nest, count>>

LockIncCount(t) ==
  /\ lpc[t] = "held"
  /\ count' = (count + 1) % CountModulus
  /\ lpc' = [lpc EXCEPT ![t] = "in"]
  /\ UNCHANGED <<owner, nest, holder>>

\* Mutant of UnlockDecCount: only the outermost unlock is counted.
UnlockDecCountOutermost(t) ==
  /\ lpc[t] = "in"
  /\ count' = IF nest = 1 THEN count - 1 ELSE count
  /\ lpc' = [lpc EXCEPT ![t] = "dec"]
  /\ UNCHANGED <<owner, nest, holder>>

UnlockDecCount(t) ==
  /\ lpc[t] = "in"
  /\ count' = (count + CountModulus - 1) % CountModulus
  /\ lpc' = [lpc EXCEPT ![t] = "dec"]
  /\ UNCHANGED <<owner, nest, holder>>

UnlockClearHolder(t) ==
  /\ lpc[t] = "dec"
  /\ holder' = IF count = 0 THEN NoThread ELSE holder
  /\ lpc' = [lpc EXCEPT ![t] = "clear"]
  /\ UNCHANGED <<owner, nest, count>>

UnlockGive(t) ==
  /\ lpc[t] = "clear"
  /\ nest' = nest - 1
  /\ owner' = IF nest = 1 THEN NoThread ELSE owner
  /\ lpc' = [lpc EXCEPT ![t] = IF nest = 1 THEN "out" ELSE "in"]
  /\ UNCHANGED <<count, holder>>

\* The steps of a lock or an unlock that a thread has begun.
LockStep(t) ==
  LockSetHolder(t) \/ LockIncCount(t) \/ UnlockClearHolder(t) \/ UnlockGive(t)

LockNext ==
  \E t \in Threads : LockTake(t) \/ UnlockDecCount(t) \/ LockStep(t)

LockSpec == LockInit /\ [][LockNext]_lockVars

\* The assertion of sys_check_core_locking, evaluated by thread t.
CheckCoreLocking(t) == holder = t /\ count > 0

-----------------------------------------------------------------------------
LockTypeOK ==
  /\ owner \in Threads \cup {NoThread}
  /\ nest \in 0..MaxDepth
  /\ count \in 0..(CountModulus - 1)
  /\ holder \in Threads \cup {NoThread}
  /\ lpc \in [Threads -> LpcValues]

\* Two threads are never between lock and unlock at the same time.
CoreExclusive ==
  \A t, u \in Threads : lpc[t] # "out" /\ lpc[u] # "out" => t = u

\* sys_check_core_locking tells the truth: it passes for the thread that is
\* inside the core and fails for every thread that does not hold the lock,
\* whatever half-finished lock or unlock another thread was preempted in.
CheckIsExact ==
  \A t \in Threads :
    /\ lpc[t] = "in" => CheckCoreLocking(t)
    /\ lpc[t] = "out" => ~ CheckCoreLocking(t)

\* The counter agrees with the mutex's own recursion count, one behind while
\* a lock has not counted itself yet or an unlock already has.
CountMatchesNesting ==
  /\ owner = NoThread => nest = 0 /\ count = 0
  /\ \A t \in Threads : owner = t =>
       nest = count + IF lpc[t] = "in" THEN 0 ELSE 1

\* The inductive invariant: who the mutex, the holder and the program counters
\* say is inside.
OwnerInside ==
  \A t \in Threads :
    /\ lpc[t] # "out" <=> owner = t
    /\ owner = t => nest > 0
    /\ lpc[t] \in {"held", "in"} => holder = t
    /\ lpc[t] = "clear" /\ count = 0 => holder = NoThread
    /\ lpc[t] \in {"taken", "dec", "clear"} /\ count > 0 => holder = t
    /\ holder = t => owner = t

LockInv == LockTypeOK /\ OwnerInside /\ CountMatchesNesting
=============================================================================
