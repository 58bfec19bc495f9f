--------------------------- MODULE CoreLockProofs ---------------------------
(* Proofs about CoreLock, for any number of threads and any nesting depth  *)
(* the u8_t counter can hold.                                              *)
EXTENDS CoreLock, TLAPS

\* The lock invariant holds after sys_init, with the mutex free.
LEMMA LockInitInv == LockInit => LockInv
BY NoThreadAssumption, MaxDepthAssumption
   DEF LockInit, LockInv, LockTypeOK, OwnerInside, CountMatchesNesting,
       LpcValues, CountModulus

\* A thread on its way through lock or unlock is the owner, and alone.
LEMMA Alone ==
  ASSUME LockInv, NEW t \in Threads, lpc[t] # "out"
  PROVE  /\ owner = t /\ nest > 0
         /\ \A u \in Threads : u # t => lpc[u] = "out"
BY NoThreadAssumption DEF LockInv, OwnerInside

\* Every instruction of lock, unlock and check keeps the lock invariant.
LEMMA LockStepInv == LockInv /\ [LockNext]_lockVars => LockInv'
<1> SUFFICES ASSUME LockInv, [LockNext]_lockVars
             PROVE  LockInv'
  OBVIOUS
<1> USE NoThreadAssumption, MaxDepthAssumption
        DEF LockInv, LockTypeOK, OwnerInside, CountMatchesNesting, LpcValues,
            CountModulus
<1>1. CASE UNCHANGED lockVars
  BY <1>1 DEF lockVars
<1>2. ASSUME NEW t \in Threads, LockTake(t)
      PROVE  LockInv'
  BY <1>2 DEF LockTake
<1>3. ASSUME NEW t \in Threads, LockSetHolder(t)
      PROVE  LockInv'
  BY <1>3, Alone DEF LockSetHolder
<1>4. ASSUME NEW t \in Threads, LockIncCount(t)
      PROVE  LockInv'
  BY <1>4, Alone DEF LockIncCount
<1>5. ASSUME NEW t \in Threads, UnlockDecCount(t)
      PROVE  LockInv'
  BY <1>5, Alone DEF UnlockDecCount
<1>6. ASSUME NEW t \in Threads, UnlockClearHolder(t)
      PROVE  LockInv'
  BY <1>6, Alone DEF UnlockClearHolder
<1>7. ASSUME NEW t \in Threads, UnlockGive(t)
      PROVE  LockInv'
  BY <1>7, Alone DEF UnlockGive
<1> QED
  BY <1>1, <1>2, <1>3, <1>4, <1>5, <1>6, <1>7 DEF LockNext, LockStep

\* Type correctness of the core lock.
THEOREM LockTypeCorrect == LockSpec => []LockTypeOK
<1>1. LockInv => LockTypeOK
  BY DEF LockInv
<1> QED
  BY LockInitInv, LockStepInv, <1>1, PTL DEF LockSpec

\* LOCK_TCPIP_CORE excludes: one thread at a time is inside the lwIP core.
THEOREM CoreIsExclusive == LockSpec => []CoreExclusive
<1>1. LockInv => CoreExclusive
  BY NoThreadAssumption DEF LockInv, OwnerInside, CoreExclusive
<1> QED
  BY LockInitInv, LockStepInv, <1>1, PTL DEF LockSpec

\* LWIP_ASSERT_CORE_LOCKED passes exactly for the thread inside the core.
THEOREM CheckTellsTruth == LockSpec => []CheckIsExact
<1>1. LockInv => CheckIsExact
  <2> SUFFICES ASSUME LockInv, NEW t \in Threads
               PROVE  /\ lpc[t] = "in" => CheckCoreLocking(t)
                      /\ lpc[t] = "out" => ~ CheckCoreLocking(t)
    BY DEF CheckIsExact
  <2>1. nest \in Nat /\ count \in Nat
    BY MaxDepthAssumption DEF LockInv, LockTypeOK, CountModulus
  <2>2. CASE lpc[t] = "in"
    <3>1. owner = t /\ nest > 0 /\ holder = t
      BY <2>2 DEF LockInv, OwnerInside
    <3>2. nest = count
      BY <2>1, <2>2, <3>1 DEF LockInv, CountMatchesNesting
    <3> QED
      BY <2>1, <2>2, <3>1, <3>2 DEF CheckCoreLocking
  <2>3. CASE lpc[t] = "out"
    BY <2>3 DEF LockInv, OwnerInside, CheckCoreLocking
  <2> QED
    BY <2>2, <2>3
<1> QED
  BY LockInitInv, LockStepInv, <1>1, PTL DEF LockSpec

\* lwip_core_lock_count counts the nesting of LOCK_TCPIP_CORE.
THEOREM CountIsNesting == LockSpec => []CountMatchesNesting
<1>1. LockInv => CountMatchesNesting
  BY DEF LockInv
<1> QED
  BY LockInitInv, LockStepInv, <1>1, PTL DEF LockSpec
=============================================================================
