------------------------- MODULE TcpipThreadProofs --------------------------
(***************************************************************************)
(* Proofs about TcpipThread: it uses the core lock as CoreLock specifies,  *)
(* so the results of CoreLockProofs hold of it; its mailbox is large       *)
(* enough for the two message pools together; no message is lost or freed  *)
(* twice; and only polls of other interfaces strand a loopback list.       *)
(***************************************************************************)
EXTENDS TcpipThread, CoreLockProofs, SequenceTheorems, FiniteSetTheorems

\* Every step of the composed system is a step of the core lock or leaves it
\* alone.
THEOREM ComposedUsesCoreLock == SafetySpec => UsesCoreLock
<1>1. Init => LockInit
  BY DEF Init
<1>2. [Next]_vars => [LockNext]_lockVars
  <2> SUFFICES ASSUME [Next]_vars PROVE [LockNext]_lockVars
    OBVIOUS
  <2>1. CASE InputAlloc \/ InputPost
    BY <2>1 DEF InputAlloc, InputPost
  <2>2. ASSUME NEW t \in Threads,
               AppLock(t) \/ AppUnlock(t) \/ LockProgress(t)
                 \/ \E n \in Netifs : LoopOutput(t, n)
        PROVE  [LockNext]_lockVars
    BY <2>2 DEF AppLock, AppUnlock, LoopOutput, LockProgress, LockNext
  <2>3. CASE TcpipStep \/ TcpipNestedLock
    BY <2>3, TcpipAssumption
       DEF TcpipStep, TcpipLock, TcpipNestedLock, TcpipUnlock, TcpipFetch,
           PollDeliver, HandleDone, LockNext
  <2>4. CASE TimersDue
    BY <2>4 DEF TimersDue
  <2>5. CASE UNCHANGED vars
    BY <2>5 DEF vars
  <2> QED BY <2>1, <2>2, <2>3, <2>4, <2>5 DEF Next
<1> QED BY <1>1, <1>2, PTL DEF SafetySpec, UsesCoreLock, LockSpec

\* Only one thread at a time runs lwIP code, with the input task, the mailbox
\* and nested callbacks in play.
THEOREM ComposedExclusive == SafetySpec => []CoreExclusive
BY ComposedUsesCoreLock, CoreIsExclusive, PTL DEF UsesCoreLock

\* The lock check inside lwIP never fires on a thread that holds the lock, and
\* always on one that does not.
THEOREM ComposedCheckExact == SafetySpec => []CheckIsExact
BY ComposedUsesCoreLock, CheckTellsTruth, PTL DEF UsesCoreLock

-----------------------------------------------------------------------------
\* Every step moves a message or a packet, or leaves them all alone.
LEMMA StepKinds ==
  ASSUME [Next]_vars
  PROVE  \/ InputAlloc \/ InputPost \/ TcpipFetch \/ HandleDone \/ PollDeliver
         \/ TimersDue
         \/ \E t \in Threads, n \in Netifs : LoopOutput(t, n)
         \/ UNCHANGED tcpipVars
BY DEF Next, TcpipStep, AppLock, AppUnlock, LockProgress, TcpipLock,
       TcpipNestedLock, TcpipUnlock, vars

\* No message is allocated at the start.
LEMMA InitSlots == Init => SlotsBalance
BY PoolAssumption, NetifAssumption DEF Init, SlotsBalance, One, Messages

\* An allocated message moves from one place to the next, or is freed.
LEMMA StepSlots == SlotsBalance /\ [Next]_vars => SlotsBalance'
<1> SUFFICES ASSUME SlotsBalance, [Next]_vars PROVE SlotsBalance'
  OBVIOUS
<1> USE PoolAssumption, NetifAssumption DEF SlotsBalance, One, Messages
<1>1. CASE InputAlloc
  BY <1>1 DEF InputAlloc
<1>2. CASE InputPost
  <2>1. CASE Len(mbox) < MboxSize
    <3>1. mbox' = Append(mbox, "inpkt") /\ inpktUsed' = inpktUsed
      BY <1>2, <2>1 DEF InputPost
    <3>2. mbox' \in Seq(Messages) /\ Len(mbox') = Len(mbox) + 1
      BY <3>1
    <3> QED BY <1>2, <3>1, <3>2 DEF InputPost
  <2>2. CASE ~ (Len(mbox) < MboxSize)
    BY <1>2, <2>2 DEF InputPost
  <2> QED BY <2>1, <2>2
<1>3. ASSUME NEW t \in Threads, NEW n \in Netifs, LoopOutput(t, n)
      PROVE  SlotsBalance'
  <2>1. CASE loop[n] = 0 /\ apiUsed < ApiPool /\ Len(mbox) < MboxSize
    <3>1. mbox' = Append(mbox, n) /\ apiUsed' = apiUsed + 1
      BY <1>3, <2>1 DEF LoopOutput, SchedulePoll
    <3>2. mbox' \in Seq(Messages) /\ Len(mbox') = Len(mbox) + 1
      BY <3>1
    <3>3. inpktUsed' = inpktUsed /\ ipc' = ipc /\ msg' = msg
      BY <1>3 DEF LoopOutput
    <3>4. One((ipc = "post")') = One(ipc = "post")
          /\ One(msg' \in Messages) = One(msg \in Messages)
          /\ One(ipc = "post") \in Nat /\ One(msg \in Messages) \in Nat
      BY <3>3
    <3> HIDE DEF One, Messages
    <3>5. apiUsed' = apiUsed + 1 /\ apiUsed < ApiPool
      BY <2>1, <3>1
    <3>6. apiUsed' \in Int /\ apiUsed' <= ApiPool
      BY <3>5
    <3>7. Len(mbox) \in Nat /\ inpktUsed \in Int /\ apiUsed \in Int
          /\ Len(mbox) + One(ipc = "post") + One(msg \in Messages)
               = inpktUsed + apiUsed
      OBVIOUS
    <3>8. Len(mbox') + One(ipc = "post") + One(msg \in Messages)
            = inpktUsed + apiUsed'
      <4> HIDE DEF SlotsBalance
      <4> QED BY SMTT(30), <3>2, <3>4, <3>5, <3>7
    <3>9. Len(mbox') + One((ipc = "post")') + One(msg' \in Messages)
            = inpktUsed' + apiUsed'
      BY <3>3, <3>4, <3>8
    <3> QED BY <3>2, <3>3, <3>6, <3>9
  <2>2. CASE ~ (loop[n] = 0 /\ apiUsed < ApiPool /\ Len(mbox) < MboxSize)
    <3>1. mbox' = mbox /\ apiUsed' = apiUsed /\ inpktUsed' = inpktUsed
          /\ ipc' = ipc /\ msg' = msg
      BY <1>3, <2>2 DEF LoopOutput, SchedulePoll
    <3> QED BY <3>1
  <2> QED BY <2>1, <2>2
<1>4. CASE TcpipFetch
  <2>1. CASE mbox # <<>>
    <3>1. Head(mbox) \in Messages /\ Tail(mbox) \in Seq(Messages)
          /\ Len(Tail(mbox)) = Len(mbox) - 1
      BY <2>1
    <3>2. msg' = Head(mbox) /\ mbox' = Tail(mbox) /\ msg = "none"
      BY <1>4, <2>1 DEF TcpipFetch
    <3>3. inpktUsed' = inpktUsed /\ apiUsed' = apiUsed /\ ipc' = ipc
      BY <1>4 DEF TcpipFetch
    <3>4. One(msg \in Messages) = 0 /\ One(msg' \in Messages) = 1
      BY <3>1, <3>2
    <3>5. One((ipc = "post")') = One(ipc = "post") /\ One(ipc = "post") \in Nat
      BY <3>3
    <3> HIDE DEF One, Messages
    <3> QED BY <3>1, <3>2, <3>3, <3>4, <3>5
  <2>2. CASE mbox = <<>>
    BY <1>4, <2>2 DEF TcpipFetch
  <2> QED BY <2>1, <2>2
<1>5. CASE HandleDone
  <2>1. mbox' = mbox /\ ipc' = ipc /\ msg' = "none"
    BY <1>5 DEF HandleDone
  <2>2. One(msg' \in Messages) = 0
        /\ One((ipc = "post")') = One(ipc = "post") /\ One(ipc = "post") \in Nat
    BY <2>1
  <2>3. CASE msg = "inpkt"
    <3>1. inpktUsed' = inpktUsed - 1 /\ apiUsed' = apiUsed
      BY <1>5, <2>3 DEF HandleDone
    <3>2. One(msg \in Messages) = 1
      BY <2>3
    <3> HIDE DEF One, Messages
    <3> QED BY <2>1, <2>2, <3>1, <3>2
  <2>4. CASE msg \in Netifs
    <3>1. inpktUsed' = inpktUsed /\ apiUsed' = apiUsed - 1
      BY <1>5, <2>4 DEF HandleDone
    <3>2. One(msg \in Messages) = 1
      BY <2>4
    <3> HIDE DEF One, Messages
    <3> QED BY <2>1, <2>2, <3>1, <3>2
  <2>5. CASE msg \notin Messages
    <3>1. inpktUsed' = inpktUsed /\ apiUsed' = apiUsed
      BY <1>5, <2>5 DEF HandleDone
    <3> QED BY <2>1, <2>5, <3>1
  <2> QED BY <2>3, <2>4, <2>5
<1>6. CASE PollDeliver
  BY <1>6 DEF PollDeliver
<1>7. CASE TimersDue
  BY <1>7, NetifAssumption DEF TimersDue
<1>8. ASSUME UNCHANGED tcpipVars PROVE SlotsBalance'
  BY <1>8 DEF tcpipVars
<1> QED
  BY <1>1, <1>2, <1>3, <1>4, <1>5, <1>6, <1>7, <1>8, StepKinds

\* sys_mbox_trypost in tcpip_inpkt never fails, for all pool and mailbox sizes
\* with InpktPool + ApiPool <= MboxSize (16 + 16 <= 100 in lwipopts.h).
THEOREM MailboxLargeEnough == SafetySpec => []PostNeverRefused
<1>1. SlotsBalance => PostNeverRefused
  BY PoolAssumption DEF SlotsBalance, PostNeverRefused, One
<1> QED BY <1>1, InitSlots, StepSlots, PTL DEF SafetySpec

-----------------------------------------------------------------------------
\* Counting the messages of one kind in a mailbox.

Places(s, S) == {i \in 1..Len(s) : s[i] \in S}

Count(s, S) == Cardinality(Places(s, S))

\* The places in a mailbox are finitely many.
LEMMA CountType ==
  ASSUME NEW s \in Seq(Messages), NEW S
  PROVE  IsFiniteSet(Places(s, S)) /\ Count(s, S) \in Nat
<1>1. Len(s) \in Nat
  OBVIOUS
<1>2. IsFiniteSet(1..Len(s))
  BY <1>1, FS_Interval
<1>3. Places(s, S) \in SUBSET (1..Len(s))
  BY DEF Places
<1> QED BY <1>2, <1>3, FS_Subset, FS_CardinalityType DEF Count

\* An empty mailbox holds nothing.
LEMMA CountEmpty == \A S : Count(<<>>, S) = 0
<1> SUFFICES ASSUME NEW S PROVE Count(<<>>, S) = 0
  OBVIOUS
<1>1. Places(<<>>, S) = {}
  BY DEF Places
<1> QED BY <1>1, FS_EmptySet DEF Count

\* A message that is posted adds one to the count of its kind.
LEMMA CountAppend ==
  ASSUME NEW s \in Seq(Messages), NEW m \in Messages, NEW S
  PROVE  Count(Append(s, m), S) = Count(s, S) + One(m \in S)
<1> DEFINE l == Len(s) + 1
<1>1. /\ Len(s) \in Nat /\ Len(Append(s, m)) = l
      /\ \A i \in 1..Len(s) : Append(s, m)[i] = s[i]
      /\ Append(s, m)[l] = m
  OBVIOUS
<1>2. l \notin Places(s, S)
  BY <1>1 DEF Places
<1>3. CASE m \in S
  <2>1. Places(Append(s, m), S) = Places(s, S) \cup {l}
    BY <1>1, <1>3 DEF Places
  <2> QED BY <1>2, <1>3, <2>1, CountType, FS_AddElement DEF Count, One
<1>4. CASE m \notin S
  <2>1. Places(Append(s, m), S) = Places(s, S)
    BY <1>1, <1>4 DEF Places
  <2> QED BY <1>4, <2>1, CountType DEF Count, One
<1> QED BY <1>3, <1>4

\* A message of another kind does not change the count.
LEMMA CountOther ==
  ASSUME NEW s \in Seq(Messages), NEW m \in Messages, NEW S, m \notin S,
         NEW t, t = s \/ t = Append(s, m)
  PROVE  Count(t, S) = Count(s, S)
<1>1. Count(s, S) \in Nat
  BY CountType
<1>2. Count(Append(s, m), S) = Count(s, S) + 0
  BY CountAppend DEF One
<1>3. Count(Append(s, m), S) = Count(s, S)
  BY <1>1, <1>2
<1>4. CASE t = s
  BY <1>4
<1>5. CASE t = Append(s, m)
  BY <1>3, <1>5
<1> QED BY <1>4, <1>5

\* The message that is fetched is the one the count loses.
LEMMA CountTail ==
  ASSUME NEW s \in Seq(Messages), s # <<>>, NEW S
  PROVE  Count(s, S) = Count(Tail(s), S) + One(Head(s) \in S)
<1> DEFINE rest == Places(s, S) \ {1}
           moved == [i \in rest |-> i - 1]
<1>1. /\ Len(s) \in Nat \ {0} /\ Head(s) = s[1]
      /\ Tail(s) \in Seq(Messages) /\ Len(Tail(s)) = Len(s) - 1
      /\ \A i \in 1..Len(Tail(s)) : Tail(s)[i] = s[i + 1]
  BY HeadTailProperties, EmptySeq
<1>2. rest \subseteq 2..Len(s)
  BY <1>1 DEF Places
<1>3. moved \in [rest -> Places(Tail(s), S)]
  BY <1>1, <1>2 DEF Places
<1>4. \A i, j \in rest : moved[i] = moved[j] => i = j
  BY <1>2
<1>5. \A k \in Places(Tail(s), S) : \E i \in rest : moved[i] = k
  <2> SUFFICES ASSUME NEW k \in Places(Tail(s), S)
               PROVE  k + 1 \in rest /\ moved[k + 1] = k
    OBVIOUS
  <2> QED BY <1>1 DEF Places
<1> HIDE DEF moved
<1>6. ExistsBijection(rest, Places(Tail(s), S))
  <2>1. DOMAIN moved = rest
    BY <1>3
  <2>2. IsInjective(moved)
    BY <1>4, <2>1 DEF IsInjective
  <2>3. moved \in Bijection(rest, Places(Tail(s), S))
    BY <1>3, <1>5, <2>2 DEF Bijection, Injection, Surjection
  <2> QED BY <2>3 DEF ExistsBijection
<1>7. IsFiniteSet(rest)
      /\ Cardinality(rest) = IF 1 \in Places(s, S) THEN Count(s, S) - 1 ELSE Count(s, S)
  BY CountType, FS_RemoveElement DEF Count
<1>8. Cardinality(rest) = Count(Tail(s), S)
  BY <1>6, <1>7, FS_Bijection DEF Count
<1>9. 1 \in Places(s, S) <=> Head(s) \in S
  BY <1>1 DEF Places
<1> HIDE DEF rest
<1> QED BY <1>1, <1>7, <1>8, <1>9, CountType DEF One

\* Two kinds of messages that share none are counted separately.
LEMMA CountSplit ==
  ASSUME NEW s \in Seq(Messages), NEW S, NEW T, S \cap T = {}
  PROVE  Count(s, S \cup T) = Count(s, S) + Count(s, T)
<1>1. Places(s, S \cup T) = Places(s, S) \cup Places(s, T)
  BY DEF Places
<1>2. Places(s, S) \cap Places(s, T) = {}
  BY DEF Places
<1>3. Cardinality(Places(s, S) \cap Places(s, T)) = 0
  BY <1>2, FS_EmptySet
<1>4. /\ IsFiniteSet(Places(s, S)) /\ IsFiniteSet(Places(s, T))
      /\ Count(s, S) \in Nat /\ Count(s, T) \in Nat
  BY CountType
<1>5. Cardinality(Places(s, S) \cup Places(s, T))
        = Count(s, S) + Count(s, T) - Cardinality(Places(s, S) \cap Places(s, T))
  BY <1>4, FS_Union DEF Count
<1>6. Count(s, S \cup T) = Count(s, S) + Count(s, T) - 0
  BY <1>1, <1>3, <1>5 DEF Count
<1> QED BY <1>4, <1>6

-----------------------------------------------------------------------------
\* Where the messages of the two pools are.  InpktHeld and ApiHeld are the
\* right-hand sides of PoolsBalance.

InpktHeld == Count(mbox, {"inpkt"}) + One(ipc = "post") + One(msg = "inpkt")
ApiHeld == Count(mbox, Netifs) + One(msg \in Netifs)

WorkTypes ==
  /\ mbox \in Seq(Messages)
  /\ ipc \in {"idle", "post"}
  /\ msg \in Messages \cup {"none", "init", "timeout"}
  /\ loop \in [Netifs -> 0..LoopMax]
  /\ replies \in 0..ReplyMax

PoolInv ==
  /\ inpktUsed \in 0..InpktPool /\ inpktUsed = InpktHeld
  /\ apiUsed \in 0..ApiPool /\ apiUsed = ApiHeld

WorkInv == WorkTypes /\ PoolInv

\* PoolsBalance in terms of the counts.
LEMMA BalanceIsHeld == PoolsBalance <=> inpktUsed = InpktHeld /\ apiUsed = ApiHeld
BY DEF PoolsBalance, InpktHeld, ApiHeld, CountIn, Count, Places

\* Nothing is allocated or queued at the start.
LEMMA InitWork == Init => WorkInv
<1> SUFFICES ASSUME Init PROVE WorkInv
  OBVIOUS
<1>1. WorkTypes
  BY PoolAssumption DEF Init, WorkTypes
<1>2. InpktHeld = 0 /\ ApiHeld = 0
  <2>1. Count(mbox, {"inpkt"}) = 0 /\ Count(mbox, Netifs) = 0
    BY CountEmpty DEF Init
  <2> QED BY <2>1, NetifAssumption DEF Init, InpktHeld, ApiHeld, One
<1> QED BY <1>1, <1>2, PoolAssumption DEF Init, WorkInv, PoolInv

\* Every step keeps the types of mailbox, input task, handler and lists.
LEMMA StepTypes ==
  ASSUME WorkTypes, [Next]_vars
  PROVE  WorkTypes'
<1> USE PoolAssumption DEF WorkTypes
<1>1. CASE InputAlloc
  BY <1>1 DEF InputAlloc
<1>2. CASE InputPost
  <2>1. mbox' \in Seq(Messages)
    BY SMTT(30), <1>2 DEF InputPost, Messages
  <2> QED BY <1>2, <2>1 DEF InputPost
<1>3. ASSUME NEW t \in Threads, NEW n \in Netifs, LoopOutput(t, n)
      PROVE  WorkTypes'
  <2>1. mbox' \in Seq(Messages)
    <3>1. mbox' = mbox \/ mbox' = Append(mbox, n)
      BY <1>3 DEF LoopOutput, SchedulePoll
    <3>2. n \in Messages
      BY DEF Messages
    <3>3. Append(mbox, n) \in Seq(Messages)
      BY <3>2
    <3> QED BY <3>1, <3>3
  <2>2. replies' \in 0..ReplyMax
    BY <1>3 DEF LoopOutput
  <2>3. loop' \in [Netifs -> 0..LoopMax]
    BY <1>3 DEF LoopOutput
  <2> QED BY <1>3, <2>1, <2>2, <2>3 DEF LoopOutput
<1>4. CASE TcpipFetch
  <2>1. mbox # <<>> => Head(mbox) \in Messages /\ Tail(mbox) \in Seq(Messages)
    OBVIOUS
  <2> QED BY <1>4, <2>1 DEF TcpipFetch
<1>5. CASE HandleDone
  BY <1>5 DEF HandleDone
<1>6. CASE PollDeliver
  <2>1. loop' \in [Netifs -> 0..LoopMax]
    BY <1>6 DEF PollDeliver
  <2> QED BY <1>6, <2>1 DEF PollDeliver
<1>7. CASE TimersDue
  BY <1>7 DEF TimersDue
<1>8. ASSUME UNCHANGED tcpipVars PROVE WorkTypes'
  BY <1>8 DEF tcpipVars
<1> QED
  BY SMTT(30), <1>1, <1>2, <1>3, <1>4, <1>5, <1>6, <1>7, <1>8, StepKinds

\* Every step keeps the two pools balanced.
LEMMA StepPools ==
  ASSUME WorkInv, [Next]_vars
  PROVE  PoolInv'
<1> USE PoolAssumption
<1>0. /\ mbox \in Seq(Messages) /\ PoolInv
      /\ ipc \in {"idle", "post"}
  BY DEF WorkInv, WorkTypes
<1> DEFINE inMbox == Count(mbox, {"inpkt"})
           apiMbox == Count(mbox, Netifs)
<1>1. inMbox \in Nat /\ apiMbox \in Nat
  BY <1>0, CountType
<1>2. "inpkt" \in Messages /\ "inpkt" \notin Netifs
      /\ "none" \notin Netifs /\ "timeout" \notin Netifs
  BY NetifAssumption DEF Messages
<1>3. /\ inpktUsed \in 0..InpktPool
      /\ inpktUsed = inMbox + One(ipc = "post") + One(msg = "inpkt")
      /\ apiUsed \in 0..ApiPool
      /\ apiUsed = apiMbox + One(msg \in Netifs)
  BY <1>0 DEF PoolInv, InpktHeld, ApiHeld
<1> DEFINE inMbox1 == Count(mbox', {"inpkt"})
           apiMbox1 == Count(mbox', Netifs)
<1>4. SUFFICES
        /\ inpktUsed' \in 0..InpktPool
        /\ inpktUsed' = inMbox1 + One(ipc' = "post") + One(msg' = "inpkt")
        /\ apiUsed' \in 0..ApiPool
        /\ apiUsed' = apiMbox1 + One(msg' \in Netifs)
  BY DEF PoolInv, InpktHeld, ApiHeld
<1>5. mbox' = mbox => inMbox1 = inMbox /\ apiMbox1 = apiMbox
  OBVIOUS
<1> DEFINE Goal ==
        /\ inpktUsed' \in 0..InpktPool
        /\ inpktUsed' = inMbox1 + One(ipc' = "post") + One(msg' = "inpkt")
        /\ apiUsed' \in 0..ApiPool
        /\ apiUsed' = apiMbox1 + One(msg' \in Netifs)
<1>6. CASE InputAlloc
  BY <1>1, <1>3, <1>5, <1>6 DEF InputAlloc, One
<1>7. CASE InputPost
  <2>1. CASE Len(mbox) < MboxSize
    <3>1. mbox' = Append(mbox, "inpkt") /\ ipc = "post" /\ ipc' = "idle"
          /\ UNCHANGED <<inpktUsed, apiUsed, msg>>
      BY <1>7, <2>1 DEF InputPost
    <3>2. inMbox1 = inMbox + 1 /\ apiMbox1 = apiMbox + 0
      BY <1>0, <1>2, <3>1, CountAppend DEF One
    <3> HIDE DEF inMbox1, inMbox, apiMbox1, apiMbox
    <3> QED BY <1>1, <1>3, <3>1, <3>2 DEF One
  <2>2. CASE ~ (Len(mbox) < MboxSize)
    BY SMTT(30), <1>1, <1>3, <1>5, <1>7, <2>2 DEF InputPost, One
  <2> QED BY <2>1, <2>2
<1>8. ASSUME NEW t \in Threads, NEW n \in Netifs, LoopOutput(t, n)
      PROVE  Goal
  <2>1. CASE mbox' = mbox /\ apiUsed' = apiUsed
    BY <1>3, <1>5, <1>8, <2>1 DEF LoopOutput
  <2>2. CASE mbox' # mbox \/ apiUsed' # apiUsed
    <3>1. mbox' = Append(mbox, n) /\ apiUsed' = apiUsed + 1 /\ apiUsed < ApiPool
          /\ UNCHANGED <<inpktUsed, ipc, msg>>
      BY <1>8, <2>2 DEF LoopOutput, SchedulePoll
    <3>2. n \in Messages /\ n # "inpkt"
      BY <1>2 DEF Messages
    <3>3. inMbox1 = inMbox + 0 /\ apiMbox1 = apiMbox + 1
      BY <1>0, <3>1, <3>2, CountAppend DEF One
    <3> HIDE DEF inMbox1, inMbox, apiMbox1, apiMbox
    <3> QED BY <1>1, <1>3, <3>1, <3>3 DEF One
  <2> QED BY <2>1, <2>2
<1>9. CASE TcpipFetch
  <2>1. CASE mbox = <<>>
    BY <1>2, <1>3, <1>5, <1>9, <2>1 DEF TcpipFetch, One
  <2>2. CASE mbox # <<>>
    <3>1. mbox' = Tail(mbox) /\ msg = "none" /\ msg' = Head(mbox)
          /\ UNCHANGED <<inpktUsed, apiUsed, ipc>>
      BY <1>9, <2>2 DEF TcpipFetch
    <3>2. mbox' \in Seq(Messages)
      BY <1>0, <2>2, <3>1
    <3>3. inMbox1 \in Nat /\ apiMbox1 \in Nat
      BY <3>2, CountType
    <3>4. inMbox = inMbox1 + One(Head(mbox) \in {"inpkt"})
          /\ apiMbox = apiMbox1 + One(Head(mbox) \in Netifs)
      BY <1>0, <2>2, <3>1, CountTail
    <3>5. One(Head(mbox) \in {"inpkt"}) = One(msg' = "inpkt")
          /\ One(Head(mbox) \in Netifs) = One(msg' \in Netifs)
          /\ One(msg = "inpkt") = 0 /\ One(msg \in Netifs) = 0
          /\ One(ipc' = "post") = One(ipc = "post")
          /\ One(msg' = "inpkt") \in {0, 1} /\ One(msg' \in Netifs) \in {0, 1}
          /\ One(ipc = "post") \in {0, 1}
      BY <1>2, <3>1 DEF One
    <3> HIDE DEF inMbox1, inMbox, apiMbox1, apiMbox
    <3> QED BY <1>1, <1>3, <3>1, <3>3, <3>4, <3>5
  <2> QED BY <2>1, <2>2
<1>10. CASE HandleDone
  <2>1. /\ UNCHANGED <<mbox, ipc>> /\ msg' = "none"
        /\ inpktUsed' = IF msg = "inpkt" THEN inpktUsed - 1 ELSE inpktUsed
        /\ apiUsed' = IF msg \in Netifs THEN apiUsed - 1 ELSE apiUsed
    BY <1>10 DEF HandleDone
  <2>2. inMbox1 = inMbox /\ apiMbox1 = apiMbox
    BY <2>1, <1>5
  <2> HIDE DEF inMbox1, inMbox, apiMbox1, apiMbox
  <2>3. inpktUsed' \in 0..InpktPool
        /\ inpktUsed' = inMbox1 + One(ipc' = "post") + One(msg' = "inpkt")
    BY <1>1, <1>3, <2>1, <2>2 DEF One
  <2>4. apiUsed' \in 0..ApiPool /\ apiUsed' = apiMbox1 + One(msg' \in Netifs)
    BY <1>1, <1>2, <1>3, <2>1, <2>2 DEF One
  <2> QED BY <2>3, <2>4
<1>11. CASE PollDeliver
  BY <1>3, <1>5, <1>11 DEF PollDeliver
<1>12. CASE TimersDue
  BY <1>2, <1>3, <1>5, <1>12 DEF TimersDue, One
<1>13. ASSUME UNCHANGED tcpipVars PROVE Goal
  BY <1>3, <1>5, <1>13 DEF tcpipVars
<1> HIDE DEF Goal
<1> QED
  BY SMTT(30), <1>6, <1>7, <1>8, <1>9, <1>10, <1>11, <1>12, <1>13,
     StepKinds DEF Goal

\* The two together.
LEMMA StepWork == WorkInv /\ [Next]_vars => WorkInv'
BY StepTypes, StepPools DEF WorkInv

\* The mailbox, the pools and the loopback lists keep their types: no pool
\* counter leaves its range in either direction.
THEOREM TypeCorrect == SafetySpec => []TypeOK
<1>1. SafetySpec => []LockTypeOK
  BY ComposedUsesCoreLock, LockTypeCorrect, PTL DEF UsesCoreLock
<1>2. WorkInv /\ LockTypeOK => TypeOK
  BY DEF WorkInv, WorkTypes, PoolInv, TypeOK
<1> QED BY <1>1, <1>2, InitWork, StepWork, PTL DEF SafetySpec

\* Every message allocated by tcpip_inpkt or tcpip_try_callback is in the
\* mailbox, in the input task's hand or being handled, for all pool sizes and
\* any number of interfaces: none leaks, none is freed twice.
THEOREM PoolsStayBalanced == SafetySpec => []PoolsBalance
<1>1. WorkInv => PoolsBalance
  BY BalanceIsHeld DEF WorkInv, PoolInv
<1> QED BY <1>1, InitWork, StepWork, PTL DEF SafetySpec

-----------------------------------------------------------------------------
\* A list of n without a poll of n, in terms of Count.
LEMMA StrandedIs ==
  ASSUME NEW n \in Netifs
  PROVE  /\ Stranded(n) <=> loop[n] > 0 /\ Count(mbox, {n}) = 0 /\ msg # n
         /\ Stranded(n)' <=> loop'[n] > 0 /\ Count(mbox', {n}) = 0 /\ msg' # n
BY DEF Stranded, CountIn, Count, Places

\* The polls that are not for n are the other polls.
LEMMA PollsOfOthers ==
  ASSUME WorkInv, NEW n \in Netifs, Count(mbox, {n}) = 0, msg # n
  PROVE  CountIn(Netifs \ {n}) + One(msg \in Netifs \ {n}) = apiUsed
<1>1. mbox \in Seq(Messages) /\ apiUsed = Count(mbox, Netifs) + One(msg \in Netifs)
  BY DEF WorkInv, WorkTypes, PoolInv, ApiHeld
<1>2. {n} \cup (Netifs \ {n}) = Netifs /\ {n} \cap (Netifs \ {n}) = {}
  OBVIOUS
<1>3. Count(mbox, Netifs) = Count(mbox, {n}) + Count(mbox, Netifs \ {n})
  <2>1. Count(mbox, {n} \cup (Netifs \ {n}))
          = Count(mbox, {n}) + Count(mbox, Netifs \ {n})
    BY <1>1, <1>2, CountSplit
  <2> QED BY <1>2, <2>1
<1>4. Count(mbox, Netifs \ {n}) \in Nat
  BY <1>1, CountType
<1>5. Count(mbox, Netifs) = Count(mbox, Netifs \ {n})
  BY <1>3, <1>4
<1>6. One(msg \in Netifs \ {n}) = One(msg \in Netifs)
  BY DEF One
<1>7. CountIn(Netifs \ {n}) = Count(mbox, Netifs \ {n})
  BY DEF CountIn, Count, Places
<1> QED BY <1>1, <1>5, <1>6, <1>7

\* A poll that could not be scheduled found no message in its pool: the mailbox
\* is full only when both pools are empty.
LEMMA RefusedByPool ==
  ASSUME WorkInv, SlotsBalance, ~ (apiUsed < ApiPool /\ Len(mbox) < MboxSize)
  PROVE  apiUsed = ApiPool
<1>1. /\ apiUsed \in 0..ApiPool /\ inpktUsed \in 0..InpktPool /\ Len(mbox) \in Nat
      /\ Len(mbox) + One(ipc = "post") + One(msg \in Messages)
           = inpktUsed + apiUsed
  BY DEF WorkInv, WorkTypes, PoolInv, SlotsBalance
<1>2. One(ipc = "post") \in {0, 1} /\ One(msg \in Messages) \in {0, 1}
  BY DEF One
<1> QED BY <1>1, <1>2, PoolAssumption

\* A step that strands the list of n is the first packet on it, sent while all
\* messages of the pool are polls of other interfaces.
LEMMA StrandingStep ==
  ASSUME WorkInv, SlotsBalance, [Next]_vars, NEW n \in Netifs,
         ~Stranded(n), Stranded(n)'
  PROVE  /\ loop[n] = 0
         /\ CountIn(Netifs \ {n}) + One(msg \in Netifs \ {n}) = ApiPool
<1> DEFINE Goal == /\ loop[n] = 0
                   /\ CountIn(Netifs \ {n}) + One(msg \in Netifs \ {n}) = ApiPool
<1> SUFFICES Goal
  OBVIOUS
<1> HIDE DEF Goal
<1>1. /\ mbox \in Seq(Messages) /\ loop \in [Netifs -> 0..LoopMax]
      /\ LoopMax \in Nat
  BY PoolAssumption DEF WorkInv, WorkTypes
<1>0. Count(mbox, {n}) \in Nat
  BY <1>1, CountType
<1>2. /\ loop'[n] > 0 /\ Count(mbox', {n}) = 0 /\ msg' # n
      /\ ~ (loop[n] > 0 /\ Count(mbox, {n}) = 0 /\ msg # n)
  BY StrandedIs
<1>3. "inpkt" # n /\ "none" # n /\ "inpkt" \in Messages /\ n \in Messages
  BY NetifAssumption DEF Messages
<1>4. loop'[n] = loop[n] /\ Count(mbox', {n}) = Count(mbox, {n}) => msg = n
  BY <1>2
<1>5. CASE InputPost
  <2>1. msg' = msg /\ loop' = loop /\ (mbox' = mbox \/ mbox' = Append(mbox, "inpkt"))
    BY <1>5 DEF InputPost
  <2>2. Count(mbox', {n}) = Count(mbox, {n})
    BY <1>1, <1>3, <2>1, CountOther
  <2> QED BY <1>2, <1>4, <2>1, <2>2
<1>6. ASSUME NEW t \in Threads, NEW m \in Netifs, LoopOutput(t, m)
      PROVE  Goal
  <2>1. /\ msg' = msg /\ loop' = [loop EXCEPT ![m] = loop[m] + 1]
        /\ mbox' = mbox \/ mbox' = Append(mbox, m)
    BY <1>6 DEF LoopOutput, SchedulePoll
  <2>2. CASE m # n
    <3>1. loop'[n] = loop[n]
      BY <1>1, <2>1, <2>2
    <3>2. m \in Messages
      BY DEF Messages
    <3>3. Count(mbox', {n}) = Count(mbox, {n})
      BY <1>1, <2>1, <2>2, <3>2, CountOther
    <3> QED BY <1>2, <1>4, <2>1, <3>1, <3>3
  <2>3. CASE m = n
    <3>1. mbox' = mbox
      <4>1. Count(Append(mbox, n), {n}) = Count(mbox, {n}) + 1
        BY <1>1, <1>3, CountAppend DEF One
      <4>2. Count(Append(mbox, n), {n}) # 0
        BY <1>0, <4>1
      <4> QED BY <1>2, <2>1, <2>3, <4>2
    <3>2. Count(mbox, {n}) = 0 /\ msg # n
      BY <1>2, <2>1, <3>1
    <3>3. loop[n] = 0
      BY <1>1, <1>2, <3>2
    <3>4. ~ (apiUsed < ApiPool /\ Len(mbox) < MboxSize)
      <4>1. SUFFICES ASSUME apiUsed < ApiPool, Len(mbox) < MboxSize PROVE FALSE
        OBVIOUS
      <4>2. mbox' = Append(mbox, n)
        BY <1>6, <2>3, <3>3, <4>1 DEF LoopOutput, SchedulePoll
      <4>3. Len(Append(mbox, n)) # Len(mbox)
        BY <1>1, <1>3
      <4> QED BY <3>1, <4>2, <4>3
    <3>5. apiUsed = ApiPool
      BY <3>4, RefusedByPool
    <3> QED BY <3>2, <3>3, <3>5, PollsOfOthers DEF Goal
  <2> QED BY <2>2, <2>3
<1>7. CASE TcpipFetch
  <2>1. CASE mbox = <<>>
    BY <1>2, <1>3, <1>4, <1>7, <2>1 DEF TcpipFetch
  <2>2. CASE mbox # <<>>
    <3>1. msg = "none" /\ msg' = Head(mbox) /\ mbox' = Tail(mbox) /\ loop' = loop
      BY <1>7, <2>2 DEF TcpipFetch
    <3>2. Count(mbox, {n}) = Count(mbox', {n}) + 0
      BY <1>1, <1>2, <2>2, <3>1, CountTail DEF One
    <3> QED BY <1>2, <1>3, <3>1, <3>2
  <2> QED BY <2>1, <2>2
<1>8. CASE HandleDone
  BY <1>1, <1>2, <1>4, <1>8 DEF HandleDone
<1>9. CASE PollDeliver
  <2>1. msg' = msg /\ mbox' = mbox /\ loop' = [loop EXCEPT ![msg] = loop[msg] - 1]
    BY <1>9 DEF PollDeliver
  <2>2. loop'[n] = loop[n]
    BY <1>1, <1>2, <2>1
  <2> QED BY <1>2, <1>4, <2>1, <2>2
<1>10. CASE InputAlloc
  BY <1>2, <1>4, <1>10 DEF InputAlloc
<1>11. CASE TimersDue
  BY <1>2, <1>3, <1>4, <1>11 DEF TimersDue
<1>12. ASSUME UNCHANGED tcpipVars PROVE Goal
  BY <1>2, <1>4, <1>12 DEF tcpipVars
<1> QED
  BY SMTT(30), <1>5, <1>6, <1>7, <1>8, <1>9, <1>10, <1>11, <1>12, StepKinds

\* netif_loop_output ignores that tcpip_try_callback may fail.  A packet is
\* left without a poll only when the whole pool is polls of other interfaces,
\* for any interfaces and pool sizes; with one interface it never is.
THEOREM StrandingNeedsOthers == SafetySpec => StrandedOnlyByOthers
<1> DEFINE Step ==
      \A n \in Netifs :
        ~Stranded(n) /\ Stranded(n)' =>
          LET others == Netifs \ {n} IN
          /\ loop[n] = 0
          /\ CountIn(others) + One(msg \in others) = ApiPool
<1>1. WorkInv /\ SlotsBalance /\ [Next]_vars => [Step]_vars
  BY StrandingStep
<1> QED
  BY <1>1, InitWork, StepWork, InitSlots, StepSlots, PTL
     DEF SafetySpec, StrandedOnlyByOthers

\* With a single interface every packet on the loopback list has its poll.
THEOREM SingleInterfaceIsPolled ==
  ASSUME NEW CONSTANT n, Netifs = {n}
  PROVE  SafetySpec => []LoopbackNotStranded
<1> DEFINE Inv == WorkInv /\ SlotsBalance /\ LoopbackNotStranded
<1>1. Init => LoopbackNotStranded
  BY DEF Init, LoopbackNotStranded, Stranded
<1>2. ASSUME Inv, [Next]_vars
      PROVE  LoopbackNotStranded'
  <2> SUFFICES ASSUME Stranded(n)' PROVE FALSE
    BY DEF LoopbackNotStranded
  <2>1. ~Stranded(n)
    BY <1>2 DEF LoopbackNotStranded
  <2>2. CountIn(Netifs \ {n}) + One(msg \in Netifs \ {n}) = ApiPool
    BY <1>2, <2>1, StrandingStep
  <2>3. Netifs \ {n} = {} /\ Places(mbox, {}) = {}
    BY DEF Places
  <2>4. CountIn({}) = 0
    BY <2>3, FS_EmptySet DEF CountIn, Places
  <2>5. One(msg \in {}) = 0
    BY DEF One
  <2> QED BY <2>2, <2>3, <2>4, <2>5, PoolAssumption
<1>3. Init => Inv
  BY <1>1, InitWork, InitSlots
<1>4. Inv /\ [Next]_vars => Inv'
  BY <1>2, StepWork, StepSlots
<1> QED BY <1>3, <1>4, PTL DEF SafetySpec
=============================================================================
