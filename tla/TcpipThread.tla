---------------------------- MODULE TcpipThread -----------------------------
(***************************************************************************)
(* The lwIP thread at work under the core lock: its mailbox, the two pools *)
(* its messages come from, the input task that posts received packets, and *)
(* the loopback lists, one per interface, that core users fill and         *)
(* netif_poll drains.  All polls come from one pool.  Composes CoreLock:   *)
(* every thread inside the core holds that lock.                           *)
(***************************************************************************)
EXTENDS CoreLock, Integers, Sequences, FiniteSets

CONSTANTS
  Tcpip,      \* the lwIP thread
  Netifs,     \* the interfaces: the loopback interface and the TAP
  MboxSize,   \* TCPIP_MBOX_SIZE
  InpktPool,  \* MEMP_NUM_TCPIP_MSG_INPKT
  ApiPool,    \* MEMP_NUM_TCPIP_MSG_API
  LoopMax,    \* LWIP_LOOPBACK_MAX_PBUFS, for each interface
  ReplyMax    \* bound: loopback packets sent while one message is handled

ASSUME TcpipAssumption == Tcpip \in Threads
ASSUME NetifAssumption ==
  Netifs \cap {"inpkt", "none", "init", "timeout"} = {}
ASSUME PoolAssumption ==
  /\ MboxSize \in Nat /\ InpktPool \in Nat /\ ApiPool \in Nat \ {0}
  /\ LoopMax \in Nat /\ ReplyMax \in Nat
  /\ InpktPool + ApiPool <= MboxSize

VARIABLES
  mbox,       \* tcpip_mbox: "inpkt" messages, and n for netif_poll(n)
  inpktUsed,  \* messages allocated from MEMP_TCPIP_MSG_INPKT
  apiUsed,    \* messages allocated from MEMP_TCPIP_MSG_API
  ipc,        \* the input task: "idle", or "post" with a message in hand
  msg,        \* what the lwIP thread works on: "none" when it will fetch
  loop,       \* loop[n]: packets on the loopback list of n
  replies     \* how many of them this message's handler has sent

tcpipVars == <<mbox, inpktUsed, apiUsed, ipc, msg, loop, replies>>

vars == <<lockVars, tcpipVars>>

Messages == {"inpkt"} \cup Netifs

\* The lwIP thread starts by locking the core; init has no callback to run.
Init ==
  /\ LockInit
  /\ mbox = <<>>
  /\ inpktUsed = 0
  /\ apiUsed = 0
  /\ ipc = "idle"
  /\ msg = "init"
  /\ loop = [n \in Netifs |-> 0]
  /\ replies = 0

Apps == Threads \ {Tcpip}

-----------------------------------------------------------------------------
\* tcpip_inpkt, called by the interface's input task outside the core lock.

\* Mutant of InputAlloc: one message more than the pool holds.
InputAllocOneMore ==
  /\ ipc = "idle"
  /\ inpktUsed <= InpktPool
  /\ inpktUsed' = inpktUsed + 1
  /\ ipc' = "post"
  /\ UNCHANGED <<lockVars, mbox, apiUsed, msg, loop, replies>>

InputAlloc ==
  /\ ipc = "idle"
  /\ inpktUsed < InpktPool
  /\ inpktUsed' = inpktUsed + 1
  /\ ipc' = "post"
  /\ UNCHANGED <<lockVars, mbox, apiUsed, msg, loop, replies>>

\* sys_mbox_trypost; a full mailbox gives the message back to its pool.
InputPost ==
  /\ ipc = "post"
  /\ ipc' = "idle"
  /\ IF Len(mbox) < MboxSize
       THEN mbox' = Append(mbox, "inpkt") /\ UNCHANGED inpktUsed
       ELSE inpktUsed' = inpktUsed - 1 /\ UNCHANGED mbox
  /\ UNCHANGED <<lockVars, apiUsed, msg, loop, replies>>

-----------------------------------------------------------------------------
\* Core users: the Nabto threads, and callbacks run by the lwIP thread.

AppLock(t) == t \in Apps /\ LockTake(t) /\ UNCHANGED tcpipVars

AppUnlock(t) == t \in Apps /\ UnlockDecCount(t) /\ UNCHANGED tcpipVars

\* Mutant of SchedulePoll: the messages come from no pool.
SchedulePollUnpooled(n) ==
  IF Len(mbox) < MboxSize
    THEN apiUsed' = apiUsed /\ mbox' = Append(mbox, n)
    ELSE UNCHANGED <<apiUsed, mbox>>

\* tcpip_try_callback(netif_poll, n): silently given up when the pool is empty.
SchedulePoll(n) ==
  IF apiUsed < ApiPool /\ Len(mbox) < MboxSize
    THEN apiUsed' = apiUsed + 1 /\ mbox' = Append(mbox, n)
    ELSE UNCHANGED <<apiUsed, mbox>>

\* The lwIP thread runs a handler or a timer; tcpip_init was given no callback.
Handling == msg \notin {"none", "init"}

\* netif_loop_output: a poll is scheduled only when the list was empty.
LoopOutput(t, n) ==
  /\ lpc[t] = "in"
  /\ loop[n] < LoopMax
  /\ IF t = Tcpip
       THEN Handling /\ replies < ReplyMax /\ replies' = replies + 1
       ELSE UNCHANGED replies
  /\ loop' = [loop EXCEPT ![n] = @ + 1]
  /\ IF loop[n] = 0 THEN SchedulePoll(n) ELSE UNCHANGED <<apiUsed, mbox>>
  /\ UNCHANGED <<lockVars, inpktUsed, ipc, msg>>

-----------------------------------------------------------------------------
\* tcpip_thread: fetch without the lock, handle with it.

TcpipLock ==
  /\ msg # "none"
  /\ lpc[Tcpip] = "out"
  /\ LockTake(Tcpip)
  /\ UNCHANGED tcpipVars

\* A callback into the Nabto code locks the core again.
TcpipNestedLock ==
  /\ Handling
  /\ lpc[Tcpip] = "in"
  /\ LockTake(Tcpip)
  /\ UNCHANGED tcpipVars

TcpipUnlock ==
  /\ nest > 1 \/ msg = "none"
  /\ UnlockDecCount(Tcpip)
  /\ UNCHANGED tcpipVars

\* Mutant of TcpipFetch: the newest message first.
TcpipFetchNewest ==
  /\ lpc[Tcpip] = "out"
  /\ msg = "none"
  /\ \/ /\ mbox # <<>>
        /\ msg' = mbox[Len(mbox)]
        /\ mbox' = SubSeq(mbox, 1, Len(mbox) - 1)
     \/ mbox = <<>> /\ msg' = "timeout" /\ UNCHANGED mbox
  /\ UNCHANGED <<lockVars, inpktUsed, apiUsed, ipc, loop, replies>>

TcpipFetch ==
  /\ lpc[Tcpip] = "out"
  /\ msg = "none"
  /\ \/ mbox # <<>> /\ msg' = Head(mbox) /\ mbox' = Tail(mbox)
     \/ mbox = <<>> /\ msg' = "timeout" /\ UNCHANGED mbox
  /\ UNCHANGED <<lockVars, inpktUsed, apiUsed, ipc, loop, replies>>

\* tcpip_timeouts_mbox_fetch: timers that are due run before the lock is let go
\* and the mailbox looked at.
TimersDue ==
  /\ lpc[Tcpip] = "in" /\ nest = 1
  /\ msg = "none" /\ msg' = "timeout"
  /\ UNCHANGED <<lockVars, mbox, inpktUsed, apiUsed, ipc, loop, replies>>

\* One packet of the loop in netif_poll; its input may send another.
PollDeliver ==
  /\ msg \in Netifs
  /\ lpc[Tcpip] = "in" /\ nest = 1
  /\ loop[msg] > 0
  /\ loop' = [loop EXCEPT ![msg] = @ - 1]
  /\ UNCHANGED <<lockVars, mbox, inpktUsed, apiUsed, ipc, msg, replies>>

\* Mutants of HandleDone: a callback message that is not freed, and a
\* netif_poll that ends before the list is empty.
HandleDoneLeaks ==
  /\ msg # "none"
  /\ lpc[Tcpip] = "in" /\ nest = 1
  /\ msg \in Netifs => loop[msg] = 0
  /\ inpktUsed' = IF msg = "inpkt" THEN inpktUsed - 1 ELSE inpktUsed
  /\ msg' = "none"
  /\ replies' = 0
  /\ UNCHANGED <<lockVars, mbox, apiUsed, ipc, loop>>

HandleDoneEarly ==
  /\ msg # "none"
  /\ lpc[Tcpip] = "in" /\ nest = 1
  /\ inpktUsed' = IF msg = "inpkt" THEN inpktUsed - 1 ELSE inpktUsed
  /\ apiUsed' = IF msg \in Netifs THEN apiUsed - 1 ELSE apiUsed
  /\ msg' = "none"
  /\ replies' = 0
  /\ UNCHANGED <<lockVars, mbox, ipc, loop>>

\* tcpip_thread_handle_msg ends by freeing the message to its pool.
HandleDone ==
  /\ msg # "none"
  /\ lpc[Tcpip] = "in" /\ nest = 1
  /\ msg \in Netifs => loop[msg] = 0
  /\ inpktUsed' = IF msg = "inpkt" THEN inpktUsed - 1 ELSE inpktUsed
  /\ apiUsed' = IF msg \in Netifs THEN apiUsed - 1 ELSE apiUsed
  /\ msg' = "none"
  /\ replies' = 0
  /\ UNCHANGED <<lockVars, mbox, ipc, loop>>

LockProgress(t) == LockStep(t) /\ UNCHANGED tcpipVars

TcpipStep ==
  TcpipLock \/ TcpipUnlock \/ TcpipFetch \/ PollDeliver \/ HandleDone

Next ==
  \/ InputAlloc \/ InputPost
  \/ \E t \in Threads : AppLock(t) \/ AppUnlock(t) \/ LockProgress(t)
  \/ \E t \in Threads, n \in Netifs : LoopOutput(t, n)
  \/ TcpipStep \/ TcpipNestedLock \/ TimersDue

-----------------------------------------------------------------------------
\* A core section is straight-line code, so it ends: the outermost unlock is
\* reached.  The Nabto threads block between core sections, so the lwIP
\* thread gets the lock if it is free again and again.  Timers come with
\* periods, so again and again none is due.
LastUnlock(t) == nest = 1 /\ AppUnlock(t)

FetchUnlock == nest = 1 /\ TcpipUnlock

Fairness ==
  /\ WF_vars(InputPost)
  /\ \A t \in Threads : WF_vars(LockProgress(t))
  /\ \A t \in Apps : WF_vars(AppUnlock(t)) /\ SF_vars(LastUnlock(t))
  /\ SF_vars(TcpipLock)
  /\ WF_vars(TcpipUnlock) /\ SF_vars(FetchUnlock) /\ WF_vars(TcpipFetch)
  /\ SF_vars(PollDeliver) /\ SF_vars(HandleDone)

SafetySpec == Init /\ [][Next]_vars

Spec == SafetySpec /\ Fairness

-----------------------------------------------------------------------------
One(b) == IF b THEN 1 ELSE 0

CountIn(S) == Cardinality({i \in 1..Len(mbox) : mbox[i] \in S})

TypeOK ==
  /\ LockTypeOK
  /\ mbox \in Seq(Messages)
  /\ inpktUsed \in 0..InpktPool
  /\ apiUsed \in 0..ApiPool
  /\ ipc \in {"idle", "post"}
  /\ msg \in Messages \cup {"none", "init", "timeout"}
  /\ loop \in [Netifs -> 0..LoopMax]
  /\ replies \in 0..ReplyMax

\* Message accounting: every allocated message is in the mailbox, in the input
\* task's hand or being handled; none leaks and none is freed twice.
PoolsBalance ==
  /\ inpktUsed = CountIn({"inpkt"}) + One(ipc = "post")
                 + One(msg = "inpkt")
  /\ apiUsed = CountIn(Netifs) + One(msg \in Netifs)

\* The mailbox never refuses a message: the pools run out first, so the error
\* path of sys_mbox_trypost is never the reason a packet is dropped.
PostNeverRefused == ipc = "post" => Len(mbox) < MboxSize

\* Why: every allocated message has one place, and the places are counted.
SlotsBalance ==
  /\ mbox \in Seq(Messages)
  /\ inpktUsed \in Int /\ inpktUsed <= InpktPool
  /\ apiUsed \in Int /\ apiUsed <= ApiPool
  /\ Len(mbox) + One(ipc = "post") + One(msg \in Messages)
       = inpktUsed + apiUsed

Stranded(n) == loop[n] > 0 /\ CountIn({n}) = 0 /\ msg # n

\* netif_loop_output: a packet it put on the list of n "gets emptied through
\* calling netif_poll()", so as long as the list is not empty a poll of n is on
\* its way, also when the pool had no message for a new one.
LoopbackNotStranded == \A n \in Netifs : ~Stranded(n)

\* The only way there: a first packet comes while every message of the pool is
\* a poll of another interface.  So with one interface no packet is stranded,
\* although netif_loop_output ignores that the pool was empty.
StrandedOnlyByOthers ==
  [][\A n \in Netifs :
        ~Stranded(n) /\ Stranded(n)' =>
          LET others == Netifs \ {n} IN
          /\ loop[n] = 0
          /\ CountIn(others) + One(msg \in others) = ApiPool]_vars

\* The core lock is used as CoreLock specifies it.
UsesCoreLock == LockSpec

\* Loopback packets that are not stranded reach netif_poll although threads and
\* other messages compete for the core.
LoopbackPolled ==
  \A n \in Netifs : (loop[n] > 0 /\ ~Stranded(n)) ~> msg = n

\* Received packets that were posted reach the stack although loopback polls
\* and Nabto threads compete with them.
PacketsHandled == CountIn({"inpkt"}) > 0 ~> msg = "inpkt"
=============================================================================
