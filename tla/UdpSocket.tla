----------------------------- MODULE UdpSocket ------------------------------
(***************************************************************************)
(* The UDP socket of nm_nabto_lwip.c.  The SDK's thread calls the socket   *)
(* functions; the lwIP thread, of lower priority, runs                     *)
(* nm_lwip_udp_callback under the core lock and may be preempted between   *)
(* any two of its statements.  An SDK function that takes the core lock    *)
(* waits there for a callback under way.  A packet is named by its sender. *)
(***************************************************************************)
EXTENDS Naturals, FiniteSets

CONSTANTS
  Peers,    \* senders of packets
  Events,   \* completion events of the SDK
  NoPeer,   \* no packet, no address
  NoEvent,  \* the null completion event
  PbufMax   \* bound on the pbufs that are alive at once

ASSUME NoPeerAssumption == NoPeer \notin Peers
ASSUME NoEventAssumption == NoEvent \notin Events
ASSUME PbufMaxAssumption == PbufMax \in Nat \ {0}

VARIABLES
  life,     \* "none", "open" or "freed"
  bound,    \* udp_recv has registered the callback
  aborted,  \* socket->aborted
  packet,   \* socket->packet
  addr,     \* socket->addr
  port,     \* socket->port
  ce,       \* socket->ce
  evt,      \* evt[e]: "idle", "pending", "twice" when it was resolved unasked,
            \* or "lost" with the socket that was to resolve it
  spc,      \* an SDK call waiting for the core lock
  sevt,     \* the completion event of that call
  cpc,      \* where the callback is
  cpkt,     \* its packet p
  ctaken,   \* its local e
  live      \* pbufs handed to this socket and not freed

socketVars == <<life, bound, aborted, packet, addr, port, ce>>
clientVars == <<evt, spc, sevt>>
callbackVars == <<cpc, cpkt, ctaken>>
vars == <<socketVars, clientVars, callbackVars, live>>

Init ==
  /\ life = "none" /\ bound = FALSE /\ aborted = FALSE
  /\ packet = NoPeer /\ addr = NoPeer /\ port = NoPeer /\ ce = NoEvent
  /\ evt = [e \in Events |-> "idle"]
  /\ spc = "idle" /\ sevt = NoEvent
  /\ cpc = "idle" /\ cpkt = NoPeer /\ ctaken = NoEvent
  /\ live = 0

\* np_completion_event_resolve: an event that is not awaited is resolved twice.
Resolved(ev, e) ==
  [ev EXCEPT ![e] = IF ev[e] = "pending" THEN "idle" ELSE "twice"]

Submitted(e) == [evt EXCEPT ![e] = "pending"]

\* The SDK's thread may call the socket: it is in no other call, and hands
\* over only an event that it is not already waiting for.
Call(e) == life = "open" /\ spc = "idle" /\ evt[e] = "idle"

-----------------------------------------------------------------------------
\* nm_lwip_create_socket; out of memory leaves nothing behind.
Create ==
  /\ life # "open"
  /\ life' = "open" /\ bound' = FALSE /\ aborted' = FALSE
  /\ packet' = NoPeer /\ addr' = NoPeer /\ port' = NoPeer /\ ce' = NoEvent
  /\ live' = 0
  /\ UNCHANGED <<evt, spc, sevt, callbackVars>>

\* nm_lwip_abort_socket leaves a pending recv_wait pending.
Abort ==
  /\ life = "open" /\ spc = "idle"
  /\ aborted' = TRUE
  /\ UNCHANGED <<life, bound, packet, addr, port, ce, clientVars,
                 callbackVars, live>>

DestroyCall ==
  /\ life = "open" /\ spc = "idle"
  /\ aborted' = TRUE
  /\ spc' = "destroy"
  /\ UNCHANGED <<life, bound, packet, addr, port, ce, evt,
                 sevt, callbackVars, live>>

\* Mutant of DestroyLocked: the core lock is not taken.
DestroyUnlocked ==
  /\ spc = "destroy"
  /\ life' = "freed" /\ bound' = FALSE
  /\ spc' = "idle"
  /\ UNCHANGED <<aborted, packet, addr, port, ce, evt, sevt,
                 callbackVars, live>>

\* udp_remove and np_free under the core lock, so after any callback.  A
\* stored packet is not freed and a pending recv_wait is not resolved.
DestroyLocked ==
  /\ spc = "destroy" /\ cpc = "idle"
  /\ life' = "freed" /\ bound' = FALSE /\ ce' = NoEvent
  /\ evt' = [e \in Events |->
              IF e = ce /\ evt[e] = "pending" THEN "lost" ELSE evt[e]]
  /\ spc' = "idle"
  /\ UNCHANGED <<aborted, packet, addr, port, sevt, callbackVars,
                 live>>

\* An asynchronous call that needs the core lock: refused at once on an
\* aborted socket, otherwise it goes on to wait for the lock.
LockedCall(e, name) ==
  /\ Call(e)
  /\ IF aborted
       THEN UNCHANGED <<evt, spc, sevt>>
       ELSE evt' = Submitted(e) /\ spc' = name /\ sevt' = e
  /\ UNCHANGED <<socketVars, callbackVars, live>>

BindCall(e) == LockedCall(e, "bind")

SendCall(e) == LockedCall(e, "send")

\* udp_bind, and udp_recv when it succeeded; the event is resolved either way.
BindLocked ==
  /\ spc = "bind" /\ cpc = "idle"
  /\ \E ok \in BOOLEAN : bound' = (bound \/ ok)
  /\ evt' = Resolved(evt, sevt)
  /\ spc' = "idle" /\ sevt' = NoEvent
  /\ UNCHANGED <<life, aborted, packet, addr, port, ce,
                 callbackVars, live>>

\* udp_sendto; OK, ERR_VAL and other errors all resolve the event.
SendLocked ==
  /\ spc = "send" /\ cpc = "idle"
  /\ evt' = Resolved(evt, sevt)
  /\ spc' = "idle" /\ sevt' = NoEvent
  /\ UNCHANGED <<socketVars, callbackVars, live>>

\* Mutant of RecvWait: a second wait replaces the first.
RecvWaitReplaces(e) ==
  /\ Call(e)
  /\ ce' = e
  /\ evt' = Submitted(e)
  /\ UNCHANGED <<life, bound, aborted, packet, addr, port, spc, sevt,
                 callbackVars, live>>

\* nm_lwip_async_recv_wait.  The branch for an aborted socket resolves the
\* event and does not return: the event is stored, or resolved again.
RecvWait(e) ==
  /\ Call(e)
  /\ LET atAbort == IF aborted THEN Resolved(Submitted(e), e)
                    ELSE Submitted(e)
     IN  IF ce = NoEvent
           THEN ce' = e /\ evt' = atAbort
           ELSE evt' = Resolved(atAbort, e) /\ UNCHANGED ce
  /\ UNCHANGED <<life, bound, aborted, packet, addr, port, spc, sevt,
                 callbackVars, live>>

\* Mutant of RecvFrom: pbuf_free is called when there is no packet, too.
RecvFromFreesAnyway ==
  /\ life = "open" /\ spc = "idle"
  /\ packet' = NoPeer /\ live' = live - 1
  /\ UNCHANGED <<life, bound, aborted, addr, port, ce, evt, spc, sevt,
                 callbackVars>>

\* nm_lwip_recv_from, called at any time.
RecvFrom ==
  /\ life = "open" /\ spc = "idle"
  /\ IF ~ aborted /\ packet # NoPeer
       THEN packet' = NoPeer /\ live' = live - 1
       ELSE UNCHANGED <<packet, live>>
  /\ UNCHANGED <<life, bound, aborted, addr, port, ce, evt, spc, sevt,
                 callbackVars>>

-----------------------------------------------------------------------------
\* nm_lwip_udp_callback, statement by statement.

CallbackStart(p) ==
  /\ bound /\ cpc = "idle"
  /\ live < PbufMax
  /\ cpc' = "store" /\ cpkt' = p /\ live' = live + 1
  /\ UNCHANGED <<socketVars, clientVars, ctaken>>

\* Mutant of CallbackStore: a packet that finds no room is not freed.
CallbackStoreLeaks ==
  /\ cpc = "store"
  /\ IF packet = NoPeer
       THEN packet' = cpkt /\ cpc' = "addr"
       ELSE cpc' = "event" /\ UNCHANGED packet
  /\ UNCHANGED <<life, bound, aborted, addr, port, ce, clientVars, cpkt, ctaken,
                 live>>

\* Mutant of CallbackStore: the sender of a dropped packet is recorded.
CallbackStoreFallsThrough ==
  /\ cpc = "store"
  /\ IF packet = NoPeer
       THEN packet' = cpkt /\ UNCHANGED live
       ELSE live' = live - 1 /\ UNCHANGED packet
  /\ cpc' = "addr"
  /\ UNCHANGED <<life, bound, aborted, addr, port, ce, clientVars, cpkt, ctaken>>

\* Room for one packet: the newest one is dropped.
CallbackStore ==
  /\ cpc = "store"
  /\ IF packet = NoPeer
       THEN packet' = cpkt /\ cpc' = "addr" /\ UNCHANGED live
       ELSE cpc' = "event" /\ live' = live - 1 /\ UNCHANGED packet
  /\ UNCHANGED <<life, bound, aborted, addr, port, ce, clientVars, cpkt, ctaken>>

CallbackAddr ==
  /\ cpc = "addr"
  /\ addr' = cpkt /\ cpc' = "port"
  /\ UNCHANGED <<life, bound, aborted, packet, port, ce, clientVars, cpkt,
                 ctaken, live>>

CallbackPort ==
  /\ cpc = "port"
  /\ port' = cpkt /\ cpc' = "event"
  /\ UNCHANGED <<life, bound, aborted, packet, addr, ce, clientVars, cpkt,
                 ctaken, live>>

\* Mutant of CallbackEvent: only a packet that was stored completes the wait.
CallbackEventStoredOnly ==
  /\ cpc = "event"
  /\ IF ce # NoEvent /\ packet = cpkt
       THEN ctaken' = ce /\ cpc' = "clear" /\ UNCHANGED cpkt
       ELSE cpc' = "idle" /\ cpkt' = NoPeer /\ UNCHANGED ctaken
  /\ UNCHANGED <<socketVars, clientVars, live>>

CallbackEvent ==
  /\ cpc = "event"
  /\ IF ce # NoEvent
       THEN ctaken' = ce /\ cpc' = "clear" /\ UNCHANGED cpkt
       ELSE cpc' = "idle" /\ cpkt' = NoPeer /\ UNCHANGED ctaken
  /\ UNCHANGED <<socketVars, clientVars, live>>

\* Mutant of CallbackClear: socket->ce keeps the event.
CallbackKeeps ==
  /\ cpc = "clear"
  /\ cpc' = "resolve"
  /\ UNCHANGED <<socketVars, clientVars, cpkt, ctaken, live>>

CallbackClear ==
  /\ cpc = "clear"
  /\ ce' = NoEvent /\ cpc' = "resolve"
  /\ UNCHANGED <<life, bound, aborted, packet, addr, port, clientVars, cpkt,
                 ctaken, live>>

CallbackResolve ==
  /\ cpc = "resolve"
  /\ evt' = Resolved(evt, ctaken)
  /\ cpc' = "idle" /\ cpkt' = NoPeer /\ ctaken' = NoEvent
  /\ UNCHANGED <<socketVars, spc, sevt, live>>

CallbackStep ==
  \/ CallbackStore \/ CallbackAddr \/ CallbackPort
  \/ CallbackEvent \/ CallbackClear \/ CallbackResolve

LockedStep == DestroyLocked \/ BindLocked \/ SendLocked

Next ==
  \/ Create \/ Abort \/ DestroyCall \/ RecvFrom
  \/ \E e \in Events : BindCall(e) \/ SendCall(e) \/ RecvWait(e)
  \/ LockedStep
  \/ \E p \in Peers : CallbackStart(p)
  \/ CallbackStep

SafetySpec == Init /\ [][Next]_vars

\* A callback runs to its end, and a call waiting for the core lock gets it.
\* Packets need not arrive, and the SDK need not call anything.
Spec == SafetySpec /\ WF_vars(CallbackStep) /\ SF_vars(LockedStep)

-----------------------------------------------------------------------------
CpcValues == {"idle", "store", "addr", "port", "event", "clear", "resolve"}

TypeOK ==
  /\ life \in {"none", "open", "freed"}
  /\ bound \in BOOLEAN /\ aborted \in BOOLEAN
  /\ packet \in Peers \cup {NoPeer} /\ addr \in Peers \cup {NoPeer}
  /\ port \in Peers \cup {NoPeer} /\ cpkt \in Peers \cup {NoPeer}
  /\ ce \in Events \cup {NoEvent} /\ sevt \in Events \cup {NoEvent}
  /\ ctaken \in Events \cup {NoEvent}
  /\ evt \in [Events -> {"idle", "pending", "twice", "lost"}]
  /\ spc \in {"idle", "destroy", "bind", "send"}
  /\ cpc \in CpcValues
  /\ live \in 0..PbufMax

\* A callback never runs on a freed socket: destroy waits at the core lock for
\* a callback under way, and udp_remove keeps a later one from starting.
CallbackSocketLive == cpc # "idle" => life = "open"

\* Outside lines 152-154 of the callback, the stored packet comes with its own
\* sender's address and port: a packet that is dropped touches neither.
StoredSenderMatches ==
  packet # NoPeer /\ cpc \notin {"addr", "port"} =>
    addr = packet /\ port = packet

\* A recv_wait, bind or send whose event is pending is still known to the
\* socket: the event is stored, or on its way to be resolved.
PendingIsReachable ==
  \A e \in Events : evt[e] = "pending" => e \in {ce, ctaken, sevt}

\* On a socket that is not aborted no event is resolved twice, and the stored
\* one is still awaited.
WaitResolvedOnce ==
  life = "open" /\ ~ aborted =>
    \A e \in {ce, ctaken} \ {NoEvent} : evt[e] = "pending"

\* Every pbuf lwIP handed over is the stored packet or in the callback's hands.
PbufsAccounted ==
  life = "open" =>
    live = Cardinality({q \in {packet} : q # NoPeer})
           + (IF cpc = "store" THEN 1 ELSE 0)

\* A packet completes a waiting recv_wait, also when it is itself dropped
\* because an earlier packet is still stored.
ArrivalCompletesWait ==
  \A e \in Events : (cpc = "store" /\ ce = e) ~> ce # e

\* The error message of async_recv_wait, "there's already a waiting recv":
\* an event found in socket->ce has not been resolved.
StoredEventIsWaiting ==
  life = "open" /\ ce # NoEvent => evt[ce] = "pending"
=============================================================================
