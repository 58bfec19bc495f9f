-------------------------- MODULE UdpSocketProofs ---------------------------
(* Proofs about UdpSocket, for any senders and any completion events.      *)
EXTENDS UdpSocket, FiniteSetTheorems, TLAPS

\* What the callback's place says about the socket it works on.
CallbackInv ==
  /\ bound \/ cpc # "idle" \/ spc # "idle" => life = "open"
  /\ cpc \in {"addr", "port"} => packet \in {NoPeer, cpkt}
  /\ cpc = "port" => addr = cpkt

UdpInv == CallbackInv /\ StoredSenderMatches

\* There is no socket at the start.
LEMMA InitUdp == Init => UdpInv
BY DEF Init, UdpInv, CallbackInv, StoredSenderMatches

\* Every statement of the calls and of the callback keeps the invariant.
LEMMA StepUdp == UdpInv /\ [Next]_vars => UdpInv'
<1> SUFFICES ASSUME UdpInv, [Next]_vars PROVE UdpInv'
  OBVIOUS
<1> USE DEF UdpInv, CallbackInv, StoredSenderMatches
<1>1. CASE UNCHANGED vars
  BY <1>1 DEF vars, socketVars, clientVars, callbackVars
<1>2. CASE Create
  BY <1>2 DEF Create, callbackVars
<1>3. CASE Abort \/ DestroyCall
  BY <1>3 DEF Abort, DestroyCall, clientVars, callbackVars
<1>4. CASE RecvFrom
  BY <1>4 DEF RecvFrom, callbackVars
<1>5. ASSUME NEW e \in Events, BindCall(e) \/ SendCall(e) \/ RecvWait(e)
      PROVE  UdpInv'
  BY <1>5 DEF BindCall, SendCall, LockedCall, RecvWait, Call, socketVars,
              callbackVars
<1>6. CASE DestroyLocked
  BY <1>6 DEF DestroyLocked, callbackVars
<1>7. CASE BindLocked \/ SendLocked
  BY <1>7 DEF BindLocked, SendLocked, socketVars, callbackVars
<1>8. ASSUME NEW p \in Peers, CallbackStart(p)
      PROVE  UdpInv'
  BY <1>8 DEF CallbackStart, socketVars, clientVars
<1>9. CASE CallbackStore
  BY <1>9 DEF CallbackStore, clientVars
<1>10. CASE CallbackAddr
  BY <1>10 DEF CallbackAddr, clientVars
<1>11. CASE CallbackPort
  BY <1>11 DEF CallbackPort, clientVars
<1>12. CASE CallbackEvent \/ CallbackClear \/ CallbackResolve
  BY <1>12 DEF CallbackEvent, CallbackClear, CallbackResolve, socketVars,
              clientVars
<1> QED
  BY <1>1, <1>2, <1>3, <1>4, <1>5, <1>6, <1>7, <1>8, <1>9, <1>10, <1>11, <1>12
     DEF Next, LockedStep, CallbackStep

\* nm_lwip_udp_callback never runs on a socket that destroy has freed.
THEOREM CallbackOnLiveSocket == SafetySpec => []CallbackSocketLive
<1>1. UdpInv => CallbackSocketLive
  BY DEF UdpInv, CallbackInv, CallbackSocketLive
<1> QED BY <1>1, InitUdp, StepUdp, PTL DEF SafetySpec

\* Outside the three assignments of the callback, the recorded sender is the
\* stored packet's.
THEOREM SenderRecorded == SafetySpec => []StoredSenderMatches
<1>1. UdpInv => StoredSenderMatches
  BY DEF UdpInv
<1> QED BY <1>1, InitUdp, StepUdp, PTL DEF SafetySpec

-----------------------------------------------------------------------------
\* The pbuf stored in the socket, and the one in the callback's hands.
StoredPbufs == IF packet = NoPeer THEN 0 ELSE 1
HandedPbufs == IF cpc = "store" THEN 1 ELSE 0

\* PbufsAccounted counts a set of at most one packet.
LEMMA StoredCount ==
  /\ Cardinality({q \in {packet} : q # NoPeer}) = StoredPbufs
  /\ StoredPbufs \in {0, 1}
<1>1. CASE packet = NoPeer
  <2>1. {q \in {packet} : q # NoPeer} = {}
    BY <1>1
  <2> QED BY <1>1, <2>1, FS_EmptySet DEF StoredPbufs
<1>2. CASE packet # NoPeer
  <2>1. {q \in {packet} : q # NoPeer} = {packet}
    BY <1>2
  <2> QED BY <1>2, <2>1, FS_Singleton DEF StoredPbufs
<1> QED BY <1>1, <1>2

\* PbufsAccounted without the cardinality.
PbufInv == life = "open" => live = StoredPbufs + HandedPbufs

\* The callback works on a packet that lwIP gave it.
PacketInv == cpc # "idle" => cpkt \in Peers

MemoryInv == TypeOK /\ CallbackInv /\ PacketInv /\ PbufInv

EventStates == {"idle", "pending", "twice", "lost"}

\* There is no packet at the start.
LEMMA InitMemory == Init => MemoryInv
<1> SUFFICES ASSUME Init PROVE MemoryInv
  OBVIOUS
<1>1. evt \in [Events -> EventStates]
  BY DEF Init, EventStates
<1>2. live \in 0..PbufMax /\ PbufInv
  BY PbufMaxAssumption DEF Init, PbufInv
<1>3. CallbackInv /\ PacketInv
  BY DEF Init, CallbackInv, PacketInv
<1>4. TypeOK
  BY <1>1, <1>2 DEF Init, TypeOK, EventStates, CpcValues
<1> QED BY <1>2, <1>3, <1>4 DEF MemoryInv

\* np_completion_event_resolve and a submission keep the events well-formed.
LEMMA EventTypes ==
  ASSUME TypeOK, NEW e
  PROVE  /\ evt \in [Events -> EventStates]
         /\ Resolved(evt, e) \in [Events -> EventStates]
         /\ Submitted(e) \in [Events -> EventStates]
         /\ Resolved(Submitted(e), e) \in [Events -> EventStates]
         /\ Resolved(Resolved(Submitted(e), e), e) \in [Events -> EventStates]
<1>1. ASSUME NEW ev \in [Events -> EventStates]
      PROVE  Resolved(ev, e) \in [Events -> EventStates]
  BY DEF Resolved, EventStates
<1>2. evt \in [Events -> EventStates]
  BY DEF TypeOK, EventStates
<1>3. Submitted(e) \in [Events -> EventStates]
  BY <1>2 DEF Submitted, EventStates
<1> QED BY <1>1, <1>2, <1>3

\* A step that leaves the socket, the callback and the pbufs alone.
LEMMA MemoryKept ==
  ASSUME MemoryInv, UNCHANGED <<life, bound, packet, addr, port, callbackVars, live>>,
         aborted' \in BOOLEAN, ce' \in Events \cup {NoEvent},
         evt' \in [Events -> EventStates], sevt' \in Events \cup {NoEvent},
         spc' \in {"idle", "destroy", "bind", "send"},
         spc' # "idle" => life = "open"
  PROVE  MemoryInv'
<1>1. TypeOK'
  BY DEF MemoryInv, TypeOK, EventStates, callbackVars
<1>2. CallbackInv' /\ PacketInv'
  BY DEF MemoryInv, CallbackInv, PacketInv, callbackVars
<1>3. PbufInv'
  BY DEF MemoryInv, PbufInv, StoredPbufs, HandedPbufs, callbackVars
<1> QED BY <1>1, <1>2, <1>3 DEF MemoryInv

\* The SDK's calls that change neither the socket's memory nor the callback's.
LEMMA MemoryCalls ==
  ASSUME MemoryInv,
         UNCHANGED vars \/ Abort \/ DestroyCall \/ SendLocked
           \/ \E e \in Events : BindCall(e) \/ SendCall(e) \/ RecvWait(e)
  PROVE  MemoryInv'
<1> USE DEF callbackVars, socketVars, clientVars
<1>0. /\ aborted \in BOOLEAN /\ ce \in Events \cup {NoEvent}
      /\ evt \in [Events -> EventStates] /\ sevt \in Events \cup {NoEvent}
      /\ spc \in {"idle", "destroy", "bind", "send"}
      /\ spc # "idle" => life = "open"
  BY DEF MemoryInv, TypeOK, CallbackInv, EventStates
<1>1. CASE UNCHANGED vars
  BY <1>0, <1>1, MemoryKept DEF vars
<1>2. CASE Abort \/ DestroyCall
  BY <1>0, <1>2, MemoryKept DEF Abort, DestroyCall
<1>3. CASE SendLocked
  <2>1. evt' \in [Events -> EventStates]
    BY <1>3, EventTypes DEF SendLocked, MemoryInv
  <2> QED BY <1>0, <1>3, <2>1, MemoryKept DEF SendLocked
<1>4. ASSUME NEW e \in Events, BindCall(e) \/ SendCall(e)
      PROVE  MemoryInv'
  <2>1. evt' \in [Events -> EventStates]
    BY <1>0, <1>4, EventTypes DEF BindCall, SendCall, LockedCall, MemoryInv
  <2>2. PICK name \in {"bind", "send"} : LockedCall(e, name)
    BY <1>4 DEF BindCall, SendCall
  <2> QED BY <1>0, <2>1, <2>2, MemoryKept DEF LockedCall, Call
<1>5. ASSUME NEW e \in Events, RecvWait(e)
      PROVE  MemoryInv'
  <2>1. evt' \in [Events -> EventStates]
    BY <1>0, <1>5, EventTypes DEF RecvWait, MemoryInv
  <2>2. ce' \in Events \cup {NoEvent}
    BY <1>0, <1>5 DEF RecvWait
  <2> QED BY <1>0, <1>5, <2>1, <2>2, MemoryKept DEF RecvWait, Call
<1> QED BY <1>1, <1>2, <1>3, <1>4, <1>5

\* Every step keeps each pbuf with its owner.
LEMMA StepMemory == MemoryInv /\ [Next]_vars => MemoryInv'
<1> SUFFICES ASSUME MemoryInv, [Next]_vars PROVE MemoryInv'
  OBVIOUS
<1> USE DEF callbackVars, socketVars, clientVars
<1>0. /\ TypeOK /\ CallbackInv /\ PacketInv /\ PbufInv
      /\ evt \in [Events -> EventStates]
      /\ live \in 0..PbufMax
      /\ StoredPbufs \in {0, 1} /\ HandedPbufs \in {0, 1}
  BY DEF MemoryInv, TypeOK, EventStates, StoredPbufs, HandedPbufs
<1>1. CASE Create
  <2>1. live' \in 0..PbufMax /\ PbufInv'
    BY <1>0, <1>1, PbufMaxAssumption
       DEF Create, PbufInv, StoredPbufs, HandedPbufs, CallbackInv
  <2>2. TypeOK'
    BY <1>0, <1>1, <2>1 DEF Create, TypeOK, EventStates
  <2>3. CallbackInv' /\ PacketInv'
    BY <1>0, <1>1 DEF Create, CallbackInv, PacketInv
  <2> QED BY <2>1, <2>2, <2>3 DEF MemoryInv
<1>2. CASE DestroyLocked
  <2>1. evt' \in [Events -> EventStates]
    BY <1>0, <1>2 DEF DestroyLocked, EventStates
  <2>2. TypeOK'
    BY <1>0, <1>2, <2>1 DEF DestroyLocked, TypeOK, EventStates
  <2>3. CallbackInv' /\ PacketInv' /\ PbufInv'
    BY <1>0, <1>2 DEF DestroyLocked, CallbackInv, PacketInv, PbufInv
  <2> QED BY <2>2, <2>3 DEF MemoryInv
<1>3. CASE BindLocked
  <2>1. evt' \in [Events -> EventStates]
    BY <1>0, <1>3, EventTypes DEF BindLocked
  <2>2. bound' \in BOOLEAN /\ life = "open"
    BY <1>0, <1>3 DEF BindLocked, TypeOK, CallbackInv
  <2>3. TypeOK'
    BY <1>0, <1>3, <2>1, <2>2 DEF BindLocked, TypeOK, EventStates
  <2>4. CallbackInv' /\ PacketInv' /\ PbufInv'
    BY <1>0, <1>3, <2>2
       DEF BindLocked, CallbackInv, PacketInv, PbufInv, StoredPbufs, HandedPbufs
  <2> QED BY <2>3, <2>4 DEF MemoryInv
<1>4. CASE RecvFrom
  <2>1. live' \in 0..PbufMax /\ PbufInv'
    <3>1. CASE ~ aborted /\ packet # NoPeer
      <4>1. live = 1 + HandedPbufs /\ live' = live - 1
        BY <1>0, <1>4, <3>1 DEF RecvFrom, PbufInv, StoredPbufs
      <4>2. StoredPbufs' = 0 /\ HandedPbufs' = HandedPbufs
        BY <1>4, <3>1 DEF RecvFrom, StoredPbufs, HandedPbufs
      <4>3. live' = StoredPbufs' + HandedPbufs' /\ live' \in 0..PbufMax
        BY <1>0, <4>1, <4>2, PbufMaxAssumption
      <4> QED BY <4>3 DEF PbufInv
    <3>2. CASE ~ (~ aborted /\ packet # NoPeer)
      BY <1>0, <1>4, <3>2 DEF RecvFrom, PbufInv, StoredPbufs, HandedPbufs
    <3> QED BY <3>1, <3>2
  <2>2. TypeOK'
    BY <1>0, <1>4, <2>1 DEF RecvFrom, TypeOK
  <2>3. CallbackInv' /\ PacketInv'
    BY <1>0, <1>4 DEF RecvFrom, CallbackInv, PacketInv
  <2> QED BY <2>1, <2>2, <2>3 DEF MemoryInv
<1>5. ASSUME NEW p \in Peers, CallbackStart(p)
      PROVE  MemoryInv'
  <2>1. live' \in 0..PbufMax /\ PbufInv'
    <3>1. HandedPbufs = 0 /\ HandedPbufs' = 1 /\ StoredPbufs' = StoredPbufs
      BY <1>5 DEF CallbackStart, StoredPbufs, HandedPbufs
    <3>2. life = "open" /\ live = StoredPbufs + HandedPbufs
          /\ live' = live + 1 /\ live < PbufMax
      BY <1>0, <1>5 DEF CallbackStart, CallbackInv, PbufInv
    <3>3. live' = StoredPbufs' + HandedPbufs' /\ live' \in 0..PbufMax
      BY <1>0, <3>1, <3>2, PbufMaxAssumption
    <3> QED BY <3>3 DEF PbufInv
  <2>2. TypeOK'
    BY <1>0, <1>5, <2>1 DEF CallbackStart, TypeOK, CpcValues
  <2>3. CallbackInv' /\ PacketInv'
    BY <1>0, <1>5 DEF CallbackStart, CallbackInv, PacketInv
  <2> QED BY <2>1, <2>2, <2>3 DEF MemoryInv
<1>6. CASE CallbackStore
  <2>0. cpkt \in Peers /\ cpkt # NoPeer /\ life = "open" /\ HandedPbufs = 1
    BY <1>0, <1>6, NoPeerAssumption
       DEF CallbackStore, CallbackInv, PacketInv, HandedPbufs
  <2>1. live' \in 0..PbufMax /\ PbufInv'
    <3>1. CASE packet = NoPeer
      <4>1. HandedPbufs' = 0 /\ StoredPbufs' = 1 /\ StoredPbufs = 0
            /\ live' = live /\ live = StoredPbufs + HandedPbufs
        BY <1>0, <1>6, <2>0, <3>1
           DEF CallbackStore, PbufInv, StoredPbufs, HandedPbufs
      <4> QED BY <1>0, <2>0, <4>1, PbufMaxAssumption DEF PbufInv
    <3>2. CASE packet # NoPeer
      <4>1. HandedPbufs' = 0 /\ StoredPbufs' = 1 /\ StoredPbufs = 1
            /\ live' = live - 1 /\ live = StoredPbufs + HandedPbufs
        BY <1>0, <1>6, <2>0, <3>2
           DEF CallbackStore, PbufInv, StoredPbufs, HandedPbufs
      <4> QED BY <1>0, <2>0, <4>1, PbufMaxAssumption DEF PbufInv
    <3> QED BY <3>1, <3>2
  <2>2. TypeOK'
    BY <1>0, <1>6, <2>1 DEF CallbackStore, TypeOK, CpcValues
  <2>3. CallbackInv' /\ PacketInv'
    BY <1>0, <1>6, <2>0 DEF CallbackStore, CallbackInv, PacketInv
  <2> QED BY <2>1, <2>2, <2>3 DEF MemoryInv
<1>7. CASE CallbackAddr \/ CallbackPort \/ CallbackEvent \/ CallbackClear
           \/ CallbackResolve
  <2>1. evt' \in [Events -> EventStates]
    BY <1>0, <1>7, EventTypes
       DEF CallbackAddr, CallbackPort, CallbackEvent, CallbackClear, CallbackResolve
  <2>2. TypeOK'
    BY <1>0, <1>7, <2>1
       DEF CallbackAddr, CallbackPort, CallbackEvent, CallbackClear,
           CallbackResolve, TypeOK, CpcValues, EventStates
  <2>3. CallbackInv' /\ PacketInv'
    BY <1>0, <1>7
       DEF CallbackAddr, CallbackPort, CallbackEvent, CallbackClear,
           CallbackResolve, CallbackInv, PacketInv
  <2>4. PbufInv'
    BY <1>0, <1>7
       DEF CallbackAddr, CallbackPort, CallbackEvent, CallbackClear,
           CallbackResolve, PbufInv, StoredPbufs, HandedPbufs
  <2> QED BY <2>2, <2>3, <2>4 DEF MemoryInv
<1> QED
  BY <1>1, <1>2, <1>3, <1>4, <1>5, <1>6, <1>7, MemoryCalls
     DEF Next, LockedStep, CallbackStep

\* Every field of the socket and every local of the callback keeps its type;
\* in particular no pbuf is freed twice and live stays within its bound.
THEOREM TypeCorrect == SafetySpec => []TypeOK
<1>1. MemoryInv => TypeOK
  BY DEF MemoryInv
<1> QED BY <1>1, InitMemory, StepMemory, PTL DEF SafetySpec

\* Every pbuf lwIP gave to an open socket is the one it stores or the one the
\* callback under way still holds: recv_from and the callback free it once.
THEOREM PbufsHaveAnOwner == SafetySpec => []PbufsAccounted
<1>1. MemoryInv => PbufsAccounted
  BY StoredCount DEF MemoryInv, PbufInv, PbufsAccounted, HandedPbufs
<1> QED BY <1>1, InitMemory, StepMemory, PTL DEF SafetySpec

-----------------------------------------------------------------------------
\* Where an event is: the callback takes it out of socket->ce in two steps,
\* and a call at the core lock holds one that nobody else knows.
EventInv ==
  /\ ctaken # NoEvent <=> cpc \in {"clear", "resolve"}
  /\ cpc = "clear" => ce = ctaken
  /\ cpc = "resolve" /\ ~aborted => ce # ctaken
  /\ life # "open" => ce = NoEvent
  /\ spc \notin {"bind", "send"} => sevt = NoEvent
  /\ spc \in {"bind", "send"} =>
       /\ ~aborted /\ sevt \in Events /\ sevt # ce /\ sevt # ctaken
       /\ evt[sevt] = "pending"

WaitInv == MemoryInv /\ EventInv /\ PendingIsReachable /\ WaitResolvedOnce

\* What np_completion_event_resolve does to each event.
LEMMA EventsAt ==
  ASSUME NEW ev \in [Events -> EventStates], NEW e \in Events, NEW f \in Events
  PROVE  /\ Resolved(ev, e)[f] =
              IF f # e THEN ev[f] ELSE IF ev[e] = "pending" THEN "idle" ELSE "twice"
         /\ Resolved(ev, e) \in [Events -> EventStates]
BY DEF Resolved, EventStates

\* The same for an event that a call hands over.
LEMMA SubmittedAt ==
  ASSUME TypeOK, NEW e \in Events, NEW f \in Events
  PROVE  /\ Submitted(e)[f] = IF f = e THEN "pending" ELSE evt[f]
         /\ Submitted(e) \in [Events -> EventStates]
BY DEF Submitted, TypeOK, EventStates

\* No event is in use at the start.
LEMMA InitWait == Init => WaitInv
<1> SUFFICES ASSUME Init PROVE WaitInv
  OBVIOUS
<1>1. EventInv /\ WaitResolvedOnce
  BY DEF Init, EventInv, WaitResolvedOnce
<1>2. PendingIsReachable
  BY DEF Init, PendingIsReachable
<1> QED BY <1>1, <1>2, InitMemory DEF WaitInv

\* What RecvWait does: the event is stored, alone, or it is left resolved.
LEMMA RecvWaitEffect ==
  ASSUME WaitInv, NEW e \in Events, RecvWait(e)
  PROVE  /\ \A f \in Events \ {e} : evt'[f] = evt[f]
         /\ evt[e] = "idle"
         /\ ce = NoEvent => ce' = e /\ evt'[e] \in {"idle", "pending"}
         /\ ce = NoEvent /\ ~aborted => evt'[e] = "pending"
         /\ ce # NoEvent => ce' = ce /\ evt'[e] \in {"idle", "twice"}
         /\ ce # NoEvent /\ ~aborted => evt'[e] = "idle"
<1>1. TypeOK /\ evt[e] = "idle"
  BY DEF WaitInv, MemoryInv, RecvWait, Call
<1> DEFINE s == Submitted(e)
           r == Resolved(s, e)
           q == Resolved(r, e)
<1>2. s \in [Events -> EventStates] /\ r \in [Events -> EventStates]
  BY <1>1, EventTypes
<1>3. s[e] = "pending" /\ r[e] = "idle" /\ q[e] = "twice"
  <2>1. s[e] = "pending"
    BY <1>1, SubmittedAt
  <2> HIDE DEF s
  <2>2. r[e] = "idle"
    BY <1>2, <2>1, EventsAt
  <2> HIDE DEF r
  <2>3. q[e] = "twice"
    BY <1>2, <2>2, EventsAt
  <2> QED BY <2>1, <2>2, <2>3
<1>4. ASSUME NEW f \in Events \ {e}
      PROVE  s[f] = evt[f] /\ r[f] = evt[f] /\ q[f] = evt[f]
  <2>1. s[f] = evt[f]
    BY <1>1, SubmittedAt
  <2> HIDE DEF s
  <2>2. r[f] = s[f]
    BY <1>2, EventsAt
  <2> HIDE DEF r
  <2>3. q[f] = r[f]
    BY <1>2, EventsAt
  <2> QED BY <2>1, <2>2, <2>3
<1>5. evt' = IF ce = NoEvent THEN (IF aborted THEN r ELSE s)
             ELSE IF aborted THEN q ELSE r
  BY DEF RecvWait
<1>6. ce' = IF ce = NoEvent THEN e ELSE ce
  BY DEF RecvWait
<1> HIDE DEF s, r, q
<1> QED BY <1>1, <1>3, <1>4, <1>5, <1>6

\* A step that resolves the event e, which is pending unless the socket is
\* aborted, and no other.
LEMMA ResolveEffect ==
  ASSUME WaitInv, NEW e \in Events, evt' = Resolved(evt, e)
  PROVE  /\ \A f \in Events \ {e} : evt'[f] = evt[f]
         /\ evt'[e] # "pending"
         /\ evt[e] = "pending" => evt'[e] = "idle"
<1>1. evt \in [Events -> EventStates]
  BY SMTT(30) DEF WaitInv, MemoryInv, TypeOK, EventStates
<1> QED BY <1>1, EventsAt DEF EventStates

\* Every step keeps each event where the invariant says it is.
LEMMA StepEvents ==
  ASSUME WaitInv, [Next]_vars
  PROVE  EventInv' /\ PendingIsReachable' /\ WaitResolvedOnce'
<1> USE NoEventAssumption DEF callbackVars, socketVars, clientVars
<1> DEFINE Goal == EventInv' /\ PendingIsReachable' /\ WaitResolvedOnce'
<1>0. /\ EventInv /\ PendingIsReachable /\ WaitResolvedOnce /\ CallbackInv
      /\ evt \in [Events -> EventStates]
      /\ ce \in Events \cup {NoEvent} /\ sevt \in Events \cup {NoEvent}
      /\ ctaken \in Events \cup {NoEvent}
      /\ spc \in {"idle", "destroy", "bind", "send"}
  BY DEF WaitInv, MemoryInv, TypeOK, EventStates
<1> USE DEF EventInv, PendingIsReachable, WaitResolvedOnce
<1>1. CASE UNCHANGED vars
  BY <1>0, <1>1 DEF vars
<1>2. CASE Create
  BY <1>0, <1>2 DEF Create, CallbackInv
<1>3. CASE Abort \/ DestroyCall
  BY <1>0, <1>3 DEF Abort, DestroyCall
<1>4. CASE RecvFrom
  BY <1>0, <1>4 DEF RecvFrom
<1>5. ASSUME NEW e \in Events, BindCall(e) \/ SendCall(e)
      PROVE  Goal
  <2>1. PICK name \in {"bind", "send"} : LockedCall(e, name)
    BY <1>5 DEF BindCall, SendCall
  <2>2. CASE aborted
    BY <1>0, <2>1, <2>2 DEF LockedCall, Call
  <2>3. CASE ~aborted
    <3>1. \A f \in Events : evt'[f] = IF f = e THEN "pending" ELSE evt[f]
      BY <2>1, <2>3, SubmittedAt DEF LockedCall, WaitInv, MemoryInv
    <3>2. /\ life = "open" /\ evt[e] = "idle" /\ e # ce /\ e # ctaken
          /\ spc = "idle" /\ spc' = name /\ sevt' = e
          /\ UNCHANGED <<life, aborted, ce, cpc, ctaken>>
      BY <1>0, <2>1, <2>3 DEF LockedCall, Call
    <3> QED BY <1>0, <2>3, <3>1, <3>2
  <2> QED BY <2>2, <2>3
<1>6. ASSUME NEW e \in Events, RecvWait(e)
      PROVE  Goal
  <2>1. /\ life = "open" /\ spc = "idle"
        /\ UNCHANGED <<life, aborted, spc, sevt, cpc, ctaken>>
    BY <1>6 DEF RecvWait, Call
  <2> QED BY SMTT(30), <1>0, <1>6, <2>1, RecvWaitEffect
<1>7. CASE DestroyLocked
  BY <1>0, <1>7 DEF DestroyLocked
<1>8. CASE BindLocked \/ SendLocked
  <2>1. /\ sevt \in Events /\ evt[sevt] = "pending" /\ evt' = Resolved(evt, sevt)
        /\ sevt # ce /\ sevt # ctaken /\ spc' = "idle" /\ sevt' = NoEvent
        /\ UNCHANGED <<life, aborted, ce, cpc, ctaken>>
    BY <1>0, <1>8 DEF BindLocked, SendLocked
  <2> QED BY <1>0, <2>1, ResolveEffect
<1>9. ASSUME NEW p \in Peers, CallbackStart(p)
      PROVE  Goal
  BY <1>0, <1>9 DEF CallbackStart
<1>10. CASE CallbackStore \/ CallbackAddr \/ CallbackPort
  BY <1>0, <1>10 DEF CallbackStore, CallbackAddr, CallbackPort
<1>11. CASE CallbackEvent
  BY <1>0, <1>11 DEF CallbackEvent
<1>12. CASE CallbackClear
  BY <1>0, <1>12 DEF CallbackClear
<1>13. CASE CallbackResolve
  <2>1. /\ ctaken \in Events /\ evt' = Resolved(evt, ctaken)
        /\ cpc = "resolve" /\ cpc' = "idle" /\ ctaken' = NoEvent
        /\ UNCHANGED <<life, aborted, ce, spc, sevt>>
    BY <1>0, <1>13 DEF CallbackResolve
  <2> QED BY <1>0, <2>1, ResolveEffect
<1> QED
  BY <1>1, <1>2, <1>3, <1>4, <1>5, <1>6, <1>7, <1>8, <1>9, <1>10, <1>11, <1>12,
     <1>13
     DEF Next, LockedStep, CallbackStep

\* Every step keeps a pending event reachable.
LEMMA StepWait == WaitInv /\ [Next]_vars => WaitInv'
BY StepEvents, StepMemory DEF WaitInv

\* A recv_wait, bind or send whose event the SDK waits for is still known to
\* the socket, to the callback or to the call at the core lock.
THEOREM PendingStaysReachable == SafetySpec => []PendingIsReachable
<1>1. WaitInv => PendingIsReachable
  BY DEF WaitInv
<1> QED BY <1>1, InitWait, StepWait, PTL DEF SafetySpec

\* As long as the socket is not aborted, an event that it stores or that the
\* callback took from it is awaited, so resolving it is no second time.
THEOREM StoredWaitIsAwaited == SafetySpec => []WaitResolvedOnce
<1>1. WaitInv => WaitResolvedOnce
  BY DEF WaitInv
<1> QED BY <1>1, InitWait, StepWait, PTL DEF SafetySpec

\* The two ways a wait goes wrong, and nothing else does it: an event is
\* resolved a second time only on a socket that was aborted, and is lost only
\* when destroy frees the socket that stores it.
WaitFailsOnlyAtTheEnd ==
  [][\A e \in Events :
       /\ evt'[e] = "twice" => evt[e] = "twice" \/ aborted
       /\ evt'[e] = "lost" => evt[e] = "lost" \/ (spc = "destroy" /\ e = ce)]_vars

\* For nm_lwip_async_recv_wait, async_bind_port, async_send_to, the callback
\* and destroy: no step but the two above makes a wait fail.
THEOREM WaitsFailOnlyAtTheEnd == SafetySpec => WaitFailsOnlyAtTheEnd
<1> DEFINE Fails(e) ==
      /\ evt'[e] = "twice" => evt[e] = "twice" \/ aborted
      /\ evt'[e] = "lost" => evt[e] = "lost" \/ (spc = "destroy" /\ e = ce)
<1>1. ASSUME WaitInv, [Next]_vars, NEW f \in Events
      PROVE  Fails(f)
  <2> USE NoEventAssumption DEF callbackVars, socketVars, clientVars
  <2>0. /\ EventInv /\ WaitResolvedOnce /\ CallbackInv
        /\ evt \in [Events -> EventStates] /\ ctaken \in Events \cup {NoEvent}
    BY <1>1 DEF WaitInv, MemoryInv, TypeOK, EventStates
  <2>1. CASE evt' = evt
    BY <2>1
  <2>2. ASSUME NEW e \in Events, BindCall(e) \/ SendCall(e)
        PROVE  Fails(f)
    BY <1>1, <2>1, <2>2, SubmittedAt
       DEF BindCall, SendCall, LockedCall, WaitInv, MemoryInv
  <2>3. ASSUME NEW e \in Events, RecvWait(e)
        PROVE  Fails(f)
    BY <1>1, <2>3, RecvWaitEffect
  <2>4. CASE DestroyLocked
    BY <2>0, <2>4 DEF DestroyLocked, EventStates
  <2>5. CASE BindLocked \/ SendLocked
    <3>1. sevt \in Events /\ evt[sevt] = "pending" /\ evt' = Resolved(evt, sevt)
      BY <2>0, <2>5 DEF BindLocked, SendLocked, EventInv
    <3> QED BY <1>1, <3>1, ResolveEffect
  <2>6. CASE CallbackResolve
    <3>1. /\ ctaken \in Events /\ evt' = Resolved(evt, ctaken)
          /\ ~aborted => evt[ctaken] = "pending"
      BY <2>0, <2>6
         DEF CallbackResolve, EventInv, WaitResolvedOnce, CallbackInv
    <3>2. evt'[f] # "lost" \/ evt[f] = "lost"
      BY <2>0, <3>1, EventsAt
    <3> QED BY <1>1, <3>1, <3>2, ResolveEffect
  <2>7. CASE UNCHANGED vars \/ Create \/ Abort \/ DestroyCall \/ RecvFrom
    BY <2>1, <2>7 DEF vars, Create, Abort, DestroyCall, RecvFrom
  <2>8. CASE \/ \E p \in Peers : CallbackStart(p)
             \/ CallbackStore \/ CallbackAddr \/ CallbackPort
             \/ CallbackEvent \/ CallbackClear
    BY <2>1, <2>8
       DEF CallbackStart, CallbackStore, CallbackAddr, CallbackPort,
           CallbackEvent, CallbackClear
  <2> HIDE DEF Fails
  <2> QED
    BY <1>1, <2>2, <2>3, <2>4, <2>5, <2>6, <2>7, <2>8
       DEF Next, LockedStep, CallbackStep
<1>2. WaitInv /\ [Next]_vars => [\A e \in Events : Fails(e)]_vars
  BY <1>1
<1> QED
  BY <1>2, InitWait, StepWait, PTL DEF SafetySpec, WaitFailsOnlyAtTheEnd
=============================================================================
