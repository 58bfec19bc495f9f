--------------------------- MODULE TcpSocketProofs --------------------------
(***************************************************************************)
(* The safety properties of TcpSocket, for every window and chain length,  *)
(* and what has to happen before its behaviour is undefined.               *)
(***************************************************************************)
EXTENDS TcpSocket, TLAPS

\* The segment being handled is one the pcb can accept, and there is room for
\* its data: no SDK call changes the pcb or adds a pbuf while the lwIP thread
\* is in the core.
SegmentFits ==
  undefined = "no" =>
    /\ cpc \in Kinds => cpc \in Segments(pcb)
    /\ cpc \in {"DATA", "append"} => chain < ChainMax

\* A live pcb belongs to an open socket that it calls back, or is closed for
\* receiving; only an open socket has a call under way.
PcbOwned ==
  /\ spc # "idle" => life = "open"
  /\ Live(pcb) => \/ life = "open" /\ pcb.arg /\ ~pcb.rxclosed
                  \/ life = "destroyed" /\ ~pcb.arg /\ pcb.rxclosed

Heard == {"CLOSE_WAIT", "CLOSING", "LAST_ACK", "TIME_WAIT"}

\* The states that follow the peer's FIN are recorded in remoteClosed.
FinRecorded == life = "open" /\ pcb.state \in Heard => remoteClosed

\* The error callback runs only on a socket that is marked.
ErrorMarked ==
  cerr \/ cfree =>
    cpc \in {"read", "resolve", "clear"} /\ (aborted \/ remoteClosed)

\* A read that is about to be resolved has a result.
ResultReady == cpc = "resolve" => cres # "none"

IInv ==
  /\ TypeOK /\ SegmentFits /\ PcbOwned /\ FinRecorded /\ ErrorMarked
  /\ FreedPcbIsKnown /\ ConnectTruthful

-----------------------------------------------------------------------------
\* A new pcb is live and calls the socket back; a freed one is neither.
LEMMA FreedFacts ==
  /\ FreedPcb \in PcbType /\ FreedPcb.state = "free" /\ ~Live(FreedPcb)
  /\ NewPcb \in PcbType /\ NewPcb.state = "CLOSED" /\ Live(NewPcb)
  /\ NewPcb.arg = TRUE /\ NewPcb.rxclosed = FALSE
<1>1. 0 \in 0..Window
  BY WindowAssumption
<1>2. NewPcb \in PcbType
  BY <1>1 DEF NewPcb, PcbType, PcbStates
<1>3. NewPcb.state = "CLOSED" /\ NewPcb.arg = TRUE /\ NewPcb.rxclosed = FALSE
  BY DEF NewPcb
<1>4. FreedPcb \in PcbType
  BY <1>2 DEF FreedPcb, PcbType, PcbStates
<1>5. FreedPcb.state = "free"
  BY <1>2 DEF FreedPcb, PcbType
<1> QED BY <1>2, <1>3, <1>4, <1>5 DEF Live

\* tcp_close and tcp_shutdown keep the pcb well formed; a close frees it or
\* closes its receiving side.
LEMMA CloseFinFacts ==
  ASSUME NEW p \in PcbType, NEW memory \in BOOLEAN
  PROVE  /\ CloseFin(p, memory) \in PcbType
         /\ CloseFin(p, memory).arg = p.arg
         /\ CloseFin(p, memory).rxclosed = p.rxclosed
         /\ Live(CloseFin(p, memory)) <=> Live(p)
         /\ CloseFin(p, memory).state \in Heard => p.state \in Heard
<1>1. CASE p.state = "ESTABLISHED"
  BY <1>1 DEF CloseFin, PcbType, PcbStates, Live, Heard
<1>2. CASE p.state = "CLOSE_WAIT"
  BY <1>2 DEF CloseFin, PcbType, PcbStates, Live, Heard
<1>3. CASE p.state \notin {"ESTABLISHED", "CLOSE_WAIT"}
  BY <1>3 DEF CloseFin, PcbType, PcbStates, Live, Heard
<1> QED BY <1>1, <1>2, <1>3

\* What tcp_close makes of a pcb whose argument was cleared.
LEMMA CloseFacts ==
  ASSUME NEW p \in PcbType, NEW memory \in BOOLEAN
  PROVE  /\ Close(p, memory) \in PcbType
         /\ Live(Close(p, memory)) =>
              Close(p, memory).arg = p.arg /\ Close(p, memory).rxclosed
<1> DEFINE q == [p EXCEPT !.rxclosed = TRUE]
<1>1. q \in PcbType /\ q.arg = p.arg /\ q.rxclosed
  BY DEF PcbType
<1>2. FreedPcb \in PcbType /\ ~Live(FreedPcb)
  BY FreedFacts
<1>3. /\ CloseFin(q, memory) \in PcbType
      /\ CloseFin(q, memory).arg = q.arg
      /\ CloseFin(q, memory).rxclosed = q.rxclosed
  BY <1>1, CloseFinFacts
<1>4. Close(p, memory) \in {FreedPcb, CloseFin(q, memory)}
  BY DEF Close
<1> QED BY <1>1, <1>2, <1>3, <1>4

\* tcp_process keeps the pcb well formed; only a FIN leads to the states that
\* follow one.
LEMMA ProcessFacts ==
  ASSUME NEW p \in PcbType, NEW seg \in Segments(p)
  PROVE  /\ Process(p, seg) \in PcbType
         /\ Process(p, seg).arg = p.arg
         /\ Process(p, seg).rxclosed = p.rxclosed
         /\ Live(Process(p, seg)) /\ Live(p)
         /\ Process(p, seg).state \in Heard =>
              p.state \in Heard \/ seg \in {"FIN", "FINACK"}
<1>1. Live(p) /\ seg \in Kinds
  BY DEF Segments, Live, PcbType, PcbStates, Kinds
<1>2. CASE seg = "DATA"
  <2>1. p.unread + 2 \in 0..Window
    BY <1>2, WindowAssumption DEF Segments, PcbType
  <2>2. Process(p, seg) = [p EXCEPT !.state = p.state, !.unread = p.unread + 2]
    BY <1>2 DEF Process
  <2>3. Process(p, seg) \in PcbType
    BY <2>1, <2>2 DEF PcbType
  <2> QED BY <1>1, <2>2, <2>3 DEF PcbType, Live
<1>3. CASE seg \in {"SYNACK", "RST", "OTHER"}
  BY <1>1, <1>3 DEF Segments, Process, PcbType, PcbStates, Live, Heard
<1>4. CASE seg \in {"FIN", "FINACK"}
  BY <1>1, <1>4 DEF Segments, Process, PcbType, PcbStates, Live, Heard
<1>5. CASE seg = "ACK"
  BY <1>1, <1>5 DEF Segments, Process, PcbType, PcbStates, Live, Heard
<1> QED BY <1>1, <1>2, <1>3, <1>4, <1>5 DEF Kinds

\* tcp_recved gives window back and changes nothing else.
LEMMA RecvedFacts ==
  ASSUME NEW p \in PcbType, NEW len \in 0..2
  PROVE  /\ Recved(p, len) \in PcbType
         /\ Recved(p, len).state = p.state
         /\ Recved(p, len).arg = p.arg
         /\ Recved(p, len).rxclosed = p.rxclosed
  BY WindowAssumption DEF Recved, PcbType

-----------------------------------------------------------------------------
\* The invariant holds initially.
LEMMA InitIInv == Init => IInv
<1> SUFFICES ASSUME Init PROVE IInv
  OBVIOUS
<1> USE FreedFacts DEF Init
<1>0. 0 \in 0..ChainMax /\ 0 \in 0..1 /\ 0 \in 0..2
  BY ChainMaxAssumption
<1>1. TypeOK
  BY <1>0, Zenon DEF TypeOK, SocketType, SdkType, LwipType
<1>2. SegmentFits /\ PcbOwned /\ FinRecorded /\ ErrorMarked
  BY DEF SegmentFits, PcbOwned, FinRecorded, ErrorMarked, Kinds, Heard
<1>3. FreedPcbIsKnown /\ ConnectTruthful
  BY DEF FreedPcbIsKnown, ConnectTruthful
<1> QED BY <1>1, <1>2, <1>3 DEF IInv

\* A step that leaves the pcb as owned and as far as it was, marks nothing,
\* starts no error callback and reports no new success.
LEMMA KeepStep ==
  ASSUME IInv, TypeOK', SegmentFits',
         pcb'.arg = pcb.arg, pcb'.rxclosed = pcb.rxclosed,
         Live(pcb') <=> Live(pcb),
         pcb'.state \in Heard => pcb.state \in Heard,
         life' = life, spc' # "idle" => life = "open",
         aborted' = aborted, remoteClosed' = remoteClosed,
         established' = established,
         cerr' \/ cfree' => /\ cerr \/ cfree
                           /\ cpc' \in {"read", "resolve", "clear"},
         "ok" \in connect' => "ok" \in connect
  PROVE  IInv'
<1>1. PcbOwned'
  BY DEF IInv, PcbOwned, Live
<1>2. FinRecorded'
  BY DEF IInv, FinRecorded
<1>3. ErrorMarked'
  BY DEF IInv, ErrorMarked
<1>4. FreedPcbIsKnown' /\ ConnectTruthful'
  BY DEF IInv, FreedPcbIsKnown, ConnectTruthful, Live
<1> QED BY <1>1, <1>2, <1>3, <1>4 DEF IInv

\* A step that frees the pcb and leaves a mark on an open socket.
LEMMA FreeStep ==
  ASSUME IInv, TypeOK', pcb' = FreedPcb,
         life' = life, spc' # "idle" => life = "open",
         undefined' = "no" => cpc' \notin Kinds /\ cpc' # "append",
         life = "open" => aborted' \/ remoteClosed',
         cerr' \/ cfree' => /\ aborted' \/ remoteClosed'
                           /\ cpc' \in {"read", "resolve", "clear"},
         established' = established, "ok" \in connect' => "ok" \in connect
  PROVE  IInv'
<1>0. SegmentFits'
  <2> SUFFICES ASSUME undefined' = "no"
               PROVE  /\ cpc' \in Kinds => cpc' \in Segments(pcb')
                      /\ cpc' \in {"DATA", "append"} => chain' < ChainMax
    BY DEF SegmentFits
  <2>1. cpc' \notin Kinds /\ cpc' # "append" /\ "DATA" \in Kinds
    BY DEF Kinds
  <2> QED BY <2>1
<1>1. ErrorMarked'
  BY DEF ErrorMarked
<1>2. PcbOwned'
  BY FreedFacts DEF PcbOwned, Live
<1>3. FinRecorded'
  BY FreedFacts DEF FinRecorded, Heard
<1>4. FreedPcbIsKnown' /\ ConnectTruthful'
  BY DEF IInv, FreedPcbIsKnown, ConnectTruthful
<1> QED BY <1>0, <1>1, <1>2, <1>3, <1>4 DEF IInv

-----------------------------------------------------------------------------
\* The SDK's calls that have waited for the core lock.
LEMMA SdkLockedSteps ==
  ASSUME IInv, SdkLocked
  PROVE  IInv'
<1>0. /\ TypeOK /\ life = "open" /\ cpc = "idle" /\ ~cerr /\ ~cfree
      /\ Live(pcb) => pcb.arg
  BY DEF IInv, SdkLocked, Abort, Destroy, Connect, Write, ShutdownSend,
     ReadCallRest, Locked, PcbOwned, ErrorMarked
<1>1. CASE Abort
  <2>1. CASE Live(pcb) /\ pcb.state # "TIME_WAIT"
    <3>1. /\ aborted' = TRUE /\ cpc' = "read" /\ cerr' = TRUE /\ cfree' = FALSE
          /\ cres' = cres /\ undefined' = undefined /\ spc' = "aborting"
      BY <1>0, <1>1, <2>1 DEF Abort, ErrCallback
    <3>2. TypeOK'
      <4>1. SocketType'
        BY <1>0, <1>1, <3>1, FreedFacts DEF Abort, TypeOK, SocketType
      <4>2. SdkType'
        BY <1>0, <1>1, <3>1, FreedFacts DEF Abort, TypeOK, SdkType
      <4>3. LwipType'
        BY <1>0, <1>1, <3>1, FreedFacts DEF Abort, TypeOK, LwipType
      <4> QED BY <4>1, <4>2, <4>3, <1>0, <1>1, <3>1, FreedFacts DEF Abort, TypeOK
    <3> QED BY <1>0, <1>1, <3>1, <3>2, FreeStep DEF Abort, Kinds
  <2>2. CASE ~(Live(pcb) /\ pcb.state # "TIME_WAIT")
    <3>1. aborted \/ remoteClosed
      BY <1>0, <2>2 DEF IInv, FreedPcbIsKnown, FinRecorded, Heard
    <3>2. /\ spc' = "idle" /\ aborted' = aborted
          /\ cpc' = cpc /\ cres' = cres /\ cerr' = cerr /\ cfree' = cfree
          /\ undefined' \in {undefined, "pcb"}
      BY <1>1, <2>2 DEF Abort, UsesFreedPcb, lwipVars
    <3>3. TypeOK'
      <4>1. SocketType'
        BY <1>0, <1>1, <3>2, FreedFacts DEF Abort, TypeOK, SocketType
      <4>2. SdkType'
        BY <1>0, <1>1, <3>2, FreedFacts DEF Abort, TypeOK, SdkType
      <4>3. LwipType'
        BY <1>0, <1>1, <3>2, FreedFacts DEF Abort, TypeOK, LwipType
      <4> QED BY <4>1, <4>2, <4>3, <1>0, <1>1, <3>2, FreedFacts DEF Abort, TypeOK
    <3> QED BY <1>0, <1>1, <3>1, <3>2, <3>3, FreeStep DEF Abort, Kinds
  <2> QED BY <2>1, <2>2
<1>2. CASE Destroy
  <2>1. PICK memory \in BOOLEAN : pcb' = Close([pcb EXCEPT !.arg = FALSE], memory)
    BY <1>2 DEF Destroy
  <2>2. [pcb EXCEPT !.arg = FALSE] \in PcbType /\ [pcb EXCEPT !.arg = FALSE].arg = FALSE
    BY <1>0 DEF TypeOK, PcbType
  <2>3. pcb' \in PcbType /\ (Live(pcb') => pcb'.arg = FALSE /\ pcb'.rxclosed)
    BY <2>1, <2>2, CloseFacts
  <2>4. undefined' \in {undefined, "pcb"} /\ life' = "destroyed" /\ spc' = "idle"
    BY <1>2 DEF Destroy, UsesFreedPcb
  <2>5. UNCHANGED <<socketVars, connect, read, lwipVars, established>>
    BY <1>2 DEF Destroy
  <2>6. TypeOK'
    <3>1. SocketType'
      BY <1>0, <2>3, <2>4, <2>5 DEF socketVars, lwipVars, TypeOK, SocketType
    <3>2. SdkType'
      BY <1>0, <2>3, <2>4, <2>5 DEF socketVars, lwipVars, TypeOK, SdkType
    <3>3. LwipType'
      BY <1>0, <2>3, <2>4, <2>5 DEF socketVars, lwipVars, TypeOK, LwipType
    <3> QED BY <3>1, <3>2, <3>3, <1>0, <2>3, <2>4, <2>5 DEF socketVars, lwipVars, TypeOK
  <2>7. SegmentFits' /\ ErrorMarked'
    BY <1>0, <2>5 DEF SegmentFits, ErrorMarked, lwipVars, Kinds
  <2>8. PcbOwned'
    BY <2>3, <2>4 DEF PcbOwned, Live
  <2>9. FinRecorded' /\ FreedPcbIsKnown' /\ ConnectTruthful'
    BY <2>4, <2>5 DEF IInv, FinRecorded, FreedPcbIsKnown, ConnectTruthful
  <2> QED BY <2>6, <2>7, <2>8, <2>9 DEF IInv
<1>3. CASE Connect
  <2>1. /\ pcb' \in PcbType /\ pcb'.arg = pcb.arg /\ pcb'.rxclosed = pcb.rxclosed
        /\ (Live(pcb') <=> Live(pcb)) /\ (pcb'.state \in Heard => pcb.state \in Heard)
    BY <1>0, <1>3 DEF Connect, TypeOK, PcbType, PcbStates, Live, Heard
  <2>2. /\ connect' \subseteq {"ok", "aborted", "error"}
        /\ "ok" \in connect' => "ok" \in connect
    BY <1>0, <1>3 DEF Connect, TypeOK, SdkType
  <2>3. /\ undefined' \in {undefined, "pcb"} /\ spc' = "idle" /\ life' = life
        /\ UNCHANGED <<socketVars, life, read, lwipVars, established>>
    BY <1>3 DEF Connect, UsesFreedPcb
  <2>4. TypeOK'
    <3>1. SocketType'
      BY <1>0, <2>1, <2>2, <2>3 DEF socketVars, lwipVars, TypeOK, SocketType
    <3>2. SdkType'
      BY <1>0, <2>1, <2>2, <2>3 DEF socketVars, lwipVars, TypeOK, SdkType
    <3>3. LwipType'
      BY <1>0, <2>1, <2>2, <2>3 DEF socketVars, lwipVars, TypeOK, LwipType
    <3> QED BY <3>1, <3>2, <3>3, <1>0, <2>1, <2>2, <2>3 DEF socketVars, lwipVars, TypeOK
  <2>5. SegmentFits'
    BY <1>0, <2>3 DEF SegmentFits, lwipVars, Kinds
  <2> QED BY <1>0, <2>1, <2>2, <2>3, <2>4, <2>5, KeepStep DEF socketVars, lwipVars
<1>4. CASE Write \/ ShutdownSend
  <2>1. /\ pcb' \in PcbType /\ pcb'.arg = pcb.arg /\ pcb'.rxclosed = pcb.rxclosed
        /\ (Live(pcb') <=> Live(pcb)) /\ (pcb'.state \in Heard => pcb.state \in Heard)
    <3>1. CASE Write
      BY <1>0, <3>1 DEF Write, TypeOK, PcbType, Live
    <3>2. CASE ShutdownSend
      <4>1. PICK memory \in BOOLEAN : pcb' = Shutdown(pcb, memory)
        BY <3>2 DEF ShutdownSend
      <4>2. pcb' \in {pcb, CloseFin(pcb, memory)} /\ pcb \in PcbType
        BY <1>0, <4>1 DEF Shutdown, TypeOK
      <4> QED BY <4>2, CloseFinFacts
    <3> QED BY <1>4, <3>1, <3>2
  <2>2. /\ undefined' \in {undefined, "pcb"} /\ spc' = "idle"
        /\ UNCHANGED <<socketVars, life, connect, read, lwipVars, established>>
    BY <1>4 DEF Write, ShutdownSend, UsesFreedPcb
  <2>3. TypeOK'
    <3>1. SocketType'
      BY <1>0, <2>1, <2>2 DEF socketVars, lwipVars, TypeOK, SocketType
    <3>2. SdkType'
      BY <1>0, <2>1, <2>2 DEF socketVars, lwipVars, TypeOK, SdkType
    <3>3. LwipType'
      BY <1>0, <2>1, <2>2 DEF socketVars, lwipVars, TypeOK, LwipType
    <3> QED BY <3>1, <3>2, <3>3, <1>0, <2>1, <2>2 DEF socketVars, lwipVars, TypeOK
  <2>4. SegmentFits'
    BY <1>0, <2>2 DEF SegmentFits, lwipVars, Kinds
  <2> QED BY <1>0, <2>1, <2>2, <2>3, <2>4, KeepStep DEF socketVars, lwipVars
<1>5. CASE ReadCallRest
  <2>1. /\ pcb' \in PcbType /\ pcb'.arg = pcb.arg /\ pcb'.rxclosed = pcb.rxclosed
        /\ pcb'.state = pcb.state
    BY <1>0, <1>5, RecvedFacts DEF ReadCallRest, TypeOK, SocketType
  <2>2. /\ undefined' \in {"no", "pcb", "event"} /\ spc' = "idle"
        /\ read' = "data" /\ readEvent' = FALSE
        /\ UNCHANGED <<connectEvent, chain, offset, dangling, readLength,
                       remoteClosed, aborted, life, connect, lwipVars, established>>
    BY <1>5 DEF ReadCallRest
  <2>3. TypeOK'
    <3>1. SocketType'
      BY <1>0, <2>1, <2>2 DEF lwipVars, TypeOK, SocketType
    <3>2. SdkType'
      BY <1>0, <2>1, <2>2 DEF lwipVars, TypeOK, SdkType
    <3>3. LwipType'
      BY <1>0, <2>1, <2>2 DEF lwipVars, TypeOK, LwipType
    <3> QED BY <3>1, <3>2, <3>3, <1>0, <2>1, <2>2 DEF lwipVars, TypeOK
  <2>4. SegmentFits'
    BY <1>0, <2>2 DEF SegmentFits, lwipVars, Kinds
  <2> QED BY <1>0, <2>1, <2>2, <2>3, <2>4, KeepStep DEF lwipVars, Live
<1> QED BY <1>1, <1>2, <1>3, <1>4, <1>5 DEF SdkLocked

\* try_read's copy stays within the chain and the head pbuf.
LEMMA CopyFacts ==
  ASSUME SocketType, chain > 0, NEW len \in 1..2, Copy(len)
  PROVE  /\ chain' \in 0..ChainMax /\ chain' <= chain /\ offset' \in 0..1
         /\ readLength' \in 0..2 /\ dangling' \in BOOLEAN
<1>1. CASE len < 2 - offset
  BY <1>1, ChainMaxAssumption DEF SocketType, Copy
<1>2. CASE ~(len < 2 - offset)
  <2>1. chain' = chain - 1 /\ offset' = 0 /\ readLength' = len /\ dangling' = (chain > 1)
    BY <1>2 DEF Copy
  <2>2. dangling' \in BOOLEAN
    BY <2>1
  <2> QED BY <2>1, <2>2, ChainMaxAssumption DEF SocketType
<1> QED BY <1>1, <1>2

\* The SDK's calls up to the core lock, at any point of the lwIP thread.
LEMMA SdkCallSteps ==
  ASSUME IInv,
         \/ Create \/ ReadCall
         \/ \E call \in {"abort", "destroy", "connect", "write", "shutdown"} :
              CallLocked(call)
  PROVE  IInv'
<1>0. TypeOK /\ SegmentFits
  BY DEF IInv
<1>1. CASE Create
  <2>1. TypeOK'
    <3>1. 0 \in 0..ChainMax /\ 0 \in 0..1 /\ 0 \in 0..2
      BY ChainMaxAssumption
    <3>2. SocketType'
      BY <1>1, <3>1, Zenon DEF Create, SocketType
    <3>3. SdkType' /\ LwipType'
      BY <1>0, <1>1 DEF Create, TypeOK, SdkType, LwipType, lwipVars
    <3> QED BY <1>0, <1>1, <3>2, <3>3, FreedFacts DEF Create, TypeOK
  <2>2. cpc' = "idle" /\ ~cerr' /\ ~cfree' /\ spc' = spc /\ life' = "open"
    BY <1>1 DEF IInv, Create, lwipVars, ErrorMarked
  <2>3. SegmentFits' /\ ErrorMarked'
    BY <2>2 DEF SegmentFits, ErrorMarked, Kinds
  <2>4. PcbOwned' /\ FinRecorded' /\ FreedPcbIsKnown' /\ ConnectTruthful'
    BY <1>1, <2>2, FreedFacts
    DEF Create, PcbOwned, FinRecorded, FreedPcbIsKnown, ConnectTruthful, Heard, Live
  <2> QED BY <2>1, <2>3, <2>4 DEF IInv
<1>2. CASE ReadCall
  <2>1. SocketType' /\ chain' <= chain
    <3>1. /\ readEvent' \in BOOLEAN
          /\ UNCHANGED <<connectEvent, remoteClosed, aborted>>
      BY <1>0, <1>2 DEF ReadCall, TypeOK, SocketType
    <3>2. CASE chain > 0 /\ \E len \in 1..2 : Copy(len)
      BY <1>0, <3>1, <3>2, CopyFacts DEF TypeOK, SocketType
    <3>3. CASE UNCHANGED <<chain, offset, dangling, readLength>>
      BY <1>0, <3>1, <3>3, ChainMaxAssumption DEF TypeOK, SocketType
    <3> QED BY <1>2, <3>2, <3>3 DEF ReadCall
  <2>2. /\ read' \in {"in progress", "pending", "aborted", "eof"}
        /\ spc' \in {"idle", "recved"} /\ undefined' \in {undefined, "pbuf"}
        /\ life = "open" /\ undefined = "no"
        /\ UNCHANGED <<remoteClosed, aborted, life, connect, lwipVars, pcb, established>>
    BY <1>2 DEF ReadCall, Call
  <2>3. TypeOK'
    <3>1. SdkType' /\ LwipType'
      BY ZenonT(60), <1>0, <2>2 DEF TypeOK, SdkType, LwipType, lwipVars
    <3> QED BY <1>0, <2>1, <2>2, <3>1 DEF TypeOK
  <2>4. SegmentFits'
    <3>1. chain < ChainMax => chain' < ChainMax
      BY <1>0, <2>1, ChainMaxAssumption DEF TypeOK, SocketType
    <3> QED BY <1>0, <2>2, <3>1 DEF SegmentFits, lwipVars
  <2> QED BY <2>2, <2>3, <2>4, KeepStep DEF lwipVars, IInv, ErrorMarked
<1>3. ASSUME NEW call \in {"abort", "destroy", "connect", "write", "shutdown"},
             CallLocked(call)
      PROVE  IInv'
  <2>1. /\ connectEvent' \in BOOLEAN /\ spc' = call /\ life = "open"
        /\ UNCHANGED <<readEvent, chain, offset, dangling, readLength, remoteClosed,
                       aborted, life, connect, read, lwipVars, pcb, established,
                       undefined>>
    BY <1>0, <1>3 DEF CallLocked, Call, TypeOK, SocketType
  <2>2. TypeOK'
    <3>1. SocketType'
      BY <1>0, <2>1 DEF TypeOK, SocketType
    <3>2. SdkType'
      BY <1>0, <2>1 DEF TypeOK, SdkType
    <3>3. LwipType'
      BY <1>0, <2>1 DEF TypeOK, LwipType, lwipVars
    <3> QED BY <1>0, <2>1, <3>1, <3>2, <3>3 DEF TypeOK
  <2>3. SegmentFits'
    BY <1>0, <2>1 DEF SegmentFits, lwipVars
  <2> QED BY <2>1, <2>2, <2>3, KeepStep DEF lwipVars, IInv, ErrorMarked
<1> QED BY <1>1, <1>2, <1>3

-----------------------------------------------------------------------------
\* The two outcomes of the error callback.
LEMMA ErrFacts ==
  ASSUME NEW hasSocket \in BOOLEAN, NEW frees \in BOOLEAN,
         ErrCallback(hasSocket, frees), LwipType
  PROVE  /\ hasSocket => /\ aborted' = TRUE /\ cpc' = "read" /\ cerr' = TRUE
                         /\ cfree' = frees /\ undefined' = undefined
         /\ ~hasSocket => /\ undefined' = "socket" /\ aborted' = aborted
                          /\ cpc' = cpc /\ cerr' = cerr /\ cfree' = cfree
         /\ LwipType'
  BY DEF ErrCallback, LwipType

\* The lwIP thread enters the core for a segment or a timer.
LEMMA EnterSteps ==
  ASSUME IInv,
         \/ \E seg \in Kinds : Input(seg)
         \/ Timeout \/ TimeWaitOver \/ ClosePending
  PROVE  IInv'
<1>0. /\ TypeOK /\ SocketType /\ SdkType /\ LwipType
      /\ pcb \in PcbType /\ pcb.arg \in BOOLEAN
      /\ undefined = "no" /\ cpc = "idle" /\ spc = "idle" /\ ~cerr /\ ~cfree
  BY DEF IInv, TypeOK, PcbType, Input, Timeout, TimeWaitOver, ClosePending, Enter,
     ErrorMarked
<1>1. ASSUME NEW seg \in Kinds, Input(seg)
      PROVE  IInv'
  <2>1. /\ cpc' = seg /\ seg \in Segments(pcb) /\ (seg = "DATA" => chain < ChainMax)
        /\ UNCHANGED <<socketVars, sdkVars, pcb, established, cres, cerr, cfree,
                       undefined>>
    BY <1>1 DEF Input
  <2>2. TypeOK'
    <3>1. SocketType' /\ SdkType'
      BY ZenonT(40), <1>0, <2>1 DEF SocketType, SdkType, socketVars, sdkVars
    <3>2. LwipType'
      BY <1>0, <1>1, <2>1 DEF LwipType, Kinds
    <3> QED BY <1>0, <2>1, <3>1, <3>2 DEF TypeOK
  <2>3. SegmentFits'
    <3>1. chain' = chain /\ pcb' = pcb /\ seg # "append"
      BY <1>1, <2>1 DEF socketVars, Kinds
    <3> QED BY <2>1, <3>1 DEF SegmentFits
  <2> QED BY <1>0, <2>1, <2>2, <2>3, KeepStep DEF socketVars, sdkVars
<1>2. CASE Timeout
  <2>1. /\ pcb' = FreedPcb /\ ErrCallback(pcb.arg, FALSE)
        /\ UNCHANGED <<connectEvent, readEvent, chain, offset, dangling, readLength,
                       remoteClosed, sdkVars, established>>
    BY <1>2 DEF Timeout
  <2>2. life = "open" => pcb.arg
    BY <1>2 DEF IInv, PcbOwned, Timeout, MayTimeOut, Live
  <2>3. /\ pcb.arg => /\ aborted' = TRUE /\ cpc' = "read" /\ cerr' = TRUE
                      /\ cfree' = FALSE /\ undefined' = undefined
        /\ ~pcb.arg => /\ undefined' = "socket" /\ aborted' = aborted
                       /\ cpc' = cpc /\ cerr' = cerr /\ cfree' = cfree
        /\ LwipType'
    BY <1>0, <2>1, ErrFacts
  <2>4. TypeOK'
    <3>1. SocketType'
      BY <1>0, <2>1, <2>3 DEF SocketType
    <3>2. SdkType'
      BY <1>0, <2>1 DEF SdkType, sdkVars
    <3> QED BY <1>0, <2>1, <2>3, <3>1, <3>2, FreedFacts DEF TypeOK
  <2> QED BY <1>0, <2>1, <2>2, <2>3, <2>4, FreeStep DEF sdkVars, Kinds
<1>3. CASE TimeWaitOver
  <2>1. /\ pcb' = FreedPcb /\ pcb.state = "TIME_WAIT"
        /\ UNCHANGED <<socketVars, sdkVars, lwipVars, established, undefined>>
    BY <1>3 DEF TimeWaitOver
  <2>2. life = "open" => remoteClosed
    BY <2>1 DEF IInv, FinRecorded, Heard
  <2>3. TypeOK'
    <3>1. SocketType' /\ SdkType'
      BY ZenonT(40), <1>0, <2>1 DEF SocketType, SdkType, socketVars, sdkVars
    <3>2. LwipType'
      BY <1>0, <2>1 DEF LwipType, lwipVars
    <3> QED BY <1>0, <2>1, <3>1, <3>2, FreedFacts DEF TypeOK
  <2> QED
    BY <1>0, <2>1, <2>2, <2>3, FreeStep DEF socketVars, sdkVars, lwipVars, Kinds
<1>4. CASE ClosePending
  <2>1. PICK memory \in BOOLEAN :
          pcb' = CloseFin([pcb EXCEPT !.closepend = FALSE], memory)
    BY <1>4 DEF ClosePending
  <2>2. UNCHANGED <<socketVars, sdkVars, lwipVars, established, undefined>>
    BY <1>4 DEF ClosePending
  <2> DEFINE q == [pcb EXCEPT !.closepend = FALSE]
  <2>3. /\ q \in PcbType /\ q.arg = pcb.arg /\ q.rxclosed = pcb.rxclosed
        /\ q.state = pcb.state
    BY <1>0 DEF PcbType
  <2>4. /\ pcb' \in PcbType /\ pcb'.arg = q.arg /\ pcb'.rxclosed = q.rxclosed
        /\ (Live(pcb') <=> Live(q)) /\ (pcb'.state \in Heard => q.state \in Heard)
    BY <2>1, <2>3, CloseFinFacts
  <2>5. TypeOK'
    <3>1. SocketType' /\ SdkType'
      BY ZenonT(40), <1>0, <2>2 DEF SocketType, SdkType, socketVars, sdkVars
    <3>2. LwipType'
      BY <1>0, <2>2 DEF LwipType, lwipVars
    <3> QED BY <1>0, <2>2, <2>4, <3>1, <3>2 DEF TypeOK
  <2>6. SegmentFits'
    BY <1>0, <2>2 DEF SegmentFits, lwipVars, Kinds
  <2>7. /\ pcb'.arg = pcb.arg /\ pcb'.rxclosed = pcb.rxclosed
        /\ (Live(pcb') <=> Live(pcb)) /\ (pcb'.state \in Heard => pcb.state \in Heard)
    BY <2>3, <2>4 DEF Live
  <2> QED BY <1>0, <2>2, <2>5, <2>6, <2>7, KeepStep DEF socketVars, sdkVars, lwipVars
<1> QED BY <1>1, <1>2, <1>3, <1>4

\* tcp_input acts on the segment it was entered for.
LEMMA InputSteps ==
  ASSUME IInv,
         InputSynAck \/ InputData \/ InputFin \/ InputAck \/ InputOther \/ InputRst
  PROVE  IInv'
<1>0. /\ TypeOK /\ SocketType /\ SdkType /\ LwipType
      /\ pcb \in PcbType /\ pcb.arg \in BOOLEAN /\ pcb.rxclosed \in BOOLEAN
      /\ undefined = "no" /\ cpc \in Kinds /\ ~cerr /\ ~cfree
  BY DEF IInv, TypeOK, PcbType, InputSynAck, InputData, InputFin, InputAck,
     InputOther, InputRst, At, ErrorMarked, Kinds
<1>1. cpc \in Segments(pcb) /\ (cpc = "DATA" => chain < ChainMax)
  BY <1>0 DEF IInv, SegmentFits
<1>2. /\ Process(pcb, cpc) \in PcbType
      /\ Process(pcb, cpc).arg = pcb.arg
      /\ Process(pcb, cpc).rxclosed = pcb.rxclosed
      /\ Live(Process(pcb, cpc)) /\ Live(pcb)
      /\ Process(pcb, cpc).state \in Heard =>
           pcb.state \in Heard \/ cpc \in {"FIN", "FINACK"}
  BY <1>0, <1>1, ProcessFacts
<1>3. /\ pcb.arg <=> life = "open"
      /\ pcb.rxclosed <=> life = "destroyed"
      /\ spc # "idle" => life = "open"
  BY <1>2 DEF IInv, PcbOwned
<1>4. CASE InputSynAck
  <2>1. /\ cpc = "SYNACK" /\ pcb' = Process(pcb, cpc) /\ established' = TRUE
        /\ cpc' = "idle"
        /\ UNCHANGED <<socketVars, life, read, spc, cres, cerr, cfree, undefined>>
    BY <1>4 DEF InputSynAck, At
  <2>2. connect' \subseteq {"ok", "aborted", "error"}
    BY <1>0, <1>4 DEF InputSynAck, SdkType
  <2>3. TypeOK'
    <3>1. SocketType'
      BY <1>0, <2>1 DEF SocketType, socketVars
    <3>2. SdkType'
      BY <1>0, <2>1, <2>2 DEF SdkType
    <3>3. LwipType'
      BY <1>0, <2>1 DEF LwipType
    <3> QED BY <1>0, <1>2, <2>1, <3>1, <3>2, <3>3 DEF TypeOK
  <2>4. SegmentFits' /\ ErrorMarked'
    BY <1>0, <2>1 DEF SegmentFits, ErrorMarked, Kinds
  <2>5. PcbOwned'
    BY <1>2, <2>1 DEF IInv, PcbOwned, Live
  <2>6. FinRecorded' /\ FreedPcbIsKnown' /\ ConnectTruthful'
    BY <1>2, <2>1 DEF IInv, FinRecorded, FreedPcbIsKnown, ConnectTruthful, Live,
       socketVars
  <2> QED BY <2>3, <2>4, <2>5, <2>6 DEF IInv
<1>5. CASE InputData
  <2>1. /\ cpc = "DATA"
        /\ UNCHANGED <<connectEvent, readEvent, offset, dangling, readLength,
                       remoteClosed, sdkVars, established>>
    BY <1>5 DEF InputData, At
  <2>2. SdkType'
    BY <1>0, <2>1 DEF SdkType, sdkVars
  <2>3. CASE pcb.rxclosed
    <3>1. pcb' = FreedPcb /\ ErrCallback(pcb.arg, FALSE) /\ chain' = chain
      BY <1>5, <2>3 DEF InputData
    <3>2. /\ undefined' = "socket" /\ aborted' = aborted
          /\ cpc' = cpc /\ cerr' = cerr /\ cfree' = cfree /\ LwipType'
      BY <1>0, <1>3, <2>3, <3>1, ErrFacts
    <3>3. TypeOK'
      <4>1. SocketType'
        BY <1>0, <2>1, <3>1, <3>2 DEF SocketType
      <4> QED BY <1>0, <2>1, <2>2, <3>1, <3>2, <4>1, FreedFacts DEF TypeOK
    <3> QED BY <1>0, <1>3, <2>1, <2>3, <3>1, <3>2, <3>3, FreeStep DEF sdkVars
  <2>4. CASE ~pcb.rxclosed
    <3>1. /\ pcb' = Process(pcb, cpc)
          /\ \/ chain = 0 /\ chain' = 1 /\ cpc' = "read"
             \/ chain' = chain /\ cpc' = "append"
          /\ UNCHANGED <<aborted, cres, cerr, cfree, undefined>>
      BY <1>5, <2>1, <2>4 DEF InputData
    <3>2. TypeOK'
      <4>1. chain' \in 0..ChainMax
        BY <1>0, <1>1, <2>1, <3>1, ChainMaxAssumption DEF SocketType
      <4>2. SocketType'
        BY <1>0, <2>1, <3>1, <4>1 DEF SocketType
      <4>3. LwipType'
        BY <1>0, <3>1 DEF LwipType
      <4> QED BY <1>0, <1>2, <2>1, <2>2, <3>1, <4>2, <4>3 DEF TypeOK
    <3>3. SegmentFits'
      BY <1>1, <2>1, <3>1 DEF SegmentFits, Kinds
    <3> QED BY <1>0, <1>2, <1>3, <2>1, <3>1, <3>2, <3>3, KeepStep DEF sdkVars
  <2> QED BY <2>3, <2>4
<1>6. CASE InputFin
  <2>1. /\ pcb' = Process(pcb, cpc) /\ remoteClosed' = (remoteClosed \/ pcb.arg)
        /\ cpc' = "idle"
        /\ UNCHANGED <<connectEvent, readEvent, chain, offset, dangling, readLength,
                       aborted, sdkVars, established, cres, cerr, cfree, undefined>>
    BY <1>6 DEF InputFin, At
  <2>2. TypeOK'
    <3>1. SocketType'
      BY <1>0, <2>1 DEF SocketType
    <3>2. SdkType'
      BY <1>0, <2>1 DEF SdkType, sdkVars
    <3>3. LwipType'
      BY <1>0, <2>1 DEF LwipType
    <3> QED BY <1>0, <1>2, <2>1, <3>1, <3>2, <3>3 DEF TypeOK
  <2>3. SegmentFits' /\ ErrorMarked'
    BY <1>0, <2>1 DEF SegmentFits, ErrorMarked, Kinds
  <2>4. PcbOwned'
    BY <1>2, <2>1 DEF IInv, PcbOwned, Live, sdkVars
  <2>5. FinRecorded'
    BY <1>3, <2>1 DEF FinRecorded, sdkVars
  <2>6. FreedPcbIsKnown' /\ ConnectTruthful'
    BY <1>2, <2>1 DEF IInv, FreedPcbIsKnown, ConnectTruthful, Live, sdkVars
  <2> QED BY <2>2, <2>3, <2>4, <2>5, <2>6 DEF IInv
<1>7. CASE InputAck
  <2>1. /\ cpc = "ACK"
        /\ UNCHANGED <<socketVars, sdkVars, established, cres, undefined>>
    BY <1>7 DEF InputAck, At
  <2>2. SocketType' /\ SdkType'
    <3>1. SocketType'
      BY <1>0, <2>1 DEF SocketType, socketVars
    <3>2. SdkType'
      BY <1>0, <2>1 DEF SdkType, sdkVars
    <3> QED BY <3>1, <3>2
  <2>3. CASE pcb.state = "LAST_ACK" /\ pcb.rxclosed
    <3>1. pcb' = FreedPcb /\ cpc' = "idle" /\ UNCHANGED <<cerr, cfree>>
      BY <1>7, <2>3 DEF InputAck
    <3>2. LwipType'
      BY <1>0, <2>1, <3>1 DEF LwipType
    <3>3. TypeOK'
      BY <1>0, <2>1, <2>2, <3>1, <3>2, FreedFacts DEF TypeOK
    <3> QED BY <1>0, <1>3, <2>1, <2>3, <3>1, <3>3, FreeStep DEF sdkVars, Kinds
  <2>4. CASE pcb.state = "LAST_ACK" /\ ~pcb.rxclosed
    <3>1. cpc' = "read" /\ cerr' = TRUE /\ cfree' = TRUE /\ pcb' = pcb
      BY <1>7, <2>4 DEF InputAck
    <3>2. life = "open" /\ remoteClosed
      BY <1>2, <2>4 DEF IInv, PcbOwned, FinRecorded, Heard
    <3>3. LwipType'
      BY <1>0, <2>1, <3>1 DEF LwipType
    <3>4. TypeOK'
      BY <1>0, <2>1, <2>2, <3>1, <3>3 DEF TypeOK
    <3>5. SegmentFits' /\ ErrorMarked'
      BY <2>1, <3>1, <3>2 DEF SegmentFits, ErrorMarked, Kinds, socketVars
    <3>6. PcbOwned' /\ FinRecorded' /\ FreedPcbIsKnown' /\ ConnectTruthful'
      BY <2>1, <3>1
      DEF IInv, PcbOwned, FinRecorded, FreedPcbIsKnown, ConnectTruthful, Live,
          socketVars, sdkVars
    <3> QED BY <3>4, <3>5, <3>6 DEF IInv
  <2>5. CASE pcb.state # "LAST_ACK"
    <3>1. pcb' = Process(pcb, cpc) /\ cpc' = "idle" /\ UNCHANGED <<cerr, cfree>>
      BY <1>7, <2>1, <2>5 DEF InputAck
    <3>2. LwipType'
      BY <1>0, <2>1, <3>1 DEF LwipType
    <3>3. TypeOK'
      BY <1>0, <1>2, <2>1, <2>2, <3>1, <3>2 DEF TypeOK
    <3>4. SegmentFits'
      BY <3>1 DEF SegmentFits, Kinds
    <3> QED
      BY <1>0, <1>2, <1>3, <2>1, <3>1, <3>3, <3>4, KeepStep DEF socketVars, sdkVars
  <2> QED BY <1>0, <2>3, <2>4, <2>5
<1>8. CASE InputRst
  <2>1. /\ ErrCallback(pcb.arg, TRUE)
        /\ UNCHANGED <<connectEvent, readEvent, chain, offset, dangling, readLength,
                       remoteClosed, sdkVars, pcb, established>>
    BY <1>8 DEF InputRst
  <2>2. /\ pcb.arg => /\ aborted' = TRUE /\ cpc' = "read" /\ cerr' = TRUE
                      /\ cfree' = TRUE /\ undefined' = undefined
        /\ ~pcb.arg => /\ undefined' = "socket" /\ aborted' = aborted
                       /\ cpc' = cpc /\ cerr' = cerr /\ cfree' = cfree
        /\ LwipType'
    BY <1>0, <2>1, ErrFacts
  <2>3. TypeOK'
    <3>1. SocketType'
      BY <1>0, <2>1, <2>2 DEF SocketType
    <3>2. SdkType'
      BY <1>0, <2>1 DEF SdkType, sdkVars
    <3> QED BY <1>0, <2>1, <2>2, <3>1, <3>2 DEF TypeOK
  <2>4. SegmentFits' /\ ErrorMarked'
    BY <1>0, <2>2 DEF SegmentFits, ErrorMarked, Kinds
  <2>5. PcbOwned' /\ FinRecorded' /\ ConnectTruthful'
    BY <2>1 DEF IInv, PcbOwned, FinRecorded, ConnectTruthful, Live, sdkVars
  <2>6. FreedPcbIsKnown'
    BY <1>2, <2>1 DEF FreedPcbIsKnown, Live
  <2> QED BY <2>3, <2>4, <2>5, <2>6 DEF IInv
<1>9. CASE InputOther
  <2>1. /\ cpc' = "idle"
        /\ UNCHANGED <<socketVars, sdkVars, pcb, established, cres, cerr, cfree,
                       undefined>>
    BY <1>9 DEF InputOther
  <2>2. TypeOK'
    <3>1. SocketType'
      BY <1>0, <2>1 DEF SocketType, socketVars
    <3>2. SdkType'
      BY <1>0, <2>1 DEF SdkType, sdkVars
    <3>3. LwipType'
      BY <1>0, <2>1 DEF LwipType
    <3> QED BY <1>0, <2>1, <3>1, <3>2, <3>3 DEF TypeOK
  <2>3. SegmentFits'
    BY <2>1 DEF SegmentFits, Kinds
  <2> QED BY <1>0, <1>3, <2>1, <2>2, <2>3, KeepStep DEF socketVars, sdkVars
<1> QED BY <1>4, <1>5, <1>6, <1>7, <1>8, <1>9

\* pbuf_cat stays within the bound of the chain.
LEMMA AppendStep ==
  ASSUME IInv, AppendData
  PROVE  IInv'
<1>0. /\ TypeOK /\ SocketType /\ SdkType /\ LwipType /\ pcb \in PcbType
      /\ cpc = "append" /\ undefined = "no" /\ chain < ChainMax
  BY DEF IInv, TypeOK, AppendData, At, SegmentFits
<1>1. UNCHANGED <<connectEvent, readEvent, offset, dangling, readLength,
                  remoteClosed, aborted, sdkVars, pcb, established, cres, cerr,
                  cfree>>
  BY DEF AppendData
<1>2. \/ undefined' = "pbuf" /\ chain' = chain /\ cpc' = cpc
      \/ chain' = chain + 1 /\ cpc' = "read" /\ undefined' = undefined
  BY DEF AppendData
<1>3. TypeOK'
  <2>1. chain' \in 0..ChainMax
    BY <1>0, <1>2, ChainMaxAssumption DEF SocketType
  <2>2. SocketType'
    BY <1>0, <1>1, <2>1 DEF SocketType
  <2>3. SdkType'
    BY <1>0, <1>1 DEF SdkType, sdkVars
  <2>4. LwipType'
    BY <1>0, <1>1, <1>2 DEF LwipType
  <2> QED BY <1>0, <1>1, <1>2, <2>2, <2>3, <2>4 DEF TypeOK
<1>4. SegmentFits'
  BY <1>2 DEF SegmentFits, Kinds
<1>5. ~cerr /\ ~cfree /\ (spc' # "idle" => life = "open")
  BY <1>0, <1>1 DEF IInv, ErrorMarked, PcbOwned, sdkVars
<1> QED BY <1>1, <1>3, <1>4, <1>5, KeepStep DEF sdkVars

\* The end of a callback: try_connect reports no success it should not, and
\* a pcb that is freed has left its mark.
LEMMA DoneStep ==
  ASSUME IInv, At("read") \/ At("clear"), CallbackDone, SocketType',
         UNCHANGED <<remoteClosed, aborted, life, read, established, cres, undefined>>
  PROVE  IInv'
<1>0. TypeOK /\ SocketType /\ SdkType /\ LwipType /\ pcb \in PcbType
  BY DEF IInv, TypeOK
<1>1. /\ cpc' = "idle" /\ cerr' = FALSE /\ cfree' = FALSE /\ spc' \in {spc, "idle"}
      /\ pcb' = IF cfree THEN FreedPcb ELSE pcb
  BY DEF CallbackDone
<1>2. cerr \/ cfree => aborted \/ remoteClosed
  BY DEF IInv, ErrorMarked
<1>3. /\ connect' \subseteq {"ok", "aborted", "error"}
      /\ "ok" \in connect' => "ok" \in connect
  BY <1>0, <1>2 DEF CallbackDone, SdkType
<1>4. TypeOK'
  <2>1. SdkType'
    BY <1>0, <1>1, <1>3 DEF SdkType
  <2>2. LwipType'
    BY <1>0, <1>1 DEF LwipType
  <2> QED BY <1>0, <1>1, <2>1, <2>2, FreedFacts DEF TypeOK
<1>5. spc' # "idle" => life = "open"
  BY <1>1 DEF IInv, PcbOwned
<1>6. CASE cfree
  BY <1>1, <1>2, <1>3, <1>4, <1>5, <1>6, FreeStep DEF Kinds
<1>7. CASE ~cfree
  <2>1. pcb' = pcb /\ SegmentFits'
    BY <1>1, <1>7 DEF SegmentFits, Kinds
  <2> QED BY <1>1, <1>3, <1>4, <1>5, <2>1, KeepStep
<1> QED BY <1>6, <1>7

\* try_read in the callbacks.
LEMMA ReadSteps ==
  ASSUME IInv, ResultReady, ReadNothing \/ ReadStep \/ ReadResolve \/ ReadClear
  PROVE  IInv'
<1>0. TypeOK /\ SocketType /\ SdkType /\ LwipType /\ pcb \in PcbType
  BY DEF IInv, TypeOK
<1>1. CASE ReadNothing
  <2>1. SocketType'
    BY <1>0, <1>1 DEF ReadNothing, SocketType, socketVars
  <2> QED BY <1>1, <2>1, DoneStep DEF ReadNothing, socketVars
<1>2. CASE ReadClear
  <2>1. SocketType'
    BY <1>0, <1>2 DEF ReadClear, SocketType
  <2> QED BY <1>2, <2>1, DoneStep DEF ReadClear
<1>3. CASE ReadResolve
  <2>1. /\ cpc' = "clear" /\ cres' = "none" /\ read' = cres
        /\ UNCHANGED <<socketVars, life, connect, spc, pcb, established, cerr, cfree,
                       undefined>>
    BY <1>3 DEF ReadResolve
  <2>2. cpc = "resolve" /\ cres # "none"
    BY <1>3 DEF ReadResolve, At, ResultReady
  <2>3. TypeOK'
    <3>1. SocketType'
      BY <1>0, <2>1 DEF SocketType, socketVars
    <3>2. SdkType'
      BY <1>0, <2>1, <2>2 DEF SdkType, LwipType
    <3>3. LwipType'
      BY <1>0, <2>1 DEF LwipType
    <3> QED BY <1>0, <2>1, <3>1, <3>2, <3>3 DEF TypeOK
  <2>4. SegmentFits'
    BY <2>1 DEF SegmentFits, Kinds
  <2>5. spc' # "idle" => life = "open"
    BY <2>1 DEF IInv, PcbOwned
  <2> QED BY <2>1, <2>3, <2>4, <2>5, KeepStep DEF socketVars
<1>4. CASE ReadStep
  <2>1. /\ cpc = "read"
        /\ UNCHANGED <<connectEvent, readEvent, remoteClosed, aborted, sdkVars,
                       established, cerr, cfree>>
    BY <1>4 DEF ReadStep, At
  <2>2. /\ chain' \in 0..ChainMax /\ offset' \in 0..1 /\ dangling' \in BOOLEAN
        /\ readLength' \in 0..2
    <3>1. CASE chain > 0 /\ \E len \in 1..2 : Copy(len)
      BY <1>0, <3>1, CopyFacts
    <3>2. CASE UNCHANGED <<chain, offset, dangling, readLength>>
      BY <1>0, <3>2 DEF SocketType
    <3> QED BY <1>4, <3>1, <3>2 DEF ReadStep
  <2>3. /\ cpc' \in {"read", "resolve"} /\ cres' \in {cres, "data", "aborted", "eof"}
        /\ undefined' \in {undefined, "pbuf", "pcb", "no"}
        /\ pcb' \in {pcb, Recved(pcb, readLength')}
    BY <1>4, <2>1 DEF ReadStep
  <2>4. /\ pcb' \in PcbType /\ pcb'.state = pcb.state
        /\ pcb'.arg = pcb.arg /\ pcb'.rxclosed = pcb.rxclosed
    BY <1>0, <2>2, <2>3, RecvedFacts
  <2>5. TypeOK'
    <3>1. SocketType'
      BY <1>0, <2>1, <2>2 DEF SocketType
    <3>2. SdkType'
      BY <1>0, <2>1 DEF SdkType, sdkVars
    <3>3. LwipType'
      BY <1>0, <2>1, <2>3 DEF LwipType
    <3> QED BY <1>0, <2>1, <2>3, <2>4, <3>1, <3>2, <3>3 DEF TypeOK
  <2>6. SegmentFits'
    BY <2>3 DEF SegmentFits, Kinds
  <2>7. spc' # "idle" => life = "open"
    BY <2>1 DEF IInv, PcbOwned, sdkVars
  <2> QED BY SMTT(20), <2>1, <2>3, <2>4, <2>5, <2>6, <2>7, KeepStep DEF sdkVars, Live
<1> QED BY <1>1, <1>2, <1>3, <1>4

\* Only try_read leads to the resolution of a read, with its result.
LEMMA ResultStep == ResultReady /\ [Next]_vars => ResultReady'
<1> SUFFICES ASSUME ResultReady, [Next]_vars PROVE ResultReady'
  OBVIOUS
<1> USE DEF ResultReady, lwipVars
<1>1. CASE Create \/ ReadCall \/ ReadCallRest \/ Destroy \/ Connect \/ Write
           \/ ShutdownSend \/ TimeWaitOver \/ ClosePending \/ UNCHANGED vars
  BY <1>1 DEF Create, ReadCall, ReadCallRest, Destroy, Connect, Write, ShutdownSend,
     TimeWaitOver, ClosePending, vars
<1>2. CASE \E call \in {"abort", "destroy", "connect", "write", "shutdown"} :
             CallLocked(call)
  BY <1>2 DEF CallLocked
<1>3. CASE \E seg \in Kinds : Input(seg)
  BY SMTT(20), <1>3 DEF Input, Kinds
<1>4. CASE Abort \/ Timeout \/ InputRst \/ InputData
  BY <1>4 DEF Abort, Timeout, InputRst, InputData, ErrCallback
<1>5. CASE InputSynAck \/ InputFin \/ InputAck \/ InputOther \/ AppendData
  BY <1>5 DEF InputSynAck, InputFin, InputAck, InputOther, AppendData, At
<1>6. CASE ReadNothing \/ ReadResolve \/ ReadClear
  BY <1>6 DEF ReadNothing, ReadResolve, ReadClear, CallbackDone
<1>7. CASE ReadStep
  BY <1>7 DEF ReadStep, At
<1> QED BY <1>1, <1>2, <1>3, <1>4, <1>5, <1>6, <1>7
        DEF Next, SdkLocked, Callback

\* Every step preserves the invariant.
LEMMA NextIInv == IInv /\ ResultReady /\ [Next]_vars => IInv'
<1> SUFFICES ASSUME IInv, ResultReady, [Next]_vars PROVE IInv'
  OBVIOUS
<1>1. CASE Next
  BY <1>1, SdkCallSteps, SdkLockedSteps, EnterSteps, InputSteps, AppendStep,
     ReadSteps
  DEF Next, Callback
<1>2. CASE UNCHANGED vars
  <2>1. UNCHANGED <<socketVars, sdkVars, lwipVars, pcb, established, undefined>>
    BY <1>2 DEF vars
  <2>2. SocketType' /\ SdkType'
    <3>1. SocketType'
      BY <2>1 DEF IInv, TypeOK, SocketType, socketVars
    <3>2. SdkType'
      BY <2>1 DEF IInv, TypeOK, SdkType, sdkVars
    <3> QED BY <3>1, <3>2
  <2>3. LwipType'
    BY <2>1 DEF IInv, TypeOK, LwipType, lwipVars
  <2>4. TypeOK'
    BY <2>1, <2>2, <2>3 DEF IInv, TypeOK
  <2>5. SegmentFits'
    BY <2>1 DEF IInv, SegmentFits, lwipVars, socketVars
  <2>6. (spc' # "idle" => life = "open")
        /\ (cerr' \/ cfree' => (cerr \/ cfree) /\ cpc' \in {"read", "resolve", "clear"})
    BY <2>1 DEF IInv, PcbOwned, ErrorMarked, sdkVars, lwipVars
  <2> QED BY <2>1, <2>4, <2>5, <2>6, KeepStep DEF sdkVars, socketVars
<1> QED BY <1>1, <1>2

\* The inductive invariant, for every window and chain length.
THEOREM Inductive == Spec => [](IInv /\ ResultReady)
<1>1. Init => ResultReady
  BY DEF Init, ResultReady
<1> QED BY <1>1, InitIInv, NextIInv, ResultStep, PTL DEF Spec

\* The socket's and the pcb's fields keep their types: the window arithmetic
\* of tcp_recved and the offset arithmetic of try_read stay in range.
THEOREM TypeCorrect == Spec => []TypeOK
<1>1. IInv => TypeOK
  BY DEF IInv
<1> QED BY <1>1, Inductive, PTL

\* A socket is marked aborted or remoteClosed whenever lwIP has freed its pcb.
THEOREM FreedIsKnown == Spec => []FreedPcbIsKnown
<1>1. IInv => FreedPcbIsKnown
  BY DEF IInv
<1> QED BY <1>1, Inductive, PTL

\* A connect is reported as successful only after the handshake.
THEOREM ConnectIsTruthful == Spec => []ConnectTruthful
<1>1. IInv => ConnectTruthful
  BY DEF IInv
<1> QED BY <1>1, Inductive, PTL

-----------------------------------------------------------------------------
\* The strengthening: the callback that has resolved a read, and will clear
\* it, is the one that found it stored, and it has an open socket.
ReadInv ==
  /\ PendingReadIsStored
  /\ read = "pending" => cpc # "clear"
  /\ cpc \in {"resolve", "clear"} => readEvent
  /\ cpc \in {"append", "read", "resolve", "clear"} => life = "open"

\* What must have happened before the behaviour is undefined: the SDK uses a
\* freed pcb only on a socket that is marked, the error callback finds no
\* socket only after its destroy, and a null event is resolved only for a read
\* that has completed.
UndefinedHasCause ==
  [][undefined = "no" =>
       /\ undefined' = "pcb" => aborted \/ remoteClosed
       /\ undefined' = "socket" => life = "destroyed"
       /\ undefined' = "event" => read # "pending"]_vars

\* Nothing is read or called back before the first socket is created.
LEMMA InitRead == Init => ReadInv
BY SMTT(30) DEF Init, ReadInv, PendingReadIsStored

\* Every step keeps a pending read stored.
LEMMA StepRead == IInv /\ ReadInv /\ [Next]_vars => ReadInv'
<1> SUFFICES ASSUME IInv, ReadInv, [Next]_vars PROVE ReadInv'
  OBVIOUS
<1>0. /\ TypeOK /\ SdkType /\ LwipType /\ PcbOwned
      /\ pcb.arg \in BOOLEAN /\ pcb.rxclosed \in BOOLEAN
  BY DEF IInv, TypeOK, PcbType
<1> USE DEF ReadInv, PendingReadIsStored
<1>1. CASE Create
  BY <1>1 DEF Create, lwipVars
<1>2. CASE ReadCall
  <2>1. cpc' = cpc /\ life' = life /\ life = "open"
    BY <1>2 DEF ReadCall, Call, lwipVars
  <2>2. CASE readEvent /\ read' = "in progress" /\ readEvent' = readEvent
    BY <2>1, <2>2
  <2>3. CASE ~readEvent /\ readEvent' = TRUE /\ read' = "pending"
    BY <2>1, <2>3
  <2>4. CASE ~readEvent /\ readEvent' = readEvent /\ read' \in {"aborted", "eof"}
    BY <2>1, <2>4
  <2> QED BY <1>2, <2>2, <2>3, <2>4 DEF ReadCall
<1>3. CASE \E call \in {"abort", "destroy", "connect", "write", "shutdown"} :
             CallLocked(call)
  BY <1>3 DEF CallLocked, lwipVars
<1>4. CASE Destroy \/ Connect \/ Write \/ ShutdownSend \/ ReadCallRest
  BY <1>4 DEF Destroy, Connect, Write, ShutdownSend, ReadCallRest, Locked,
     socketVars, lwipVars
<1>5. CASE Abort
  <2>1. life = "open" /\ cpc = "idle" /\ cpc' \in {"idle", "read"}
        /\ UNCHANGED <<life, read, readEvent>>
    BY <1>0, <1>5 DEF Abort, Locked, ErrCallback, lwipVars, PcbOwned
  <2> QED BY <2>1
<1>6. CASE \E seg \in Kinds : Input(seg)
  <2>1. cpc' \in Kinds /\ UNCHANGED <<life, read, readEvent>>
    BY <1>6 DEF Input, socketVars, sdkVars
  <2> QED BY <2>1 DEF Kinds
<1>7. CASE Timeout \/ InputRst
  <2>1. Live(pcb) /\ cpc \notin {"resolve", "clear"}
    <3>1. CASE Timeout
      BY <3>1 DEF Timeout, Enter, MayTimeOut, Live
    <3>2. CASE InputRst
      BY <3>2 DEF InputRst, At, IInv, SegmentFits, Kinds, Segments, Live
    <3> QED BY <1>7, <3>1, <3>2
  <2>2. /\ cpc' = cpc \/ (cpc' = "read" /\ pcb.arg)
        /\ UNCHANGED <<life, read, readEvent>>
    <3>1. PICK frees \in BOOLEAN : ErrCallback(pcb.arg, frees)
      BY <1>7 DEF Timeout, InputRst
    <3>2. cpc' = cpc \/ (cpc' = "read" /\ pcb.arg)
      BY <1>0, <3>1, ErrFacts
    <3> QED BY <1>7, <3>2 DEF Timeout, InputRst, sdkVars
  <2>3. pcb.arg => life = "open"
    BY <1>0, <2>1 DEF PcbOwned
  <2> QED BY <2>1, <2>2, <2>3
<1>8. CASE InputData
  <2>1. Live(pcb) /\ cpc = "DATA"
    BY <1>8 DEF InputData, At, IInv, SegmentFits, Kinds, Segments, Live
  <2>2. /\ cpc' = cpc \/ (cpc' \in {"append", "read"} /\ (pcb.arg \/ ~pcb.rxclosed))
        /\ UNCHANGED <<life, read, readEvent>>
    <3>1. CASE pcb.rxclosed
      <4>1. ErrCallback(pcb.arg, FALSE)
        BY <1>8, <3>1 DEF InputData
      <4>2. cpc' = cpc \/ (cpc' = "read" /\ pcb.arg)
        BY <1>0, <4>1, ErrFacts
      <4> QED BY <1>8, <4>2 DEF InputData, sdkVars
    <3>2. CASE ~pcb.rxclosed
      BY <1>8, <3>2 DEF InputData, sdkVars
    <3> QED BY <1>0, <3>1, <3>2
  <2>3. pcb.arg \/ ~pcb.rxclosed => life = "open"
    BY <1>0, <2>1 DEF PcbOwned
  <2> QED BY <2>1, <2>2, <2>3
<1>9. CASE InputAck
  <2>1. Live(pcb) /\ cpc = "ACK"
    BY <1>9 DEF InputAck, At, IInv, SegmentFits, Kinds, Segments, Live
  <2>2. /\ cpc' = "idle" \/ (cpc' = "read" /\ ~pcb.rxclosed)
        /\ UNCHANGED <<life, read, readEvent>>
    <3>1. cpc' = "idle" \/ (cpc' = "read" /\ ~pcb.rxclosed)
      BY <1>0, <1>9 DEF InputAck
    <3> QED BY <1>9, <3>1 DEF InputAck, sdkVars, socketVars
  <2>3. ~pcb.rxclosed => life = "open"
    BY <1>0, <2>1 DEF PcbOwned
  <2> QED BY <2>2, <2>3
<1>10. CASE InputSynAck \/ InputFin \/ InputOther \/ TimeWaitOver \/ ClosePending
            \/ UNCHANGED vars
  <2>1. (cpc' = cpc \/ cpc' = "idle") /\ UNCHANGED <<life, read, readEvent>>
    BY <1>10 DEF InputSynAck, InputFin, InputOther, TimeWaitOver, ClosePending, vars,
       socketVars, sdkVars, lwipVars
  <2> QED BY <2>1
<1>11. CASE ReadNothing
  <2>1. cpc' = "idle" /\ UNCHANGED <<life, read, readEvent>>
    BY <1>11 DEF ReadNothing, CallbackDone, socketVars
  <2> QED BY <2>1
<1>12. CASE ReadStep
  <2>1. /\ cpc = "read" /\ readEvent /\ cpc' \in {"read", "resolve"}
        /\ UNCHANGED <<life, read, readEvent>>
    BY <1>12 DEF ReadStep, At, sdkVars
  <2> QED BY <2>1
<1>13. CASE ReadResolve
  <2>1. /\ cpc = "resolve" /\ cpc' = "clear" /\ read' # "pending"
        /\ UNCHANGED <<life, readEvent>>
    BY <1>0, <1>13 DEF ReadResolve, At, LwipType, socketVars
  <2> QED BY <2>1
<1>14. CASE ReadClear
  <2>1. cpc = "clear" /\ cpc' = "idle" /\ UNCHANGED <<life, read>>
    BY <1>14 DEF ReadClear, At, CallbackDone
  <2> QED BY <2>1
<1>15. CASE AppendData
  <2>1. cpc = "append" /\ cpc' \in {"append", "read"} /\ UNCHANGED <<life, read, readEvent>>
    BY <1>15 DEF AppendData, At, sdkVars
  <2> QED BY <2>1
<1> QED BY <1>1, <1>2, <1>3, <1>4, <1>5, <1>6, <1>7, <1>8, <1>9, <1>10, <1>11,
           <1>12, <1>13, <1>14, <1>15 DEF Next, SdkLocked, Callback

\* A pending read is never forgotten, whichever thread preempts the other.
THEOREM PendingReadStaysStored == Spec => []PendingReadIsStored
<1>1. ReadInv => PendingReadIsStored
  BY DEF ReadInv
<1> QED BY <1>1, Inductive, InitRead, StepRead, PTL DEF Spec

\* What a step that leads to undefined behaviour finds.
LEMMA CauseStep ==
  ASSUME IInv, ReadInv, [Next]_vars, undefined = "no"
  PROVE  /\ undefined' = "pcb" => aborted \/ remoteClosed
         /\ undefined' = "socket" => life = "destroyed"
         /\ undefined' = "event" => read # "pending"
<1>0. /\ LwipType /\ PcbOwned /\ FreedPcbIsKnown /\ dangling \in BOOLEAN
      /\ pcb.arg \in BOOLEAN /\ pcb.rxclosed \in BOOLEAN
      /\ life = "open" /\ ~Live(pcb) => aborted \/ remoteClosed
  BY DEF IInv, TypeOK, SocketType, PcbType, FreedPcbIsKnown
\* The calls that use the pcb under the core lock.
<1>1. CASE Abort \/ Destroy \/ Connect \/ Write \/ ShutdownSend
  <2>1. life = "open"
    BY <1>0, <1>1 DEF PcbOwned, Abort, Destroy, Connect, Write, ShutdownSend,
       Locked
  <2>2. undefined' = "no" \/ (undefined' = "pcb" /\ ~Live(pcb))
    <3>1. CASE Abort
      <4>1. CASE Live(pcb) /\ pcb.state # "TIME_WAIT"
        <5>1. ErrCallback(pcb.arg, FALSE) /\ pcb.arg
          BY <1>0, <2>1, <3>1, <4>1 DEF Abort, PcbOwned
        <5> QED BY <1>0, <5>1, ErrFacts
      <4>2. CASE ~(Live(pcb) /\ pcb.state # "TIME_WAIT")
        BY <3>1, <4>2 DEF Abort, UsesFreedPcb
      <4> QED BY <4>1, <4>2
    <3>2. CASE Destroy \/ Connect \/ Write \/ ShutdownSend
      BY <3>2 DEF Destroy, Connect, Write, ShutdownSend, UsesFreedPcb
    <3> QED BY <1>1, <3>1, <3>2
  <2> QED BY <1>0, <2>1, <2>2
\* try_read in the SDK's thread, before and under the lock.
<1>2. CASE ReadCall
  <2>1. undefined' \in {"no", "pbuf"}
    BY <1>2 DEF ReadCall
  <2> QED BY <2>1
<1>3. CASE ReadCallRest
  <2>1. life = "open"
    BY <1>0, <1>3 DEF PcbOwned, ReadCallRest, Locked
  <2>2. \/ undefined' = "no" \/ (undefined' = "pcb" /\ ~Live(pcb))
        \/ undefined' = "event" /\ ~readEvent
    BY <1>3 DEF ReadCallRest
  <2> QED BY <1>0, <2>1, <2>2 DEF ReadInv, PendingReadIsStored
\* try_read in a callback.
<1>4. CASE ReadStep
  <2>1. life = "open"
    BY <1>4 DEF ReadStep, At, ReadInv
  <2>2. \/ undefined' = "no" \/ (undefined' = "pcb" /\ ~Live(pcb))
        \/ undefined' = "pbuf"
    BY <1>4 DEF ReadStep
  <2> QED BY <1>0, <2>1, <2>2
\* The error callback.
<1>5. CASE Timeout \/ InputRst
  <2>1. Live(pcb)
    <3>1. CASE Timeout
      BY <3>1 DEF Timeout, Enter, MayTimeOut, Live
    <3>2. CASE InputRst
      BY <3>2 DEF InputRst, At, IInv, SegmentFits, Kinds, Segments, Live
    <3> QED BY <1>5, <3>1, <3>2
  <2>2. PICK frees \in BOOLEAN : ErrCallback(pcb.arg, frees)
    BY <1>5 DEF Timeout, InputRst
  <2>3. undefined' = "no" \/ (undefined' = "socket" /\ ~pcb.arg)
    BY <1>0, <2>2, ErrFacts
  <2> QED BY <1>0, <2>1, <2>3 DEF PcbOwned
<1>6. CASE InputData
  <2>1. Live(pcb)
    BY <1>6 DEF InputData, At, IInv, SegmentFits, Kinds, Segments, Live
  <2>2. CASE pcb.rxclosed
    <3>1. ErrCallback(pcb.arg, FALSE)
      BY <1>6, <2>2 DEF InputData
    <3>2. undefined' = "no" \/ (undefined' = "socket" /\ ~pcb.arg)
      BY <1>0, <3>1, ErrFacts
    <3> QED BY <1>0, <2>1, <3>2 DEF PcbOwned
  <2>3. CASE ~pcb.rxclosed
    <3>1. undefined' = "no"
      BY <1>6, <2>3 DEF InputData
    <3> QED BY <3>1
  <2> QED BY <1>0, <2>2, <2>3
\* The other steps.
<1>7. CASE undefined' = "no"
  BY <1>7
<1>8. CASE \/ Create \/ InputSynAck \/ InputFin \/ InputAck \/ InputOther
           \/ ReadNothing \/ ReadResolve \/ ReadClear \/ TimeWaitOver \/ ClosePending
           \/ UNCHANGED vars
  BY <1>7, <1>8 DEF Create, InputSynAck, InputFin, InputAck, InputOther, ReadNothing,
     ReadResolve, ReadClear, TimeWaitOver, ClosePending, vars
<1>9. CASE \E call \in {"abort", "destroy", "connect", "write", "shutdown"} :
             CallLocked(call)
  BY <1>7, <1>9 DEF CallLocked
<1>10. CASE \E seg \in Kinds : Input(seg)
  BY <1>7, <1>10 DEF Input
<1>11. CASE AppendData
  <2>1. undefined' \in {"no", "pbuf"}
    BY <1>11 DEF AppendData
  <2> QED BY <2>1
<1> QED BY <1>1, <1>2, <1>3, <1>4, <1>5, <1>6, <1>8, <1>9, <1>10, <1>11
        DEF Next, SdkLocked, Callback

\* What the three kinds of undefined behaviour other than the use of a freed
\* pbuf presuppose, whatever the interleaving.
THEOREM UndefinedIsExplained == Spec => UndefinedHasCause
<1>1. IInv /\ ReadInv /\ [Next]_vars =>
        [undefined = "no" =>
           /\ undefined' = "pcb" => aborted \/ remoteClosed
           /\ undefined' = "socket" => life = "destroyed"
           /\ undefined' = "event" => read # "pending"]_vars
  BY CauseStep
<1> QED BY <1>1, Inductive, InitRead, StepRead, PTL DEF Spec, UndefinedHasCause

\* As long as a second segment never arrives before the first is read, the
\* socket never touches a freed or a null pbuf, although its two threads
\* share inBuffer without a lock: the receive callback only ever fills an
\* empty inBuffer, and try_read only ever frees a chain of one.
OneSegment == InBufferLive /\ undefined # "pbuf" /\ cpc # "append"

THEOREM OneSegmentIsLive ==
  ASSUME ChainMax <= 1
  PROVE  Spec => [](InBufferLive /\ undefined # "pbuf")
<1>1. Init => OneSegment
  BY DEF Init, InBufferLive, OneSegment
<1>2. IInv /\ OneSegment /\ [Next]_vars => OneSegment'
  <2> SUFFICES ASSUME IInv, OneSegment, [Next]_vars PROVE OneSegment'
    OBVIOUS
  <2> USE DEF OneSegment, InBufferLive
  <2>1. /\ chain \in 0..ChainMax /\ ~(chain > 1)
        /\ LwipType /\ pcb.arg \in BOOLEAN
    BY ChainMaxAssumption DEF IInv, TypeOK, SocketType, PcbType
  <2>2. ASSUME NEW len, Copy(len) PROVE ~dangling'
    BY <2>1, <2>2 DEF Copy
  <2>3. CASE ReadCall
    <3>1. \/ dangling' = dangling /\ undefined' = undefined
          \/ (\E len \in 1..2 : Copy(len)) /\ undefined' = undefined
      BY <2>3 DEF ReadCall
    <3>2. ~dangling' /\ undefined' # "pbuf"
      BY <2>2, <3>1
    <3> QED BY <2>3, <3>2 DEF ReadCall, lwipVars
  <2>4. CASE ReadStep
    BY <2>2, <2>4 DEF ReadStep
  <2>5. CASE Abort
    <3>1. undefined' # "pbuf" /\ cpc' # "append"
      BY <2>5 DEF Abort, ErrCallback, UsesFreedPcb, lwipVars
    <3> QED BY <2>5, <3>1 DEF Abort
  <2>6. CASE Destroy \/ Connect \/ Write \/ ShutdownSend \/ ReadCallRest
    BY <2>6 DEF Destroy, Connect, Write, ShutdownSend, ReadCallRest, UsesFreedPcb,
       socketVars, lwipVars
  <2>7. CASE InputData
    <3>1. chain = 0
      BY <2>1, <2>7, ChainMaxAssumption DEF InputData, At, IInv, SegmentFits
    <3>2. undefined' # "pbuf" /\ cpc' # "append"
      BY <2>7, <3>1 DEF InputData, ErrCallback
    <3> QED BY <2>7, <3>2 DEF InputData
  <2>8. CASE InputSynAck \/ InputFin \/ InputAck \/ InputOther \/ AppendData
    BY <2>8 DEF InputSynAck, InputFin, InputAck, InputOther, AppendData, At,
       socketVars
  <2>9. CASE Timeout \/ InputRst
    <3>0. PICK frees \in BOOLEAN : ErrCallback(pcb.arg, frees)
      BY <2>9 DEF Timeout, InputRst
    <3>1. undefined' # "pbuf" /\ cpc' # "append"
      BY <2>1, <3>0, ErrFacts
    <3>2. dangling' = dangling
      <4>1. CASE Timeout
        BY <4>1 DEF Timeout
      <4>2. CASE InputRst
        BY <4>2 DEF InputRst
      <4> QED BY <2>9, <4>1, <4>2
    <3> QED BY <3>1, <3>2
  <2>10. CASE ReadNothing \/ ReadResolve \/ ReadClear
    BY <2>10 DEF ReadNothing, ReadResolve, ReadClear, CallbackDone, socketVars
  <2>11. CASE Create \/ TimeWaitOver \/ ClosePending \/ UNCHANGED vars
    BY <2>11 DEF Create, TimeWaitOver, ClosePending, vars, socketVars, lwipVars
  <2>12. CASE \/ \E call \in {"abort", "destroy", "connect", "write", "shutdown"} :
                   CallLocked(call)
              \/ \E seg \in Kinds : Input(seg)
    BY <2>12 DEF CallLocked, Input, Kinds, socketVars, lwipVars
  <2> QED BY <2>3, <2>4, <2>5, <2>6, <2>7, <2>8, <2>9, <2>10, <2>11, <2>12
          DEF Next, SdkLocked, Callback
<1>3. OneSegment => InBufferLive /\ undefined # "pbuf"
  BY DEF OneSegment
<1> QED BY <1>1, <1>2, <1>3, Inductive, PTL DEF Spec
=============================================================================
