------------------------------ MODULE TcpSocket -----------------------------
(***************************************************************************)
(* The TCP socket of nm_nabto_lwip_tcp.c on an lwIP connection block.  The *)
(* lwIP thread runs the callbacks under the core lock and is preempted by  *)
(* the SDK's thread, which has the higher priority: an SDK call runs up to *)
(* its lock, and past it once the lwIP thread has let go of the core.      *)
(*                                                                         *)
(* Where the code uses a freed pcb, a freed or null pbuf, a null socket or *)
(* a null event, undefined says which, and the model stops.                *)
(***************************************************************************)
EXTENDS TcpPcb, FiniteSets

CONSTANT ChainMax   \* bound on the pbufs of inBuffer

ASSUME ChainMaxAssumption == ChainMax \in Nat

VARIABLES
  life,          \* the SDK's socket: "none", "open" or "destroyed"
  pcb,           \* the connection block
  connectEvent,  \* socket->connectCompletionEvent is set
  readEvent,     \* socket->readCompletionEvent is set
  chain,         \* the number of pbufs in socket->inBuffer
  offset,        \* socket->inBufferOffset, in halves of a segment
  dangling,      \* socket->inBuffer points to a pbuf that was freed
  readLength,    \* *socket->readLength
  remoteClosed, aborted,
  connect,       \* what the connect event was resolved with, {} while pending
  read,          \* the SDK's read: "idle", "pending", or its result
  established,   \* the handshake has completed
  spc,           \* an SDK call waiting for the core lock
  cpc,           \* what the lwIP thread does in the core
  cres,          \* ec in its try_read
  cerr,          \* it is in the error callback
  cfree,         \* it frees the pcb after the callback
  undefined

socketVars == <<connectEvent, readEvent, chain, offset, dangling, readLength,
                remoteClosed, aborted>>
sdkVars == <<life, connect, read, spc>>
lwipVars == <<cpc, cres, cerr, cfree>>
vars == <<socketVars, sdkVars, lwipVars, pcb, established, undefined>>

Init ==
  /\ life = "none" /\ pcb = FreedPcb
  /\ connectEvent = FALSE /\ readEvent = FALSE
  /\ chain = 0 /\ offset = 0 /\ dangling = FALSE /\ readLength = 0
  /\ remoteClosed = FALSE /\ aborted = FALSE
  /\ connect = {} /\ read = "idle" /\ established = FALSE
  /\ spc = "idle"
  /\ cpc = "idle" /\ cres = "none" /\ cerr = FALSE /\ cfree = FALSE
  /\ undefined = "no"

\* The SDK's thread may make a call; the call that waits may take the lock.
Call == undefined = "no" /\ life = "open" /\ spc = "idle"

Locked(call) == undefined = "no" /\ spc = call /\ cpc = "idle"

\* The lwIP thread may enter the core; it is inside at point pc.
Enter == undefined = "no" /\ cpc = "idle" /\ spc = "idle"

At(pc) == undefined = "no" /\ cpc = pc

\* The SDK reaches the core with a pcb that lwIP has freed.
UsesFreedPcb == undefined' = IF Live(pcb) THEN undefined ELSE "pcb"

-----------------------------------------------------------------------------
\* nm_lwip_tcp_create.
Create ==
  /\ undefined = "no" /\ life # "open" /\ ~Live(pcb) /\ cpc = "idle"
  /\ life' = "open" /\ pcb' = NewPcb
  /\ connectEvent' = FALSE /\ readEvent' = FALSE
  /\ chain' = 0 /\ offset' = 0 /\ dangling' = FALSE /\ readLength' = 0
  /\ remoteClosed' = FALSE /\ aborted' = FALSE
  /\ connect' = {} /\ read' = "idle" /\ established' = FALSE
  /\ UNCHANGED <<spc, lwipVars, undefined>>

\* The calls that first lock the core.  connect stores its event before; the
\* SDK connects a socket once.
CallLocked(call) ==
  /\ Call /\ call \in {"abort", "destroy", "connect", "write", "shutdown"}
  /\ call = "connect" => ~connectEvent
  /\ connectEvent' = (connectEvent \/ call = "connect")
  /\ spc' = call
  /\ UNCHANGED <<readEvent, chain, offset, dangling, readLength, remoteClosed,
                 aborted, life, connect, read, lwipVars, pcb, established,
                 undefined>>

\* Mutant of ErrCallback: only a reset of an established connection counts.
ErrCallbackForgetsAbort(hasSocket, frees) ==
  /\ IF hasSocket
       THEN /\ aborted' = (aborted \/ established)
            /\ cpc' = "read" /\ cerr' = TRUE /\ cfree' = frees
            /\ UNCHANGED undefined
       ELSE /\ undefined' = "socket"
            /\ UNCHANGED <<aborted, cpc, cerr, cfree>>
  /\ UNCHANGED cres

\* TCP_EVENT_ERR with ERR_RST or ERR_ABRT; without a socket the callback
\* dereferences NULL.  What remains of the callback is in ReadStep.
ErrCallback(hasSocket, frees) ==
  /\ IF hasSocket
       THEN /\ aborted' = TRUE
            /\ cpc' = "read" /\ cerr' = TRUE /\ cfree' = frees
            /\ UNCHANGED undefined
       ELSE /\ undefined' = "socket"
            /\ UNCHANGED <<aborted, cpc, cerr, cfree>>
  /\ UNCHANGED cres

\* nm_lwip_tcp_abort: tcp_abandon frees the pcb, then calls back; in
\* TIME_WAIT it only frees it.  The callback runs in the SDK's thread, which
\* makes no other call until it has returned.
Abort ==
  /\ Locked("abort")
  /\ pcb' = FreedPcb
  /\ IF Live(pcb) /\ pcb.state # "TIME_WAIT"
       THEN spc' = "aborting" /\ ErrCallback(pcb.arg, FALSE)
       ELSE spc' = "idle" /\ UsesFreedPcb /\ UNCHANGED <<aborted, lwipVars>>
  /\ UNCHANGED <<connectEvent, readEvent, chain, offset, dangling, readLength,
                 remoteClosed, life, connect, read, established>>

\* Mutant of Destroy: the pcb is not closed.
DestroyWithoutClose ==
  /\ Locked("destroy")
  /\ UsesFreedPcb
  /\ pcb' = [pcb EXCEPT !.arg = FALSE]
  /\ life' = "destroyed" /\ spc' = "idle"
  /\ UNCHANGED <<socketVars, connect, read, lwipVars, established>>

\* nm_lwip_tcp_destroy: tcp_arg, tcp_recv, tcp_close, np_free.
Destroy ==
  /\ Locked("destroy")
  /\ UsesFreedPcb
  /\ \E memory \in BOOLEAN :
       pcb' = Close([pcb EXCEPT !.arg = FALSE], memory)
  /\ life' = "destroyed" /\ spc' = "idle"
  /\ UNCHANGED <<socketVars, connect, read, lwipVars, established>>

\* nm_lwip_tcp_async_connect: the SYN is sent, or the event resolved with an
\* error.  The event stays stored.
Connect ==
  /\ Locked("connect")
  /\ UsesFreedPcb
  /\ \/ /\ pcb.state = "CLOSED"
        /\ pcb' = [pcb EXCEPT !.state = "SYN_SENT"]
        /\ UNCHANGED connect
     \/ connect' = connect \cup {"error"} /\ UNCHANGED pcb
  /\ spc' = "idle"
  /\ UNCHANGED <<socketVars, life, read, lwipVars, established>>

\* nm_lwip_tcp_async_write: its event is resolved on every path; tcp_write
\* may take the data where the connection can still send.
Write ==
  /\ Locked("write")
  /\ UsesFreedPcb
  /\ \E taken \in BOOLEAN :
       /\ taken => pcb.state \in {"SYN_SENT", "ESTABLISHED", "CLOSE_WAIT"}
       /\ pcb' = [pcb EXCEPT !.wrote = @ \/ taken]
  /\ spc' = "idle"
  /\ UNCHANGED <<socketVars, life, connect, read, lwipVars, established>>

\* nm_lwip_tcp_shutdown.
ShutdownSend ==
  /\ Locked("shutdown")
  /\ UsesFreedPcb
  /\ \E memory \in BOOLEAN : pcb' = Shutdown(pcb, memory)
  /\ spc' = "idle"
  /\ UNCHANGED <<socketVars, life, connect, read, lwipVars, established>>

-----------------------------------------------------------------------------
\* Mutant of Copy: the offset is not reset for the next pbuf.
CopyKeepsOffset(len) ==
  /\ len \in 1..(2 - offset)
  /\ readLength' = len /\ offset' = offset + len
  /\ IF len < 2 - offset
       THEN UNCHANGED <<chain, dangling>>
       ELSE chain' = chain - 1 /\ dangling' = (chain > 1)

\* try_read copies len halves of the head pbuf.  A head that is read to its
\* end is freed with pbuf_free, which frees the pbufs chained to it as well.
Copy(len) ==
  /\ len \in 1..(2 - offset)
  /\ readLength' = len
  /\ IF len < 2 - offset
       THEN offset' = offset + len /\ UNCHANGED <<chain, dangling>>
       ELSE offset' = 0 /\ chain' = chain - 1 /\ dangling' = (chain > 1)

\* Mutant of ReadCall: a stored read is overwritten, not refused.
ReadCallOverwrites ==
  /\ Call /\ read # "pending"
  /\ \/ /\ chain = 0 /\ ~remoteClosed /\ ~aborted
        /\ readEvent' = TRUE /\ read' = "pending"
        /\ UNCHANGED <<chain, offset, dangling, readLength, spc, undefined>>
     \/ /\ chain > 0
        /\ readEvent' = TRUE /\ read' = "pending"
        /\ IF dangling
             THEN /\ undefined' = "pbuf"
                  /\ UNCHANGED <<chain, offset, dangling, readLength, spc>>
             ELSE /\ \E len \in 1..2 : Copy(len)
                  /\ spc' = "recved"
                  /\ UNCHANGED undefined
     \/ /\ chain = 0 /\ (aborted \/ remoteClosed)
        /\ read' = (IF aborted THEN "aborted" ELSE "eof") /\ readEvent' = FALSE
        /\ UNCHANGED <<chain, offset, dangling, readLength, spc, undefined>>
  /\ UNCHANGED <<connectEvent, remoteClosed, aborted, life, connect, lwipVars,
                 pcb, established>>

\* nm_lwip_tcp_async_read: refused while a read is stored.  Otherwise
\* try_read: nothing to return yet, data, or the end.
ReadCall ==
  /\ Call /\ read # "pending"
  /\ \/ /\ readEvent
        /\ read' = "in progress"
        /\ UNCHANGED <<readEvent, chain, offset, dangling, readLength, spc,
                       undefined>>
     \/ /\ ~readEvent /\ chain = 0 /\ ~remoteClosed /\ ~aborted
        /\ readEvent' = TRUE /\ read' = "pending"
        /\ UNCHANGED <<chain, offset, dangling, readLength, spc, undefined>>
     \/ /\ ~readEvent /\ chain > 0
        /\ readEvent' = TRUE /\ read' = "pending"
        /\ IF dangling
             THEN /\ undefined' = "pbuf"
                  /\ UNCHANGED <<chain, offset, dangling, readLength, spc>>
             ELSE /\ \E len \in 1..2 : Copy(len)
                  /\ spc' = "recved"
                  /\ UNCHANGED undefined
     \/ /\ ~readEvent /\ chain = 0 /\ (aborted \/ remoteClosed)
        /\ read' = IF aborted THEN "aborted" ELSE "eof"
        /\ UNCHANGED <<readEvent, chain, offset, dangling, readLength, spc,
                       undefined>>
  /\ UNCHANGED <<connectEvent, remoteClosed, aborted, life, connect, lwipVars,
                 pcb, established>>

\* The rest of that try_read, once it has the core lock.
ReadCallRest ==
  /\ Locked("recved")
  /\ undefined' = IF ~Live(pcb) THEN "pcb" ELSE IF readEvent THEN "no" ELSE "event"
  /\ pcb' = IF Live(pcb) THEN Recved(pcb, readLength) ELSE pcb
  /\ read' = "data" /\ readEvent' = FALSE
  /\ spc' = "idle"
  /\ UNCHANGED <<connectEvent, chain, offset, dangling, readLength, remoteClosed,
                 aborted, life, connect, lwipVars, established>>

-----------------------------------------------------------------------------
\* tcp_input finds the pcb for a segment.
Input(seg) ==
  /\ Enter /\ seg \in Segments(pcb)
  /\ seg = "DATA" => chain < ChainMax
  /\ cpc' = seg
  /\ UNCHANGED <<socketVars, sdkVars, pcb, established, cres, cerr, cfree,
                 undefined>>

\* nm_lwip_tcp_connected_callback: try_connect, then resolve again with OK.
InputSynAck ==
  /\ At("SYNACK")
  /\ pcb' = Process(pcb, "SYNACK") /\ established' = TRUE
  /\ connect' = connect \cup {"ok"}
       \cup (IF remoteClosed \/ aborted THEN {"aborted"} ELSE {})
  /\ cpc' = "idle"
  /\ UNCHANGED <<socketVars, life, read, spc, cres, cerr, cfree, undefined>>

\* Data for a closed receiver aborts the connection; otherwise
\* nm_lwip_tcp_recv_callback tests inBuffer.  An empty one is set to the new
\* pbuf: only this thread fills it.
InputData ==
  /\ At("DATA")
  /\ IF pcb.rxclosed
       THEN /\ pcb' = FreedPcb
            /\ ErrCallback(pcb.arg, FALSE)
            /\ UNCHANGED chain
       ELSE /\ pcb' = Process(pcb, "DATA")
            /\ IF chain = 0
                 THEN chain' = 1 /\ cpc' = "read"
                 ELSE cpc' = "append" /\ UNCHANGED chain
            /\ UNCHANGED <<aborted, cres, cerr, cfree, undefined>>
  /\ UNCHANGED <<connectEvent, readEvent, offset, dangling, readLength,
                 remoteClosed, sdkVars, established>>

\* The pbuf_cat that follows the test.  The SDK's try_read takes no lock and
\* may have freed the head since: pbuf_cat then gets a freed head, or NULL.
AppendData ==
  /\ At("append")
  /\ IF dangling \/ chain = 0
       THEN undefined' = "pbuf" /\ UNCHANGED <<chain, cpc>>
       ELSE chain' = chain + 1 /\ cpc' = "read" /\ UNCHANGED undefined
  /\ UNCHANGED <<connectEvent, readEvent, offset, dangling, readLength,
                 remoteClosed, aborted, sdkVars, pcb, established, cres, cerr,
                 cfree>>

\* Mutant of InputFin: the end of the stream is not recorded.
InputFinForgotten ==
  \E seg \in {"FIN", "FINACK"} :
    /\ At(seg)
    /\ pcb' = Process(pcb, seg)
    /\ cpc' = "idle"
    /\ UNCHANGED <<socketVars, sdkVars, established, cres, cerr, cfree,
                   undefined>>

\* The callback for the end of the stream does not try to read.  Without a
\* callback nothing is told.
InputFin ==
  \E seg \in {"FIN", "FINACK"} :
    /\ At(seg)
    /\ pcb' = Process(pcb, seg)
    /\ remoteClosed' = (remoteClosed \/ pcb.arg)
    /\ cpc' = "idle"
    /\ UNCHANGED <<connectEvent, readEvent, chain, offset, dangling,
                   readLength, aborted, sdkVars, established, cres, cerr, cfree,
                   undefined>>

\* The last ACK frees the pcb; ERR_CLSD is told if only the sending side was
\* shut down, and sets nothing.
InputAck ==
  /\ At("ACK")
  /\ IF pcb.state = "LAST_ACK"
       THEN IF pcb.rxclosed
              THEN pcb' = FreedPcb /\ cpc' = "idle" /\ UNCHANGED <<cerr, cfree>>
              ELSE cpc' = "read" /\ cerr' = TRUE /\ cfree' = TRUE /\ UNCHANGED pcb
       ELSE pcb' = Process(pcb, "ACK") /\ cpc' = "idle" /\ UNCHANGED <<cerr, cfree>>
  /\ UNCHANGED <<socketVars, sdkVars, established, cres, undefined>>

\* A segment that moves no state: tcp_process and tcp_timewait_input restart
\* timers, and nobody is called.
InputOther ==
  /\ At("OTHER")
  /\ cpc' = "idle"
  /\ UNCHANGED <<socketVars, sdkVars, pcb, established, cres, cerr, cfree,
                 undefined>>

\* A reset tells the error callback, then frees the pcb.
InputRst ==
  /\ At("RST")
  /\ ErrCallback(pcb.arg, TRUE)
  /\ UNCHANGED <<connectEvent, readEvent, chain, offset, dangling, readLength,
                 remoteClosed, sdkVars, pcb, established>>

\* tcp_slowtmr: the pcb is freed, then the error callback called.
Timeout ==
  /\ Enter /\ MayTimeOut(pcb)
  /\ pcb' = FreedPcb
  /\ ErrCallback(pcb.arg, FALSE)
  /\ UNCHANGED <<connectEvent, readEvent, chain, offset, dangling, readLength,
                 remoteClosed, sdkVars, established>>

\* tcp_slowtmr and tcp_kill_timewait: nobody is told.
TimeWaitOver ==
  /\ Enter /\ pcb.state = "TIME_WAIT"
  /\ pcb' = FreedPcb
  /\ UNCHANGED <<socketVars, sdkVars, lwipVars, established, undefined>>

\* tcp_fasttmr retries a FIN that had no memory.
ClosePending ==
  /\ Enter /\ pcb.closepend
  /\ \E memory \in BOOLEAN :
       pcb' = CloseFin([pcb EXCEPT !.closepend = FALSE], memory)
  /\ UNCHANGED <<socketVars, sdkVars, lwipVars, established, undefined>>

-----------------------------------------------------------------------------
\* Mutant of CallbackDone: the error callback forgets try_connect.
CallbackDoneNoConnect ==
  /\ pcb' = IF cfree THEN FreedPcb ELSE pcb
  /\ cpc' = "idle" /\ cerr' = FALSE /\ cfree' = FALSE
  /\ spc' = IF spc = "aborting" THEN "idle" ELSE spc
  /\ UNCHANGED connect

\* After try_read the error callback calls try_connect; lwIP then frees the
\* pcb if that is still to be done.
CallbackDone ==
  /\ connect' = connect \cup
       (IF ~cerr \/ ~connectEvent THEN {}
        ELSE IF remoteClosed \/ aborted THEN {"aborted"} ELSE {"ok"})
  /\ pcb' = IF cfree THEN FreedPcb ELSE pcb
  /\ cpc' = "idle" /\ cerr' = FALSE /\ cfree' = FALSE
  /\ spc' = IF spc = "aborting" THEN "idle" ELSE spc

\* Mutant of ReadNothing: the error callback does not look at a stored read.
ReadNothingOnError ==
  /\ At("read")
  /\ cerr \/ ~readEvent \/ (chain = 0 /\ ~remoteClosed /\ ~aborted)
  /\ CallbackDone
  /\ UNCHANGED <<socketVars, life, read, established, cres, undefined>>

\* try_read in a callback: no read is stored or nothing can be returned.
ReadNothing ==
  /\ At("read")
  /\ ~readEvent \/ (chain = 0 /\ ~remoteClosed /\ ~aborted)
  /\ CallbackDone
  /\ UNCHANGED <<socketVars, life, read, established, cres, undefined>>

\* try_read in a callback: data or the end.
ReadStep ==
  /\ At("read") /\ readEvent
  /\ \/ /\ chain > 0 /\ dangling
        /\ undefined' = "pbuf"
        /\ UNCHANGED <<chain, offset, dangling, readLength, pcb, cres, cpc>>
     \/ /\ chain > 0 /\ ~dangling
        /\ \E len \in 1..2 : Copy(len)
        /\ undefined' = IF Live(pcb) THEN "no" ELSE "pcb"
        /\ pcb' = IF Live(pcb) THEN Recved(pcb, readLength') ELSE pcb
        /\ cres' = "data" /\ cpc' = "resolve"
     \/ /\ chain = 0 /\ (remoteClosed \/ aborted)
        /\ cres' = IF aborted THEN "aborted" ELSE "eof"
        /\ cpc' = "resolve"
        /\ UNCHANGED <<chain, offset, dangling, readLength, pcb, undefined>>
  /\ UNCHANGED <<connectEvent, readEvent, remoteClosed, aborted, sdkVars,
                 established, cerr, cfree>>

\* The event is resolved first, and cleared after the SDK has had its turn.
ReadResolve ==
  /\ At("resolve")
  /\ read' = cres
  /\ cpc' = "clear" /\ cres' = "none"
  /\ UNCHANGED <<socketVars, life, connect, spc, pcb, established, cerr, cfree,
                 undefined>>

ReadClear ==
  /\ At("clear")
  /\ readEvent' = FALSE
  /\ CallbackDone
  /\ UNCHANGED <<connectEvent, chain, offset, dangling, readLength, remoteClosed,
                 aborted, life, read, established, cres, undefined>>

Callback ==
  InputSynAck \/ InputData \/ AppendData \/ InputFin \/ InputAck \/ InputOther
  \/ InputRst \/ ReadNothing \/ ReadStep \/ ReadResolve \/ ReadClear

SdkLocked ==
  Abort \/ Destroy \/ Connect \/ Write \/ ShutdownSend \/ ReadCallRest

Next ==
  \/ Create \/ ReadCall
  \/ \E call \in {"abort", "destroy", "connect", "write", "shutdown"} :
       CallLocked(call)
  \/ SdkLocked
  \/ \E seg \in Kinds : Input(seg)
  \/ Callback
  \/ Timeout \/ TimeWaitOver \/ ClosePending

\* The lwIP thread and a waiting SDK call go on.  No segment holds up the
\* limits of SYN_SENT and of FIN_WAIT_2.  The other timers count to theirs
\* only while the peer leaves the pcb alone: every segment restarts the
\* count of window probes, a FIN that of TIME_WAIT.  Memory for a FIN is
\* found at some time.
Fairness ==
  /\ WF_vars(Callback) /\ WF_vars(SdkLocked)
  /\ SF_vars(Timeout /\ pcb.state \in {"SYN_SENT", "FIN_WAIT_2"})
  /\ WF_vars(Timeout /\ pcb.state \notin {"ESTABLISHED", "CLOSE_WAIT"})
  /\ WF_vars(TimeWaitOver)
  /\ SF_vars(ClosePending /\ ~pcb'.closepend)

Spec == Init /\ [][Next]_vars /\ Fairness

-----------------------------------------------------------------------------
SocketType ==
  /\ connectEvent \in BOOLEAN /\ readEvent \in BOOLEAN
  /\ chain \in 0..ChainMax /\ offset \in 0..1 /\ dangling \in BOOLEAN
  /\ readLength \in 0..2 /\ remoteClosed \in BOOLEAN /\ aborted \in BOOLEAN

SdkType ==
  /\ life \in {"none", "open", "destroyed"}
  /\ connect \subseteq {"ok", "aborted", "error"}
  /\ read \in {"idle", "pending", "in progress", "data", "eof", "aborted"}
  /\ spc \in {"idle", "abort", "aborting", "destroy", "connect", "write",
              "shutdown", "recved"}

LwipType ==
  /\ cpc \in Kinds \cup {"idle", "append", "read", "resolve", "clear"}
  /\ cres \in {"none", "data", "eof", "aborted"}
  /\ cerr \in BOOLEAN /\ cfree \in BOOLEAN

TypeOK ==
  /\ SocketType /\ SdkType /\ LwipType
  /\ pcb \in PcbType /\ established \in BOOLEAN
  /\ undefined \in {"no", "pcb", "pbuf", "socket", "event"}

\* A socket whose pcb lwIP has freed carries a mark of it, whichever of
\* reset, abort, timeout, orderly close or the silent end of TIME_WAIT freed
\* it: aborted or remoteClosed is set before the SDK can reach the core.
FreedPcbIsKnown ==
  life = "open" /\ ~Live(pcb) => aborted \/ remoteClosed

\* The SDK is told that a connect succeeded only if the handshake completed,
\* although try_connect reads success off two flags being clear.
ConnectTruthful == "ok" \in connect => established

\* A connect that was started is answered, by the peer or by the timers,
\* unless the socket is destroyed or the behaviour is undefined.
ConnectCompletes ==
  connectEvent /\ life = "open"
    ~> connect # {} \/ life = "destroyed" \/ undefined # "no"

\* A read that waits when the connection is aborted is completed.
AbortCompletesRead ==
  aborted /\ read = "pending"
    ~> read # "pending" \/ life = "destroyed" \/ undefined # "no"

\* A read that the SDK waits for is still stored in the socket, so that a
\* callback can complete it: async_read refuses a read that a callback, still
\* holding the one before, would clear.
PendingReadIsStored == read = "pending" => readEvent

\* The pcb of a destroyed socket goes back to lwIP's pool, whatever state the
\* connection was in, unless the peer goes on for ever with segments that do
\* nothing but restart timers.
PcbReclaimed ==
  <>[](cpc # "OTHER")
    => (life = "destroyed" ~> ~Live(pcb) \/ undefined # "no")

\* socket->inBuffer is "pbuf or chain of pbufs with incoming tcp data": it
\* never points into memory that was given back.
InBufferLive == ~dangling
=============================================================================
