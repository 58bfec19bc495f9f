------------------------------- MODULE TcpPcb -------------------------------
(***************************************************************************)
(* The connection block of lwIP as this port uses it: active opens only.   *)
(* A pcb is a record; each operator is what an lwIP function makes of it.  *)
(* Sequence numbers, retransmission and congestion control are reduced to  *)
(* which segment kinds can be accepted in a state.                         *)
(***************************************************************************)
EXTENDS Naturals

CONSTANT Window   \* TCP_WND, in halves of a segment

ASSUME WindowAssumption == Window \in Nat

\* arg: tcp_arg and tcp_recv are set, otherwise both are NULL.  The error
\* callback stays set.  unread: TCP_WND - rcv_wnd.  wrote: data may be unacked.
NewPcb == [state |-> "CLOSED", rxclosed |-> FALSE, closepend |-> FALSE,
           arg |-> TRUE, wrote |-> FALSE, unread |-> 0]

FreedPcb == [NewPcb EXCEPT !.state = "free", !.arg = FALSE]

PcbStates == {"CLOSED", "SYN_SENT", "ESTABLISHED", "CLOSE_WAIT", "FIN_WAIT_1",
              "FIN_WAIT_2", "CLOSING", "LAST_ACK", "TIME_WAIT", "free"}

PcbType == [state : PcbStates, rxclosed : BOOLEAN, closepend : BOOLEAN,
            arg : BOOLEAN, wrote : BOOLEAN, unread : 0..Window]

Live(p) == p.state # "free"

-----------------------------------------------------------------------------
\* tcp_close_shutdown_fin; without memory for the FIN it is left to the timer.
CloseFin(p, memory) ==
  LET next == CASE p.state = "ESTABLISHED" -> "FIN_WAIT_1"
                [] p.state = "CLOSE_WAIT" -> "LAST_ACK"
                [] OTHER -> p.state
  IN  IF memory \/ next = p.state
        THEN [p EXCEPT !.state = next]
        ELSE [p EXCEPT !.closepend = TRUE]

\* tcp_close: unread data resets the connection and frees the pcb.
Close(p, memory) ==
  IF p.state \in {"ESTABLISHED", "CLOSE_WAIT"} /\ p.unread > 0 THEN FreedPcb
  ELSE IF p.state \in {"CLOSED", "SYN_SENT"} THEN FreedPcb
  ELSE CloseFin([p EXCEPT !.rxclosed = TRUE], memory)

\* tcp_shutdown of the sending side; refused in the other states.
Shutdown(p, memory) ==
  IF p.state \in {"ESTABLISHED", "CLOSE_WAIT"} THEN CloseFin(p, memory) ELSE p

\* tcp_recved.
Recved(p, len) ==
  [p EXCEPT !.unread = IF @ > len THEN @ - len ELSE 0]

-----------------------------------------------------------------------------
Kinds == {"SYNACK", "DATA", "FIN", "FINACK", "ACK", "RST", "OTHER"}

\* The kinds of segment that tcp_process acts on in the state of p.  ACK and
\* FINACK acknowledge our FIN; DATA fits the window; OTHER is any segment
\* that only restarts timers.
Segments(p) ==
  LET open == {"ESTABLISHED", "FIN_WAIT_1", "FIN_WAIT_2"}
  IN  (IF p.state = "SYN_SENT" THEN {"SYNACK"} ELSE {})
      \cup (IF p.state \in open /\ p.unread + 2 <= Window THEN {"DATA"} ELSE {})
      \cup (IF p.state \in open THEN {"FIN"} ELSE {})
      \cup (IF p.state = "FIN_WAIT_1" THEN {"FINACK"} ELSE {})
      \cup (IF p.state \in {"FIN_WAIT_1", "CLOSING", "LAST_ACK"} THEN {"ACK"} ELSE {})
      \cup (IF p.state \notin {"CLOSED", "TIME_WAIT", "free"} THEN {"RST"} ELSE {})
      \cup (IF p.state \notin {"CLOSED", "free"} THEN {"OTHER"} ELSE {})

\* tcp_process.  RST and the last ACK leave the state to tcp_input.
Process(p, seg) ==
  [p EXCEPT
     !.state = CASE seg = "SYNACK" -> "ESTABLISHED"
                 [] seg = "FIN" /\ @ = "ESTABLISHED" -> "CLOSE_WAIT"
                 [] seg = "FIN" /\ @ = "FIN_WAIT_1" -> "CLOSING"
                 [] seg = "FIN" /\ @ = "FIN_WAIT_2" -> "TIME_WAIT"
                 [] seg = "FINACK" -> "TIME_WAIT"
                 [] seg = "ACK" /\ @ = "FIN_WAIT_1" -> "FIN_WAIT_2"
                 [] seg = "ACK" /\ @ = "CLOSING" -> "TIME_WAIT"
                 [] OTHER -> @,
     !.unread = IF seg = "DATA" THEN @ + 2 ELSE @]

\* tcp_slowtmr removes a pcb whose retransmissions are used up or whose peer
\* does not answer the close; tcp_alloc does so to CLOSING and LAST_ACK when
\* it needs a pcb.
MayTimeOut(p) ==
  \/ p.state \in {"SYN_SENT", "FIN_WAIT_1", "CLOSING", "LAST_ACK"}
  \/ p.state = "FIN_WAIT_2" /\ p.rxclosed
  \/ p.state \in {"ESTABLISHED", "CLOSE_WAIT"} /\ p.wrote
=============================================================================
