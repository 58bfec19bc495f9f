---------------------------- MODULE ResolverSpec ----------------------------
(***************************************************************************)
(* What the SDK expects of its DNS functions: a request that was handed    *)
(* over is completed exactly once, with the address of what it asked for   *)
(* or with an error, and it is completed in the end.                       *)
(***************************************************************************)
CONSTANTS
  Requests,   \* the SDK's completion events
  Questions,  \* a name and an address type
  Nothing     \* no question; no address, the outcome NABTO_EC_UNKNOWN

VARIABLES
  evt,     \* evt[r]: "idle" or "pending"
  ask,     \* ask[r]: the question of r while it is pending
  answer   \* answer[r]: the outcome of r's latest request once completed

vars == <<evt, ask, answer>>

Init ==
  /\ evt = [r \in Requests |-> "idle"]
  /\ ask = [r \in Requests |-> Nothing]
  /\ answer = [r \in Requests |-> Nothing]

\* A request is handed over and left pending.
Ask(r, q) ==
  /\ evt[r] = "idle"
  /\ evt' = [evt EXCEPT ![r] = "pending"]
  /\ ask' = [ask EXCEPT ![r] = q]
  /\ answer' = [answer EXCEPT ![r] = Nothing]

\* A request is answered or refused at once.
AskNow(r, q) ==
  /\ evt[r] = "idle"
  /\ \E a \in {q, Nothing} : answer' = [answer EXCEPT ![r] = a]
  /\ UNCHANGED <<evt, ask>>

\* The pending requests S are completed together.
Complete(S) ==
  /\ S # {} /\ \A r \in S : evt[r] = "pending"
  /\ evt' = [r \in Requests |-> IF r \in S THEN "idle" ELSE evt[r]]
  /\ \/ answer' = [r \in Requests |-> IF r \in S THEN ask[r] ELSE answer[r]]
     \/ answer' = [r \in Requests |-> IF r \in S THEN Nothing ELSE answer[r]]
  /\ ask' = [r \in Requests |-> IF r \in S THEN Nothing ELSE ask[r]]

Next ==
  \/ \E r \in Requests, q \in Questions : Ask(r, q) \/ AskNow(r, q)
  \/ \E S \in SUBSET Requests : Complete(S)

Safety == Init /\ [][Next]_vars

EventuallyCompleted == \A r \in Requests : evt[r] = "pending" ~> evt[r] = "idle"

Spec == Safety /\ EventuallyCompleted
=============================================================================
