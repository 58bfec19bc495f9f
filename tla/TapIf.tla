------------------------------- MODULE TapIf --------------------------------
(***************************************************************************)
(* The TAP interface: packets go through a linked list from the thread     *)
(* that produces them to the thread that consumes them, with no lock.  One *)
(* side is a pthread that runs in parallel with the FreeRTOS tasks.  The   *)
(* two lists share nothing; the model has one of them, of either direction *)
(* ("out": lwIP to the device, woken by an event; "in": device to lwIP,    *)
(* polled).  Every access to a shared field is a step.                     *)
(*                                                                         *)
(* Packets are numbered in the order they are pushed, and an element is    *)
(* named by its packet; 0 is NULL.  The use of NULL or freed memory sets   *)
(* undefined and stops the model.                                          *)
(***************************************************************************)
EXTENDS Integers

CONSTANTS
  Size,        \* list->size: 42
  MaxPackets   \* bound on the packets pushed

ASSUME SizeAssumption == Size \in Nat \ {0} /\ MaxPackets \in Nat

VARIABLES
  direction,           \* which of the two lists this is
  first, last, elems,  \* struct list
  next,                \* elem->next of every element pushed
  pushed,              \* the number of packets given an element
  taken,               \* the packet that was popped last
  ppc, preg,           \* the producer: its place in list_push, last or elems read
  cpc, celem, creg,    \* the consumer: its place in list_pop, elem, elems read
  event,               \* outEvent is signalled
  freed,               \* the elements list_pop has freed
  overlapped,          \* a push and a pop have been under way together
  undefined

listVars == <<first, last, elems, next, pushed>>
pushVars == <<ppc, preg>>
popVars == <<cpc, celem, creg, taken, freed>>
vars == <<direction, listVars, pushVars, popVars, event, overlapped, undefined>>

Packets == 1..MaxPackets

Idle == {"idle", "wait", "handle"}   \* the consumer is not in list_pop

\* list_new, and the threads of low_level_init at their start.
Init ==
  /\ direction \in {"out", "in"}
  /\ first = 0 /\ last = 0 /\ elems = 0
  /\ next = [p \in Packets |-> 0]
  /\ pushed = 0 /\ taken = 0
  /\ ppc = "idle" /\ preg = 0
  /\ cpc = (IF direction = "out" THEN "wait" ELSE "idle")
  /\ celem = 0 /\ creg = 0 /\ freed = {}
  /\ event = FALSE /\ overlapped = FALSE /\ undefined = FALSE

Producer(from, to) ==
  /\ ~undefined /\ ppc = from /\ ppc' = to
  /\ overlapped' = (overlapped \/ (to # "idle" /\ cpc \notin Idle))
  /\ UNCHANGED <<direction, popVars>>

Consumer(from, to) ==
  /\ ~undefined /\ cpc = from /\ cpc' = to
  /\ overlapped' = (overlapped \/ (to \notin Idle /\ ppc \notin {"idle", "signal"}))
  /\ UNCHANGED <<direction, pushVars>>

-----------------------------------------------------------------------------
\* list_push, entered by low_level_output or tapif_input: elems < size.
PushStart ==
  /\ Producer("idle", "last")
  /\ pushed < MaxPackets /\ elems < Size
  /\ pushed' = pushed + 1
  /\ UNCHANGED <<first, last, elems, next, preg, event, undefined>>

\* The list is full: the packet is freed and nothing else changes.
PushRefused ==
  /\ ~undefined /\ ppc = "idle" /\ elems >= Size
  /\ UNCHANGED vars

\* list->last is tested.
PushTestLast ==
  /\ Producer("last", IF last = 0 THEN "setlast" ELSE "link")
  /\ preg' = last
  /\ UNCHANGED <<listVars, event, undefined>>

\* list->last->next = elem, with list->last read again or not.
PushLink ==
  /\ Producer("link", "setlast")
  /\ \E l \in {preg, last} :
       IF l = 0 \/ l \in freed THEN undefined' = TRUE /\ UNCHANGED next
       ELSE next' = [next EXCEPT ![l] = pushed] /\ UNCHANGED undefined
  /\ preg' = 0
  /\ UNCHANGED <<first, last, elems, pushed, event>>

PushSetLast ==
  /\ Producer("setlast", "first")
  /\ last' = pushed
  /\ UNCHANGED <<first, elems, next, pushed, preg, event, undefined>>

PushTestFirst ==
  /\ Producer("first", IF first = 0 THEN "setfirst" ELSE "load")
  /\ UNCHANGED <<listVars, preg, event, undefined>>

PushSetFirst ==
  /\ Producer("setfirst", "load")
  /\ first' = pushed
  /\ UNCHANGED <<last, elems, next, pushed, preg, event, undefined>>

\* list->elems++ is a load and a store.
PushLoad ==
  /\ Producer("load", "store")
  /\ preg' = elems
  /\ UNCHANGED <<listVars, event, undefined>>

PushStore ==
  /\ Producer("store", IF direction = "out" THEN "signal" ELSE "idle")
  /\ elems' = preg + 1 /\ preg' = 0
  /\ UNCHANGED <<first, last, next, pushed, event, undefined>>

\* low_level_output signals the thread after the push.
Signal ==
  /\ Producer("signal", "idle")
  /\ event' = TRUE
  /\ UNCHANGED <<listVars, preg, undefined>>

-----------------------------------------------------------------------------
\* event_wait returns and resets the event; vTaskDelay returns.
Wake ==
  /\ Consumer("wait", "idle")
  /\ direction = "out" => event
  /\ event' = FALSE
  /\ UNCHANGED <<listVars, celem, creg, taken, freed, undefined>>

\* list_pop: list->elems > 0, otherwise NULL and the thread waits again.
PopStart ==
  /\ Consumer("idle", IF elems > 0 THEN "first" ELSE "wait")
  /\ UNCHANGED <<listVars, celem, creg, taken, freed, event, undefined>>

\* elem = list->first, whose next and data are read below: undefined when it
\* is NULL or was freed.
PopFirst ==
  /\ Consumer("first", "last")
  /\ celem' = first /\ undefined' = (first = 0 \/ first \in freed)
  /\ taken' = IF first = 0 THEN taken ELSE first
  /\ UNCHANGED <<listVars, creg, freed, event>>

\* Mutant of PopTestLast: last keeps pointing to the element taken.
PopForgetsLast ==
  /\ Consumer("last", "setfirst")
  /\ UNCHANGED <<listVars, celem, creg, taken, freed, event, undefined>>

PopTestLast ==
  /\ Consumer("last", IF celem = last THEN "setlast" ELSE "setfirst")
  /\ UNCHANGED <<listVars, celem, creg, taken, freed, event, undefined>>

PopSetLast ==
  /\ Consumer("setlast", "setfirst")
  /\ last' = next[celem]
  /\ UNCHANGED <<first, elems, next, pushed, celem, creg, taken, freed, event, undefined>>

PopSetFirst ==
  /\ Consumer("setfirst", "load")
  /\ first' = next[celem]
  /\ UNCHANGED <<last, elems, next, pushed, celem, creg, taken, freed, event, undefined>>

\* list->elems-- is a load and a store; then the element is freed.
PopLoad ==
  /\ Consumer("load", "store")
  /\ creg' = elems
  /\ UNCHANGED <<listVars, celem, taken, freed, event, undefined>>

\* Mutant of PopStore: the element is not freed.
PopLeaks ==
  /\ Consumer("store", "handle")
  /\ elems' = creg - 1 /\ creg' = 0 /\ celem' = 0
  /\ UNCHANGED <<first, last, next, pushed, taken, freed, event, undefined>>

PopStore ==
  /\ Consumer("store", "handle")
  /\ elems' = creg - 1 /\ creg' = 0 /\ celem' = 0
  /\ freed' = freed \cup {celem}
  /\ UNCHANGED <<first, last, next, pushed, taken, event, undefined>>

\* Mutant of SendPacket: one packet for every event.
SendOnce ==
  /\ direction = "out" /\ Consumer("handle", "wait")
  /\ UNCHANGED <<listVars, celem, creg, taken, freed, event, undefined>>

\* try_send_packet writes the packet and frees it, and is called again.
SendPacket ==
  /\ direction = "out" /\ Consumer("handle", "idle")
  /\ UNCHANGED <<listVars, celem, creg, taken, freed, event, undefined>>

\* freertos_thread copies the packet to a pbuf, frees it and gives the pbuf to
\* lwIP; when netif->input fails it frees the packet once more, and without
\* memory for a pbuf it passes NULL.
InputPacket ==
  /\ direction = "in" /\ Consumer("handle", "idle")
  /\ undefined' \in BOOLEAN
  /\ UNCHANGED <<listVars, celem, creg, taken, freed, event>>

Push ==
  \/ PushTestLast \/ PushLink \/ PushSetLast \/ PushTestFirst
  \/ PushSetFirst \/ PushLoad \/ PushStore \/ Signal

Pop ==
  \/ Wake \/ PopStart \/ PopFirst \/ PopTestLast \/ PopSetLast
  \/ PopSetFirst \/ PopLoad \/ PopStore \/ SendPacket \/ InputPacket

Next == PushStart \/ PushRefused \/ Push \/ Pop

\* Both threads run: one is the host's, the other has nothing above it that
\* does not block.
Fairness == WF_vars(Push) /\ WF_vars(Pop)

Spec == Init /\ [][Next]_vars /\ Fairness

-----------------------------------------------------------------------------
\* Whatever a push and a pop that overlap may lose, no packet is taken twice
\* or before one that was pushed earlier, as long as list_pop does not reach
\* an element that it has freed.
TakenInOrder ==
  [][celem' \notin {0, celem} /\ ~undefined' => celem' > taken]_vars

\* Losses come from overlap alone: between the calls of two threads that have
\* never overlapped, the list holds exactly the packets not yet taken, in
\* order, and elems, first and last agree with it.
ListIntact ==
  ~overlapped /\ cpc \in Idle /\ ppc \in {"idle", "signal"} =>
    /\ elems = pushed - taken
    /\ first = (IF elems = 0 THEN 0 ELSE taken + 1)
    /\ last = (IF elems = 0 THEN 0 ELSE pushed)
    /\ \A p \in Packets : p > taken /\ p < pushed => next[p] = p + 1

\* A packet in the list is taken in the end: the thread does not go to sleep
\* on it, unless an overlap has lost it or the behaviour is undefined.
AcceptedIsTaken ==
  pushed > taken ~> pushed = taken \/ overlapped \/ undefined
=============================================================================
