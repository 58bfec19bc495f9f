------------------------------ MODULE CondSpec ------------------------------
(***************************************************************************)
(* What a condition variable promises the Nabto SDK, independent of how    *)
(* nabto_device_threads_freertos.c implements it.  A signal that is given  *)
(* while more threads are blocked than wakeups are outstanding must leave  *)
(* one more wakeup behind; only when every blocked thread already has a    *)
(* wakeup coming may a signal do nothing.  Spurious wakeups are allowed,   *)
(* lost ones are not.                                                      *)
(***************************************************************************)
EXTENDS Naturals, FiniteSets

CONSTANT Threads

VARIABLES
  blocked,     \* threads inside a wait that have not been woken or timed out
  signalling,  \* threads inside a signal that has not taken effect
  grants       \* wakeups given and not yet consumed

vars == <<blocked, signalling, grants>>

Init ==
  /\ blocked = {}
  /\ signalling = {}
  /\ grants = 0

Wait(t) ==
  /\ t \notin blocked \cup signalling
  /\ blocked' = blocked \cup {t}
  /\ UNCHANGED <<signalling, grants>>

SignalCall(t) ==
  /\ t \notin blocked \cup signalling
  /\ signalling' = signalling \cup {t}
  /\ UNCHANGED <<blocked, grants>>

SignalGrant(t) ==
  /\ t \in signalling
  /\ signalling' = signalling \ {t}
  /\ grants' = grants + 1
  /\ UNCHANGED blocked

\* A signal may have no effect only if nobody who is blocked needs it.
SignalNobody(t) ==
  /\ t \in signalling
  /\ Cardinality(blocked) <= grants
  /\ signalling' = signalling \ {t}
  /\ UNCHANGED <<blocked, grants>>

Wake(t) ==
  /\ t \in blocked
  /\ grants > 0
  /\ blocked' = blocked \ {t}
  /\ grants' = grants - 1
  /\ UNCHANGED signalling

TimeOut(t) ==
  /\ t \in blocked
  /\ blocked' = blocked \ {t}
  /\ UNCHANGED <<signalling, grants>>

\* A wakeup that no blocked thread needs may evaporate.
DropExcess ==
  /\ Cardinality(blocked) < grants
  /\ grants' = grants - 1
  /\ UNCHANGED <<blocked, signalling>>

SomeWake == \E t \in Threads : Wake(t)

Next ==
  \/ \E t \in Threads :
       \/ Wait(t) \/ SignalCall(t) \/ SignalGrant(t) \/ SignalNobody(t)
       \/ Wake(t) \/ TimeOut(t)
  \/ DropExcess

\* Safety part: what the TLAPS proof shows of the implementation.
SafetySpec == Init /\ [][Next]_vars

\* A wakeup that is given while threads stay blocked reaches one of them.
Spec == SafetySpec /\ WF_vars(SomeWake)
=============================================================================
