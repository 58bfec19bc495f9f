---------------------------- MODULE MCNabtoCond -----------------------------
(* NabtoCond for TLC: two threads that wait and one that only signals.     *)
EXTENDS NabtoCond

CONSTANTS w1, w2, s1

MCWaiters == {w1, w2}
MCThreads == MCWaiters \cup {s1}
=============================================================================
