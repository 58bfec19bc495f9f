---------------------------- MODULE MCThreadLife ----------------------------
(* ThreadLife for TLC: two threads, two callers of join.                   *)
EXTENDS ThreadLife

CONSTANTS o1, o2, j1, j2

MCObjects == {o1, o2}
MCJoiners == {j1, j2}
=============================================================================
