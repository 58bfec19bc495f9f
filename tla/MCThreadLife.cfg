SPECIFICATION Spec
CONSTANTS
  o1 = o1
  o2 = o2
  j1 = j1
  j2 = j2
  NoJoiner = nojoiner
  Objects <- MCObjects
  Joiners <- MCJoiners
INVARIANTS
  TypeOK
  OneCleaner
  JoinedThreadLeavesNothing
PROPERTIES
  TaskNotKilled
  JoinReturns
\* Every object is created, run, joined and freed once; then nothing is left to do.
CHECK_DEADLOCK FALSE
