SPECIFICATION Spec
CONSTANTS
  w1 = w1
  w2 = w2
  s1 = s1
  Threads <- MCThreads
  Waiters <- MCWaiters
  SemMax = 3
  WaitMax = 3
INVARIANTS
  TypeOK
  CountNeverUnderflows
  NoLostWakeup
PROPERTIES
  ImplementsCondSpec
  CasLoopsLockFree
