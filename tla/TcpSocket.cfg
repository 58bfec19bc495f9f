SPECIFICATION Spec
CONSTANTS
  Window = 4
  ChainMax = 2
INVARIANTS
  TypeOK
  FreedPcbIsKnown
  ConnectTruthful
  PendingReadIsStored
PROPERTIES
  ConnectCompletes
  AbortCompletesRead
  PcbReclaimed
CHECK_DEADLOCK FALSE
