SPECIFICATION Spec
CONSTANTS
  Window = 4
  ChainMax = 2
INVARIANTS
  InBufferLive
CHECK_DEADLOCK FALSE
