SPECIFICATION Spec
CONSTANTS
  Devices = {d1, d2}
  PcbMax = 2
  PbufMax = 3
  UseMax = 4
INVARIANT
  PacketsFreed
CHECK_DEADLOCK FALSE
