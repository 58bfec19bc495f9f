SPECIFICATION SafetySpec
CONSTANTS
  tcpip = tcpip
  app1 = app1
  app2 = app2
  lo = lo
  tap = tap
  NoThread = none
  Threads <- MCLwipOnly
  Netifs <- MCNetifs
  Tcpip = tcpip
  MaxDepth = 1
  MboxSize = 100
  InpktPool = 0
  ApiPool = 16
  LoopMax = 10
  ReplyMax = 18
INVARIANTS
  LoopbackNotStranded
