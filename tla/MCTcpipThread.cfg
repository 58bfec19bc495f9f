SPECIFICATION Spec
CONSTANTS
  tcpip = tcpip
  app1 = app1
  app2 = app2
  lo = lo
  tap = tap
  NoThread = none
  Threads <- MCThreads
  Netifs <- MCNetifs
  Tcpip = tcpip
  MaxDepth = 2
  MboxSize = 4
  InpktPool = 2
  ApiPool = 2
  LoopMax = 2
  ReplyMax = 3
INVARIANTS
  TypeOK
  CoreExclusive
  CheckIsExact
  CountMatchesNesting
  PoolsBalance
  PostNeverRefused
PROPERTIES
  StrandedOnlyByOthers
  LoopbackPolled
  PacketsHandled
