SPECIFICATION Spec
CONSTANTS
  p1 = p1
  p2 = p2
  e1 = e1
  e2 = e2
  NoPeer = nopeer
  NoEvent = noevent
  Peers <- MCPeers
  Events <- MCEvents
  PbufMax = 2
INVARIANTS
  TypeOK
  CallbackSocketLive
  StoredSenderMatches
  PendingIsReachable
  WaitResolvedOnce
  PbufsAccounted
PROPERTIES
  ArrivalCompletesWait
