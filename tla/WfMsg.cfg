\* A subscriber, which may be killed or disconnected, and another process.
SPECIFICATION WfFairSpec
CONSTANTS
  c1 = c1
  c2 = c2
  NoClient = NoClient
  Clients = {c1, c2}
  Requests <- WfRequests
  Jobs <- SubscriberAndAsker
  HeaderSize = 2
  InitBufSize = 4
  MaxBufSize = 8
  Doublings = 2
  SockBuf = 3
  PeerBuf = 3
  Backlog = 1
  StatusLen = 1
  PayloadLens = {1}
  MayFail = {c1}
  MaxServes = 1
  MaxRequests = 1
  MaxEvents = 1
INVARIANTS
  Understood
  ExitTells
PROPERTIES
  IsAPeer
  Finishes
  TickReachesMonitors
\* The processes have ended and the server waits: the system may stop.
CHECK_DEADLOCK FALSE
