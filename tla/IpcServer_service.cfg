\* Two clients subscribe, tick and run commands that raise events; one may fail.
SPECIFICATION FairSpec
CONSTANTS
  c1 = c1
  c2 = c2
  NoClient = NoClient
  Clients = {c1, c2}
  Requests <- ServiceRequests
  HeaderSize = 2
  InitBufSize = 4
  MaxBufSize = 8
  Doublings = 2
  SockBuf = 4
  Backlog = 1
  StatusLen = 1
  PayloadLens = {1}
  MayFail = {c1}
  MaxServes = 1
  MaxRequests = 1
  MaxEvents = 1
INVARIANTS
  ListedAreOpen
PROPERTIES
  EventReachesSubscribers
  DeliverySpec
  RequestsGetReplies
\* Peers may be gone, requests and events used up: the system may stop.
CHECK_DEADLOCK FALSE
