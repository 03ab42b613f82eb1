\* One client, three requests of every kind, arriving and answered in pieces.
SPECIFICATION Spec
CONSTANTS
  c1 = c1
  c2 = c2
  NoClient = NoClient
  Clients = {c1}
  Requests <- MixedRequests
  HeaderSize = 2
  InitBufSize = 4
  MaxBufSize = 8
  Doublings = 2
  SockBuf = 4
  Backlog = 1
  StatusLen = 1
  PayloadLens = {1}
  MayFail = {c1}
  MaxServes = 1
  MaxRequests = 3
  MaxEvents = 1
INVARIANTS
  TypeOK
  WellFramed
  InSync
  OneReplyPerRequest
  WriteInterest
  BoundedBacklog
  EventsAskedFor
PROPERTIES
  StreamOnlyGrows
\* Peers may be gone, requests and events used up: the system may stop.
CHECK_DEADLOCK FALSE
