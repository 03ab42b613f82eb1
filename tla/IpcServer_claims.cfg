\* Two clients and what the manual and the code say of the server.
SPECIFICATION Spec
CONSTANTS
  c1 = c1
  c2 = c2
  NoClient = NoClient
  Clients = {c1, c2}
  Requests <- ClaimRequests
  HeaderSize = 1
  InitBufSize = 3
  MaxBufSize = 6
  Doublings = 2
  SockBuf = 2
  Backlog = 1
  StatusLen = 1
  PayloadLens = {1}
  MayFail = {c1}
  MaxServes = 2
  MaxRequests = 2
  MaxEvents = 0
INVARIANTS
  SomeClaimHolds
\* Requests and events may be used up: the system may stop.
CHECK_DEADLOCK FALSE
