\* Two outputs come and go; instances are made up to three times.
SPECIFICATION FairSpec
CONSTANTS
  Outputs = {o1, o2}
  Clients = {p, q}
  MaxInits = 3
INVARIANTS
  TypeOK
  WholeListsServed
PROPERTIES
  ListenersKept
  FirstTeardownSafe
  ClientsLetGo
\* The display is destroyed in the end.
CHECK_DEADLOCK FALSE
