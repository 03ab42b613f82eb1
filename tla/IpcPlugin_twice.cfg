\* The display may end within the 100 ms of fini.
SPECIFICATION FairSpec
CONSTANTS
  Outputs = {o1}
  Clients = {p}
  MaxInits = 1
INVARIANTS
  TornDownOnce
\* The display is destroyed in the end.
CHECK_DEADLOCK FALSE
