\* Two outputs that come and go.
SPECIFICATION Spec
CONSTANTS
  Outputs = {o1, o2}
INVARIANTS
  TypeOK
  WatchesWhenFree
  TimerRunsOrWoken
PROPERTIES
  SleepersWake
  InhibitorsStop
  IdleSparesDisabled
\* A command for one output among disabled ones is the end of the program.
CHECK_DEADLOCK FALSE
