\* Two outputs, a view and up to three clients; the plugin is unloaded at any
\* time, and then the display goes.
SPECIFICATION TeardownSpec
CONSTANTS
  Clients = {a, b, c}
  MaxList = 3
  Outputs = {o1, o2}
  Views = {v1}
  Core = core
  NoOutput = none
INVARIANTS
  Outcome
  NoSignalMissed
  Released
PROPERTIES
  LoopsEnd
\* The display has gone.
CHECK_DEADLOCK FALSE
