\* Lists of up to three commands in three worlds.
SPECIFICATION FairSpec
CONSTANTS
  term = term
  dialog = dialog
  player = player
  panel = panel
  none = none
  appx = appx
  appy = appy
  AllViews <- ViewList
  TopLevels <- Windows
  Parent <- Parents
  Above = {player}
  Raised = {player}
  NoView = none
  NumWorkspaces = 2
  Opaque = 4
  App <- AppIds
  Shell <- Shells
  Pid <- Pids
  Id <- Ids
  OutputId = 1
  ScratchId = 99
  Outputs = {"o"}
  Number <- Numbers
  Point <- Points
  Extent <- Extents
  Quarters <- Turns
  Modes <- Sizes
  Lists <- SomeLists
  Worlds <- SomeWorlds
  Configs <- PlainConfigs
INVARIANTS
  TypeOK
  Governed
  Reached
  ResultsTell
  OutputWordsConsumed
PROPERTIES
  FailureChangesNothing
  Ends
\* The list comes to its end.
CHECK_DEADLOCK FALSE
