SPECIFICATION LiveSpec
CONSTANTS
  Sessions <- OneThingEach
  WindowsFail = TRUE
  Launches = {l1, l2}
  Settings = {s1, s2}
  Ui = Ui
  Setup = Setup
  Watcher = Watcher
  Legacy = Legacy
  None = None
PROPERTIES
  LoadingEnds
  EndIsNoticed
  ChangeReachesServer
