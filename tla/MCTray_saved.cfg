SPECIFICATION LiveSpec
CONSTANTS
  Sessions <- OneSave
  WindowsFail = FALSE
  Launches = {l1}
  Settings = {s1, s2}
  Ui = Ui
  Setup = Setup
  Watcher = Watcher
  Legacy = Legacy
  None = None
PROPERTIES
  SavedSettingsTakeEffect
