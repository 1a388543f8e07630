\* One settings window and no file at first.
SPECIFICATION SettingsSpec
CONSTANTS
  Windows = {w1}
  Guides = {}
  Tray = tray
  Lengths = {0, 64, 128}
  Texts = {none, words}
  Empty = none
  Contents = {Missing}
  Missing = Missing
  Cut = Cut
  Odd = Odd
  None = None
  MaxEdits = 2
  MaxStarts = 2
INVARIANT EnabledContextIsUsed
CHECK_DEADLOCK FALSE
