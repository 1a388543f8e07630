\* Every component by itself.
SPECIFICATION Spec
CONSTANTS
  Parts = {"settings", "pill", "numbers", "study", "training", "burst", "release"}
  Windows = {w1, w2}
  Guides = {g1}
  Tray = tray
  Lengths = {0, 64}
  Texts = {none}
  Empty = none
  Contents <- SomeContents
  Missing = Missing
  Cut = Cut
  Odd = Odd
  None = None
  MaxEdits = 1
  MaxStarts = 3
  NoCaret = NoCaret
  Screen <- SmallScreen
  Carets <- SomeCarets
  Cursors <- SomeCursors
  BurstKeys = {k1, k2}
  SettleSeconds = 2
  ForgetSeconds = 3
  MaxCalls = 3
  Scripts = {"distill", "residual", "ruri"}
  Batches = {1, 3, 4}
  Accums = {1, 2}
  Accuracies = {0, 1, 2}
  NoDirectory = NoDirectory
  HalfWritten = HalfWritten
  Epochs = 3
  MaxRestarts = 2
  MaxTime = 8
  Versions <- SomeVersions
  Labels = {"beta"}
  FileSets <- SomeFileSets
  Required = {"YamatanaAIIME.exe", "LICENSE"}
  Nothing = Nothing
  MaxRuns = 3
  Characters <- SomeCharacters
  Words <- SomeWords
  Phrases <- SomePhrases
  Abbreviations <- SomeAbbreviations
  NumericPrefixes <- SomePrefixes
  Studies <- SomeStudies
  Options <- SomeOptions
  Sentence <- SomeSentence
  Leads = {0, 1}
  Nobody = Nobody
INVARIANTS
  PillOnScreen
  SpellingsAgree
  StudySound
  TrainingSound
  ReleaseSound
PROPERTIES
  SavesAreOwn
  PillIsHidden
  RunsAreApart
CHECK_DEADLOCK FALSE
