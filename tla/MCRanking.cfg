\* Thirteen lists of candidates, eight contexts, 60 outcomes of the network.
SPECIFICATION Spec
CONSTANTS
  Hiragana = {"a", "b"}
  Katakana = {}
  Kanji <- AllKanji
  Capitals = {"C"}
  Latin = {"C", "1", "#"}
  Digits = {"1"}
  KanjiDigits = {"ichi"}
  Noise = {",", "."}
  Boundaries = {"."}
  Width <- WidthOf
  NaturalKana = {}
  KanjiOf <- KanjiNumbers
  Rules <- OneRule
  Endings = {}
  Past = "b"
  Dictionary = "a"
  WordsOf <- Words
  Affixes = {}
  Exp <- ExpTable
  Prior <- PriorTable
  Configs <- SomeConfigs
  GpuFiles <- FilesForGpu
  CpuFiles <- FilesForCpu
  Requests <- SomeRequests
  Models <- SomeModels
  RuleBonus <- KaoRule
  None = None
INVARIANTS
  TypeOK
  RepeatsKeepOrder
  OrderFollowsScores
  GateIsMonotone
  PromotedHasEvidence
  ContextIsOneSentence
