SPECIFICATION Spec
CONSTANTS
  a = a
  b = b
  c = c
  None = None
  Inputs <- MCInputs
  Limit = 2
  SupplementLimit = 1
INVARIANTS
  NoCandidateLost
  ReturnTellsChange
  ContextIsFinal
  RequestsAreChoices
  PlainPrefetchIsReused
PROPERTIES
  AnswerIsShown
