\* Two threads in rank() and the worker; a cache of one entry.
SPECIFICATION Spec
CONSTANTS
  Callers = {c1, c2}
  Keys = {k1, k2}
  Worker = Worker
  None = None
  MozcOrder = MozcOrder
  Failed = Failed
  Settle = 1
  TTL = 1
  Size = 1
  MaxLag = 1
SYMMETRY Symmetry
INVARIANTS
  TypeOK
  ModelSerialised
  CacheCoherent
  AnswerIsFresh
  NoRepeatedModelCall
  NoLostWakeup
PROPERTIES
  ImplementsService
