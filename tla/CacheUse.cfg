\* The pipe server is the only caller; three keys and a cache of two entries.
\* No symmetry: liveness is checked.
SPECIFICATION LiveUseSpec
CONSTANTS
  Callers = {c1}
  Keys = {k1, k2, k3}
  Worker = Worker
  None = None
  MozcOrder = MozcOrder
  Failed = Failed
  Settle = 1
  TTL = 1
  Size = 2
  MaxLag = 0
INVARIANTS
  BoundedDelay
PROPERTIES
  KeepsLastUsed
  LeavesQueueInTurn
  PendingSettles
  ImplementsLiveService
