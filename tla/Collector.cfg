SPECIFICATION FairSpec
CONSTANTS
  Requests = {r1, r2}
  Exported = {r1}
  Ticks = {t1}
  MaxPending = 1
  Window = 1
  Reconcile = 1
  MaxSize = 4
  MaxFaults = 2
INVARIANT CollectorInv
PROPERTY TokenTruth EveryLineCounted
