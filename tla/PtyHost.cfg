SPECIFICATION FairSpec
CONSTANTS
  Sessions = {s1, s2}
  Recycles = {r1, r2}
  MaxGen = 3
INVARIANT HostInv
PROPERTY ShutdownSettles
PROPERTY LedgerSpec
CHECK_DEADLOCK FALSE
