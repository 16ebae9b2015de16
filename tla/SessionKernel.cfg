SPECIFICATION FairSpec
CONSTANTS
  Sessions = {s1, s2}
  NoSession = NoSession
  ConcurrentCalls = FALSE
  ResumeRecycled = FALSE
  MaxProc = 4
  MaxRecycle = 1
  MaxCrash = 2
INVARIANTS KernelInv NoDoubleDrive ChildTracked
PROPERTIES LedgerLegal ShutdownResolves
CHECK_DEADLOCK FALSE
