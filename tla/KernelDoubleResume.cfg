SPECIFICATION Spec
CONSTANTS
  Sessions = {s1, s2}
  NoSession = NoSession
  ConcurrentCalls = TRUE
  ResumeRecycled = FALSE
  MaxProc = 4
  MaxRecycle = 0
  MaxCrash = 1
INVARIANTS NoDoubleDrive
CHECK_DEADLOCK FALSE
