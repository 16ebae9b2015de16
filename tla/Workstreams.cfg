SPECIFICATION LineageFairSpec
CONSTANTS
  Kernel = {k1, k2}
  Outside = {o1}
  Streams = {w1}
  None = None
  MaxNodes = 3
  MaxBriefs = 2
  MaxFaults = 1
INVARIANT WorkstreamsInv
PROPERTY PostsBriefed
CHECK_DEADLOCK FALSE
