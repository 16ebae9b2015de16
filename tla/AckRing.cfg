SPECIFICATION RingFairSpec
CONSTANTS
  RingCap = 8
  RingHighWater = 3
  RingLowWater = 1
  RingMaxChunk = 2
  MaxIn = 16
  MaxChance = 4
INVARIANTS RingInv RingAccepts
PROPERTIES PauseEnds
CHECK_DEADLOCK FALSE
