SPECIFICATION FairSpec
CONSTANTS
  Consumers = {c1, c2}
  Cap = 5
  HighWater = 4
  LowWater = 1
  Window = 2
  MaxChunk = 2
  MaxHead = 6
  MaxAttach = 3
INVARIANTS IInv PushAccepted
PROPERTIES FloorNeverOutrunsAcks EveryByteAcked
CHECK_DEADLOCK FALSE
