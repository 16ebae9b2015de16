SPECIFICATION Spec
CONSTANTS
  Sessions = {1, 2}
  Account = {1}
  Ticks = {t1, t2}
  WarnAt <- MCWarnAt
  RecycleAt <- MCRecycleAt
  NoLine = 9
  Margin = 1
  Sustain <- MCSustain
  MaxFootprint = 4
  Sampled = {1}
  IdleWindow = 1
  RedGate = 2
  MaxTime = 1
INVARIANT SupervisionInv
PROPERTY AccountsOnlyAtSustainedRed
PROPERTY RedPassIsComplete
SYMMETRY TickSymmetry
CHECK_DEADLOCK FALSE
