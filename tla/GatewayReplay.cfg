SPECIFICATION FairSpec
CONSTANTS
    Clients = {w1, w2}
    MaxEntries = 2
    MaxSeq = 3
    MaxDrops = 1
    MaxBoot = 1
INVARIANTS ReplayInv SettledIsCurrent
PROPERTY CaughtUp
CHECK_DEADLOCK FALSE
