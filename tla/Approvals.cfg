SPECIFICATION FairSpec
CONSTANTS
    Ids = {a1}
    Sessions = {s1}
    NoSession = NoSession
    Windows = {w1, w2}
    Flaky = {w1}
    MaxEntries = 2
    MaxDrops = 1
    MaxOther = 1
INVARIANTS ApprovalsInv ProceedsByHuman
PROPERTIES OutcomeFinal EveryWaitEnds InboxConverges
CHECK_DEADLOCK FALSE
