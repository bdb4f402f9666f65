SPECIFICATION FairSpec
CONSTANTS
    Backups = {b1}
    Workers = {w1}
    Msgs = {m1}
    NoMsg = NoMsg
    MaxFaults = 0
PROPERTY EveryJobLeavesQueue
CHECK_DEADLOCK FALSE
