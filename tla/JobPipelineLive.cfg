SPECIFICATION FairSpec
CONSTANTS
    Backups = {b1}
    Workers = {w1, w2}
    Msgs = {m1}
    NoMsg = NoMsg
    MaxFaults = 2
PROPERTY JobSettles RunningResolves
CHECK_DEADLOCK FALSE
