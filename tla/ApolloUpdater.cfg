SPECIFICATION FairSpec
CONSTANTS
    InitConf <- MCInitConf
    Updates <- MCUpdates
    Interval = 2
    Timeout = 3
    MaxChanges = 2
    MaxFaults = 2
    Nil = Nil
INVARIANT TypeOK NoTornSettings Freshness
PROPERTY NewestWins AtomicSettings Converges
