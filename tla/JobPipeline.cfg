SPECIFICATION Spec
CONSTANTS
    Backups = {b1}
    Workers = {w1, w2}
    Msgs = {m1, m2}
    NoMsg = NoMsg
    MaxFaults = 2
SYMMETRY Symmetry
INVARIANT TypeOK SettledWasReported RunningIsOwned ChannelAgreement
PROPERTY AtLeastOnce
CHECK_DEADLOCK FALSE
