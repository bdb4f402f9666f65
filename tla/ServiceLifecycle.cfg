SPECIFICATION FairSpec
CONSTANTS
    Replicas = {p1, p2}
    Reqs = {r1, r2}
    RequestTimeout = 2
    Grace = 2
    MaxFaults = 2
    Nil = Nil
INVARIANT TypeOK ServesOnSchema
PROPERTY StopFinishesWork ReplicasServe
