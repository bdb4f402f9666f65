SPECIFICATION FairMigrateSpec
CONSTANTS
    Replicas = {p1}
    Reqs = {r1}
    RequestTimeout = 1
    Grace = 1
    MaxFaults = 0
    Nil = Nil
PROPERTY PendingMigrationsRun
