SPECIFICATION FairDepsSpec
CONSTANTS
    Replicas = {p1}
    Reqs = {r1}
    RequestTimeout = 1
    Grace = 1
    MaxFaults = 1
    Nil = Nil
PROPERTY RedisOutageHeals
