SPECIFICATION Spec
CONSTANTS
    Ids = {i1, i2}
    Tenants = {t1, t2}
    Reqs = {r1}
    InitConf <- MCInitConf
    Updates <- MCUpdates
    Ttl = 1
    NewTtl = {}
    NewLimit = {1, 2}
    MaxTtl = 1
    Limits = {1, 2}
    Offsets = {0, 1}
    Filtered = {TRUE, FALSE}
    RequestTimeout = 1
    Faulty = FALSE
    Grpc = FALSE
    MaxVersion = 2
    MaxTime = 1
    Nil = Nil
SYMMETRY Symmetry
INVARIANT ListHonoursLimit
