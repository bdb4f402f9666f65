SPECIFICATION Spec
CONSTANTS
    Ids = {i1}
    Tenants = {t1, t2}
    Reqs = {r1}
    InitConf <- MCInitConf
    Updates <- MCUpdates
    Ttl = 1
    NewTtl = {}
    NewLimit = {2}
    MaxTtl = 1
    Limits = {1, 2}
    Offsets = {0, 1}
    Filtered = {TRUE, FALSE}
    RequestTimeout = 1
    Faulty = FALSE
    Grpc = TRUE
    MaxVersion = 2
    MaxTime = 2
    Nil = Nil
SYMMETRY Symmetry
INVARIANT WritesInvalidate
