SPECIFICATION Spec
CONSTANTS
    Ids = {i1}
    Tenants = {t1, t2}
    Reqs = {r1, r2}
    InitConf <- MCInitConf
    Updates <- MCUpdates
    Ttl = 1
    NewTtl = {0}
    NewLimit = {}
    MaxTtl = 1
    Limits = {1}
    Offsets = {0}
    Filtered = {TRUE, FALSE}
    RequestTimeout = 1
    Faulty = TRUE
    Grpc = TRUE
    MaxVersion = 2
    MaxTime = 3
    Nil = Nil
SYMMETRY Symmetry
INVARIANT TypeOK TenantIsolation BoundedStaleness
