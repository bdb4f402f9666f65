SPECIFICATION Spec
CONSTANTS
    Replicas = {p1, p2}
    Tenants = {t1}
    Reqs = {r1, r2}
    InitLimits <- MCInitLimits
    Updates <- MCUpdates
    MaxRequests = 1
    WindowSecs = 2
    NewMax = {2}
    NewWindow = {Nil}
    MaxLimit = 2
    MinWindow = 2
    MaxRestarts = 1
    MaxChecks = 3
    MaxTime = 2
    Nil = Nil
SYMMETRY Symmetry
INVARIANT TypeOK AdmissionBound RetryAfterHonoured
