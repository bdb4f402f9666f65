SPECIFICATION Spec
CONSTANTS
    Replicas = {p1}
    Tenants = {t1}
    Reqs = {r1, r2}
    InitLimits <- MCInitLimits
    Updates <- MCUpdates
    MaxRequests = 2
    WindowSecs = 2
    NewMax = {}
    NewWindow = {}
    MaxLimit = 2
    MinWindow = 2
    MaxRestarts = 0
    MaxChecks = 3
    MaxTime = 3
    Nil = Nil
SYMMETRY Symmetry
INVARIANT SlidingWindow
