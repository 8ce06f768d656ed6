\* No command fails and no request is dropped.
CONSTANTS
    v1 = v1
    v2 = v2
    a1 = a1
    a2 = a2
    Paths = {"p"}
    Visitors = {v1}
    Admins = {a1}
    Bodies <- MCBodies
    LinkCacheTtl = 2
    NegativeCacheTtl = 0
    MaxTime = 2
    MaxWrites = 2
    MaxFaults = 0
SPECIFICATION TimedSpec
INVARIANT DisablingTakesEffect
