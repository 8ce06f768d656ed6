\* Two visitors and two admins on one path; two writes, one fault of any kind.
\* No symmetry, which is unsound for Converges.
CONSTANTS
    v1 = v1
    v2 = v2
    a1 = a1
    a2 = a2
    Paths = {"p"}
    Visitors = {v1, v2}
    Admins = {a1, a2}
    Bodies <- MCBodies
    LinkCacheTtl = 2
    NegativeCacheTtl = 0
    MaxTime = 2
    MaxWrites = 2
    MaxFaults = 1
SPECIFICATION TimedFairSpec
INVARIANTS TimedTypeOK StaleKeysAge StalenessBounded
PROPERTIES CleanUntilWritten InvalidateRepairs CleanAnswersExact ImplementsRegister Converges
