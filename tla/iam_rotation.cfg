\* The defaults in minutes: token 15, refresh 14, lifetime 10; no refresh fails.
CONSTANTS
    c1 = c1
    c2 = c2
    Conns = {c1}
    TokenTtl = 15
    RefreshInterval = 14
    MaxLifetime = 10
    MaxConnect = 0
    MaxMint = 0
    MaxFails = 0
    MaxAge = 20
SPECIFICATION Spec
INVARIANT ConnectionsRotateWhileTokenValid
