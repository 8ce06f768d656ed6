\* An interval that leaves just enough room for the slowest calls, and up to two
\* failed refreshes in a row.
CONSTANTS
    c1 = c1
    c2 = c2
    Conns = {c1, c2}
    TokenTtl = 7
    RefreshInterval = 4
    MaxLifetime = 3
    MaxConnect = 1
    MaxMint = 1
    MaxFails = 2
    MaxAge = 20
SPECIFICATION FairSpec
INVARIANTS IamTypeOK TokenAgeBounded NewConnectionsAuthenticate UsableTokenBounded
PROPERTY OutageEnds
