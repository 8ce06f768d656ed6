\* Two requests, deletions of their link and a probe on a pool with one connection.
CONSTANTS
    r1 = r1
    r2 = r2
    r3 = r3
    l1 = l1
    l2 = l2
    NoLink = NoLink
    Requests = {r1, r2}
    Links = {l1}
    MaxConnections = 1
    MaxFaults = 2
SPECIFICATION FairSpec
INVARIANTS ClickTypeOK ClicksFaithful ClicksReferToLinks
PROPERTIES ShutdownCompletes ClicksSettle LossExplained OneConnectionEach ReadyAgain
CHECK_DEADLOCK FALSE
