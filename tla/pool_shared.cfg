\* Two requests and deletions of their link; nothing fails.
CONSTANTS
    r1 = r1
    r2 = r2
    r3 = r3
    l1 = l1
    l2 = l2
    NoLink = NoLink
    Requests = {r1, r2}
    Links = {l1}
    MaxConnections = 1
    MaxFaults = 0
SPECIFICATION FairSpec
PROPERTY LoggingFailsNoRequest
CHECK_DEADLOCK FALSE
