\* A server without apps, and one with both; four links, six visitors.
CONSTANTS
    None = None
    Blank = Blank
    Bad = Bad
    Envs <- MCPlainEnvs
    Links <- MCLinks
    Visitors <- MCVisitors
SPECIFICATION Spec
INVARIANT BaseUrlStandsIn
CHECK_DEADLOCK FALSE
