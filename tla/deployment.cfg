\* Up to two variables away from a working environment; four links, six visitors.
CONSTANTS
    None = None
    Blank = Blank
    Bad = Bad
    Envs <- MCEnvs
    Links <- MCLinks
    Visitors <- MCVisitors
SPECIFICATION Spec
INVARIANTS DeploymentTypeOK IamConfigSound BlankMeansUnset OffersEverything OneDestination DeviceGetsItsStore DeadLinkLeadsOn AssociationComplete PrivacyExplicit
CHECK_DEADLOCK FALSE
