CONSTANTS
    Extensions = {e1}
    Sounds = {}
    DeploymentIds = {d1,d2}
    RevisionLimit = 3
    MaxRevision = 3
    Bootstrap = bootstrap
    NoTarget = none
    InitialTarget = bootstrap
    MaxInFlight = 2
    MaxFaults = 0
    MaxLocalFaults = 0
    MaxCrashes = 0
SPECIFICATION Spec
SYMMETRY Symmetry
INVARIANT ActiveIsCurrentLink
CHECK_DEADLOCK FALSE
