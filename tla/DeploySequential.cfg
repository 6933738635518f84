CONSTANTS
    Extensions = {e1}
    Sounds = {}
    DeploymentIds = {d1,d2,d3}
    RevisionLimit = 1
    MaxRevision = 3
    Bootstrap = bootstrap
    NoTarget = none
    InitialTarget = bootstrap
    MaxInFlight = 1
    MaxFaults = 2
    MaxLocalFaults = 0
    MaxCrashes = 0
SPECIFICATION Spec
SYMMETRY Symmetry
INVARIANT RuntimeServesLink
PROPERTY ImplementsContract
CHECK_DEADLOCK FALSE
