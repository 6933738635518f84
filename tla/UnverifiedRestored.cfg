CONSTANTS
    Extensions = {e1}
    Sounds = {}
    DeploymentIds = {d1,d2}
    RevisionLimit = 3
    MaxRevision = 3
    Bootstrap = bootstrap
    NoTarget = none
    InitialTarget = bootstrap
    MaxInFlight = 1
    MaxFaults = 1
    MaxLocalFaults = 0
    MaxCrashes = 1
SPECIFICATION Spec
SYMMETRY Symmetry
PROPERTY RollbackRestoresLastGood
CHECK_DEADLOCK FALSE
