CONSTANTS
    Extensions = {e1}
    Sounds = {}
    DeploymentIds = {d1, d2}
    RevisionLimit = 1
    MaxRevision = 2
    Bootstrap = bootstrap
    NoTarget = none
    InitialTarget = none
    MaxInFlight = 2
    MaxFaults = 1
    MaxLocalFaults = 1
    MaxCrashes = 1
SPECIFICATION OneFaultSpec
INVARIANT OnlyPreflightedTargets
PROPERTY EveryDeploymentEnds
CHECK_DEADLOCK FALSE
