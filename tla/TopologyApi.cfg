CONSTANTS
    Extensions = {e1}
    Sounds = {s1}
    DeploymentIds = {d1, d2}
    Clients = {c1, c2}
    BuiltinPrompt = builtin
    RevisionLimit = 1
    MaxRevision = 4
SPECIFICATION Spec
SYMMETRY Symmetry
INVARIANT PointersExist
INVARIANT SecretsMatchCurrent
INVARIANT EtagNamesContent
INVARIANT RetentionBound
INVARIANT ActiveIsLogged
PROPERTY HistoryImmutable
CHECK_DEADLOCK FALSE
