CONSTANTS
    Users = {"ann", "bob"}
    Passwords = {"secret"}
    Roles = {"viewer", "admin"}
    Requests = {"r1", "r2"}
    Keep = keep
    MaxSessions = 2
    MaxFailures = 1
    MaxChanges = 2
    Texts = {"a", "b"}
    Prompts = {"p"}
    Kinds = {"save", "deploy", "secret", "replace", "sound"}
    Saving = {"deploy", "secret", "sound"}
    Replacing = {"save", "replace", "sound"}
    Crossing = {"secret", "replace"}
    Limit = 1
    MaxRevision = 3
SPECIFICATION MCSpec
INVARIANT AdminRemains
INVARIANT BaselineIsRevision
INVARIANT DeploysWhatWasShown
PROPERTY DisabledIsOut
PROPERTY StreamsEnd
PROPERTY OneStepBack
CHECK_DEADLOCK FALSE
