CONSTANTS
    NodeIds = {a1, a2, b, c}
    SipUsers = {u1, u2, v}
    Mailboxes = {box1, box2}
    Digits = {k1}
    Sanitize <- MCSanitize
    Malformed = malformed
    UnsafeUser = unsafe
    NoDigit = nodigit
    NoMailbox = nobox
    EmptyMailbox = emptybox
    MaxNodes = 3
    MaxCycles = 20
    a1 = a1
    a2 = a2
    b = b
    c = c
    u1 = u1
    u2 = u2
    v = v
    box1 = box1
    box2 = box2
    name1 = name1
    name2 = name2
    name3 = name3
    user1 = user1
    user2 = user2
    DayMinutes = 3
    LastDay = 3
    WindowIds = {w1, w2}
    MaxDate = 4
    NamesEdges = 1
    WalkEdges = 3
    Actions = {list1, list2, ping}
    Lists = {list1, list2}
    Login = login
    ListLength = 1
    MaxIntervals = 4
    MaxFaults = 2
    Phones = {phone}
    MaxCalls = 1
    MaxChanges = 5
    MaxKeys = 3
    KeptKeys = 2
    Deployments = {"d1", "d2"}
    Good = {"d1"}
    Deadline = 3
    WorkerLimit = 2
    MaxDeaths = 2
    Extensions = {"e1", "e2"}
    Keys = {"A", "B", "C"}
    MaxWrites = 2
    MaxInterruptions = 2
    Prompts = {"p1", "p2"}
    Versions = {"v1", "current"}
    MaxRuns = 2
    Processes = {"server", "command"}
    Contents = {"l1", "l2", "broken"}
    Valid = {"l1", "l2"}
    MaxCrashes = 2
    MaxEdits = 2
SPECIFICATION MCSpec
INVARIANT TypesOK
INVARIANT NamesUnique
INVARIANT ReferencesResolve
INVARIANT NoLoopWithoutExit
INVARIANT MirrorAgreesBeforeMidnight
INVARIANT OverlapIsExact
INVARIANT WaitingIsPending
INVARIANT ListsAreComplete
INVARIANT AlwaysWatching
INVARIANT OwnVerdict
INVARIANT ValuesSurvive
INVARIANT OneKey
INVARIANT ServerReads
INVARIANT FailureLeavesTargets
INVARIANT RestoredIsWhole
INVARIANT LegacyBeatsSeed
PROPERTY AcyclicCallsEnd
PROPERTY Recovers
PROPERTY Converges
PROPERTY AllEnd
PROPERTY SourceGoesAfterCommit
PROPERTY Migrates
CHECK_DEADLOCK FALSE
