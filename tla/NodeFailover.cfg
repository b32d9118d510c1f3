CONSTANTS
    n1 = n1
    n2 = n2
    n3 = n3
    v1 = v1
    Node = {n1, n2, n3}
    None = None
    Value = {}
    MaxInflight = 2
    MaxEntsPerMsg = 2
    InitialMembers = {n1, n2, n3}
    ConfChanges <- NoConfChanges
    CheckQuorum = FALSE
    SnapCount = 10
    CatchUpEntries = 0
    Reports = FALSE
    MaxTerm = 3
    MaxCrashes = 1
SPECIFICATION FailoverSpec
VIEW View
CONSTRAINTS NoHeartbeats OneChallenger
ACTION_CONSTRAINTS EagerButOvertaken ThirdCrashes
CHECK_DEADLOCK FALSE
INVARIANTS ElectionSafety StateMachineSafety StableIsSaved
