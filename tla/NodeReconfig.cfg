CONSTANTS
    n1 = n1
    n2 = n2
    n3 = n3
    v1 = v1
    Node = {n1, n2}
    None = None
    Value = {v1}
    MaxInflight = 2
    MaxEntsPerMsg = 2
    InitialMembers = {n1}
    ConfChanges <- Reconfigurations
    CheckQuorum = TRUE
    SnapCount = 0
    CatchUpEntries = 0
    Reports = TRUE
    MaxTerm = 2
    MaxCrashes = 0
SPECIFICATION Spec
VIEW View
ACTION_CONSTRAINT Eager
CONSTRAINT FewHeartbeats
CHECK_DEADLOCK FALSE
INVARIANTS TypeOK NoPanic MatchIsSaved 
