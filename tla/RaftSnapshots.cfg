CONSTANTS
    n1 = n1
    n2 = n2
    n3 = n3
    v1 = v1
    Node = {n1, n2, n3}
    None = None
    Value = {}
    MaxInflight = 2
    MaxEntsPerMsg = 2
    CheckQuorum = TRUE
    Reports = TRUE
    Heartbeats = TRUE
    MaxTerm = 1
    MaxLog = 3
    MaxSnap = 2
    MaxRestarts = 1
SPECIFICATION ElectedSpec
SYMMETRY Symmetry
VIEW View
ACTION_CONSTRAINT CompactedRestarts
CHECK_DEADLOCK FALSE
INVARIANTS MatchIsTrue NoPanic
