CONSTANTS
    n1 = n1
    n2 = n2
    n3 = n3
    v1 = v1
    Node = {n1, n2, n3}
    None = None
    Value = {}
    MaxInflight = 2
    MaxEntsPerMsg = 1
    CheckQuorum = FALSE
    Reports = FALSE
    Heartbeats = FALSE
    MaxTerm = 5
    MaxLog = 3
    MaxSnap = 0
    MaxRestarts = 0
SPECIFICATION DivergedSpec
SYMMETRY Symmetry
VIEW View
CONSTRAINT OneCandidate
CHECK_DEADLOCK FALSE
INVARIANTS LogMatching CommittedAgree LeaderCompleteness
