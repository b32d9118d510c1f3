CONSTANTS
    n1 = n1
    n2 = n2
    n3 = n3
    v1 = v1
    Node = {n1, n2}
    None = None
    Value = {v1}
    MaxInflight = 2
    MaxEntsPerMsg = 1
    CheckQuorum = FALSE
    Reports = TRUE
    Heartbeats = TRUE
    MaxTerm = 2
    MaxLog = 4
    MaxSnap = 0
    MaxRestarts = 0
SPECIFICATION Spec
SYMMETRY Symmetry
VIEW View
CHECK_DEADLOCK FALSE
INVARIANTS TypeOK ElectionSafety ProgressInOrder MatchIsTrue
