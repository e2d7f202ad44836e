\* Requests one after the other with a failed save and a restart, and three requests
\* of any kind at the same time.
SPECIFICATION Spec
CONSTANTS
    c1 = c1
    c2 = c2
    c3 = c3
    Clients = {c1, c2, c3}
    NumStages = 3
    CheckStage = 2
    Graphs = {1, 2}
    BadGraphs = {2}
    Kinds <- AllKinds
    Budgets <- Scenarios
SYMMETRY Symmetry
INVARIANTS OutputMatches CompletedIsWhole RunningIsDriven ReadyHasData
CHECK_DEADLOCK FALSE
