\* Two requests at a time on two files, in sixteen scenarios.
SPECIFICATION Spec
CONSTANTS
    c1 = c1
    c2 = c2
    f1 = f1
    f2 = f2
    f3 = f3
    Clients = {c1, c2}
    FileSet = {f1, f2, f3}
    MaxFiles = 2
    Truncated = {}
    Budgets <- Scenarios
SYMMETRY Symmetry
INVARIANTS ValidationIsCurrent ResultsAreCurrent GraphOfConversion
    ReportOfValidation PersistedIsKept HistoryOfGraph
CHECK_DEADLOCK FALSE
