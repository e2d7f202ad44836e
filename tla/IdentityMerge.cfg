\* Two requests at a time on three nodes, in five scenarios.
SPECIFICATION Spec
CONSTANTS
    c1 = c1
    c2 = c2
    a = a
    b = b
    d = d
    g1 = g1
    g2 = g2
    Clients = {c1, c2}
    Nodes = {a, b, d}
    Groups = {g1, g2}
    Blank = " "
    Values <- SmallValues
    Norm <- SmallNorm
    Versions <- SmallVersions
    Starts <- SmallStarts
    Budgets <- Scenarios
SYMMETRY Symmetry
INVARIANTS SourcesAreLinked ConflictsAreShown ConfirmedIsKept
PROPERTY PreviewIsKept
CHECK_DEADLOCK FALSE
