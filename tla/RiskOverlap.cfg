\* Two requests that overlap in any way, a failed write and a restart.
SPECIFICATION Spec
CONSTANTS
    c1 = c1
    c2 = c2
    f1 = f1
    r1 = r1
    r2 = r2
    Clients = {c1, c2}
    Findings = {f1}
    Rules = {r1, r2}
    RuleOf <- OneFinding
    MaxScans = 3
    MaxDecisions = 3
    MaxFaults = 1
    MaxCrashes = 1
SYMMETRY Symmetry
INVARIANT AnsweredIsWritten
PROPERTY SuppressionIsKept
CHECK_DEADLOCK FALSE
