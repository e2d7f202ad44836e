\* Two instances and one file: a crash at any point, a restart with its recovery,
\* and a lease that runs out under a live run.
SPECIFICATION Spec
CONSTANTS
    i1 = i1
    i2 = i2
    w1 = w1
    w2 = w2
    f1 = f1
    f2 = f2
    Files = {f1}
    Instances = {i1, i2}
    Workers = {w1, w2}
    HostOf <- TwoHosts
    ExcelFiles = {}
    EvenFiles = {}
    NumChunks = 2
    MaxAttempts = 2
    MaxFaults = 0
    MaxCrashes = 1
    MaxRetries = 0
    MaxStalls = 1
    MaxTimers = 0
    MaxLosses = 0
    MaxCancels = 0
    MaxWrites = 3
INVARIANTS TypeOK CheckpointCovered CompletedWhole InspectedWhole GivesUpWhenExhausted
PROPERTY ImplementsContract
CHECK_DEADLOCK FALSE
