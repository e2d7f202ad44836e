\* Two instances, one file: a crash, a failure of the database and a lost source.
SPECIFICATION FairSpec
CONSTANTS
    i1 = i1
    i2 = i2
    w1 = w1
    w2 = w2
    f1 = f1
    f2 = f2
    Files = {f1}
    Instances = {i1, i2}
    Workers = {w1, w2}
    HostOf <- TwoHosts
    ExcelFiles = {}
    EvenFiles = {}
    NumChunks = 2
    MaxAttempts = 2
    MaxFaults = 1
    MaxCrashes = 1
    MaxRetries = 0
    MaxStalls = 0
    MaxTimers = 0
    MaxLosses = 1
    MaxCancels = 0
    MaxWrites = 1
PROPERTY EveryJobSettles
CHECK_DEADLOCK FALSE
