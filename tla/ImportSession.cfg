\* One instance that crashes once; its session timer may fire six times, more than it can be needed. The last chunk
\* of the file is full.
SPECIFICATION FairSpec
CONSTANTS
    i1 = i1
    i2 = i2
    w1 = w1
    w2 = w2
    f1 = f1
    f2 = f2
    Files = {f1}
    Instances = {i1}
    Workers = {w1, w2}
    HostOf <- OneHost
    ExcelFiles = {}
    EvenFiles = {f1}
    NumChunks = 2
    MaxAttempts = 2
    MaxFaults = 0
    MaxCrashes = 1
    MaxRetries = 0
    MaxStalls = 0
    MaxTimers = 6
    MaxLosses = 0
    MaxCancels = 0
    MaxWrites = 3
INVARIANT FinishedIsShown
PROPERTY EverySessionSettles
CHECK_DEADLOCK FALSE
