\* One instance, one workbook: the user cancels and retries while runs are at work,
\* the session expires, and the source file may disappear.
SPECIFICATION Spec
CONSTANTS
    i1 = i1
    i2 = i2
    w1 = w1
    w2 = w2
    f1 = f1
    f2 = f2
    Files = {f1}
    Instances = {i1}
    Workers = {w1, w2}
    HostOf <- OneHost
    ExcelFiles = {f1}
    EvenFiles = {}
    NumChunks = 2
    MaxAttempts = 2
    MaxFaults = 0
    MaxCrashes = 0
    MaxRetries = 1
    MaxStalls = 0
    MaxTimers = 1
    MaxLosses = 1
    MaxCancels = 1
    MaxWrites = 2
INVARIANT FailedIsRetriable
CHECK_DEADLOCK FALSE
