SPECIFICATION Spec
CONSTANTS
    j1 = j1
    Jobs = {j1}
    Concurrency = 3
    MaxAttempts = 3
    Delays <- ShortDelays
    JobAttempts = 2
    MaxMessages = 2
    MaxParallel = 1
    Faults = {}
    MaxFaults = 0
    MaxSlow = 0
INVARIANT
    MaxAttemptsKept
CHECK_DEADLOCK FALSE
